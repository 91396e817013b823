------------------------------- MODULE RaidkmRow -------------------------------
(***************************************************************************)
(* The row layer: reads, writes and passes over one whole row of chunks,   *)
(* beside the stripe cache that works on the same row a stripe at a time.  *)
(*                                                                         *)
(* A degraded read takes K members' chunks outside the cache and decodes;  *)
(* it trusts them if the row's bucket counted no writer from before the    *)
(* first read until after the last.  A full-row write owns the row: a slot *)
(* of a lock table makes the stripe cache wait, a walk under the cache's   *)
(* locks finds the row idle and drops its pages.  A rebuild or a resync    *)
(* claims every stripe of the row and marks it, so that writes (and, for a *)
(* resync, reads) bounce.  Around them: quiesce, the superblock, members   *)
(* that fail, write errors and bad blocks.                                 *)
(*                                                                         *)
(* A stripe's own handling is RaidkmStripe's matter: here it is one step   *)
(* that fills, computes and issues, then one step per member write.  The   *)
(* rows of one request's bio, buckets and lock slots of other rows, native *)
(* checksums, replacements and the bitmap are left out.                    *)
(***************************************************************************)
EXTENDS Integers, FiniteSets, FiniteSetsExt, Functions, TLC

CONSTANTS
  K, M,           \* data and parity members of the row
  Q, Coef,        \* the code: a prime and the encoding matrix, as in RaidkmStripe
  Stripes,        \* the row's stripes, 0..(n-1)
  Requests,       \* request slots
  None,           \* no request
  Sync,           \* the pass, as a user of stripes
  Budgets         \* bounds, one of them in a behaviour: [write, rowwrite, read,
                  \* lost, wfaults, quiesces, pass, start, forever]

Disks == 0..(K + M - 1)
Data == 0..(K - 1)
Parity == K..(K + M - 1)
Block == 0..(Q - 1)

ASSUME RowAssumption ==
  /\ K \in Nat \ {0} /\ M \in Nat \ {0} /\ Q \in Nat \ {0}
  /\ Coef \in [0..(M - 1) -> [Data -> Block]]
  /\ Stripes # {} /\ Stripes \subseteq Nat
  /\ None \notin Requests /\ Sync \notin Requests /\ None # Sync

VARIABLES
  disk,       \* [Stripes -> [Disks -> Block]]: the members' blocks
  member,     \* [Disks -> {"insync", "ahead", "rebuilding", "faulty"}]
  bad,        \* bad-block lists: a set of <<stripe, member>>
  pending,    \* MD_SB_CHANGE_PENDING
  onSb,       \* what the superblocks record: [member, bad]
  sh,         \* [Stripes -> stripe_head]: [held, owner, mark, uptodate, page]
  bucket,     \* the row's bucket: [inflight, gen]
  wlock,      \* the row's lock slot: [by, wanted, grace]
  rowWrites,  \* the requests conf->row_writes counts
  aligned,    \* the requests conf->active_aligned_reads counts
  quiesce,    \* conf->quiesce: "off", "draining" (2), "on" (1)
  req,        \* [Requests -> request]
  pass,       \* the sync pass
  dirty,      \* recovery_cp is at or below the row
  cands,      \* [Stripes -> [Data -> SUBSET Block]]: what a read may return (history)
  doubt,      \* the stripes whose last write failed (history)
  wrote,      \* writes submitted; their values (history)
  budget      \* what may still happen

devices == <<disk, member, bad, pending, onSb>>
locks == <<bucket, wlock, rowWrites, aligned>>
history == <<cands, doubt, wrote>>
vars == <<devices, sh, locks, quiesce, req, pass, dirty, history, budget>>

-----------------------------------------------------------------------------
(* The code. *)

Encode(p, d) == FoldFunction(+, 0, [j \in Data |-> Coef[p - K][j] * d[j]]) % Q
Codeword(d) == [i \in Disks |-> IF i \in Data THEN d[i] ELSE Encode(i, d)]
Solve(page, src) == CHOOSE d \in [Data -> Block] : \A i \in src : Codeword(d)[i] = page[i]

\* What the arithmetic of Q and Coef is for: a parity is a block, that of zeroes is zero,
\* and any K members' blocks determine the data.
ASSUME CodeAssumption ==
  /\ \A p \in Parity :
       /\ \A d \in [Data -> Block] : Encode(p, d) \in Block
       /\ Encode(p, [j \in Data |-> 0]) = 0
  /\ \A src \in SUBSET Disks, d, e \in [Data -> Block] :
       Cardinality(src) = K /\ (\A i \in src : Codeword(d)[i] = Codeword(e)[i]) => d = e

\* The bounds: every write's value is a block; an array that is rebuilt did not crash.
BudgetBounds ==
  [write : Nat, rowwrite : Nat, read : Nat, lost : Nat, wfaults : Nat, quiesces : Nat,
   pass : {"none", "recover", "repair"}, start : {"clean", "degraded", "rebuilding", "torn"},
   forever : BOOLEAN]
ASSUME BudgetAssumption ==
  \A b \in Budgets :
    /\ b \in BudgetBounds
    /\ IF b.forever THEN 1 < Q /\ b.read = 0 ELSE b.write + b.rowwrite < Q
    /\ b.pass = "recover" => b.start # "torn"

\* The first K of a set of members, in the order of the generator's rows.
FirstK(S) == {i \in S : Cardinality({j \in S : j < i}) < K}

-----------------------------------------------------------------------------
(* Members, requests, stripes. *)

Present(i) == member[i] # "faulty"
\* In sync, or recovered past the row, and no bad block.
Usable(s, i) == member[i] \in {"insync", "ahead"} /\ <<s, i>> \notin bad

NoRequest ==
  [kind |-> "none", stage |-> "idle", todo |-> {}, at |-> 0, blk |-> {}, val |-> 0,
   wait |-> "no", waited |-> FALSE, retry |-> FALSE, out |-> {}, failed |-> {},
   missing |-> {}, src |-> {}, got |-> <<>>, page |-> <<>>, gen0 |-> 0,
   may |-> [d \in Data |-> {}], answer |-> <<>>]
NoPass ==
  [kind |-> "none", stage |-> "idle", target |-> 0, members |-> {}, claimed |-> {},
   got |-> <<>>, out |-> {}, ok |-> TRUE, left |-> {},
   tries |-> 0]

\* What was read, and x of member i too.
Adding(got, i, x) == [j \in DOMAIN got \union {i} |-> IF j = i THEN x ELSE got[j]]

FirstOf(S) == CHOOSE s \in S : \A t \in S : s <= t
Running == pass.kind # "none"                 \* MD_RECOVERY_RUNNING

\* A stripe's current user is done with it; bios that overlapped try again.
Woken(s) == [q \in Requests |->
  IF req[q].wait = "overlap" /\ req[q].at = s THEN [req[q] EXCEPT !.wait = "no"] ELSE req[q]]

-----------------------------------------------------------------------------
(* Requests arrive.  A write's value is its number. *)

Value == IF budget.forever THEN 1 ELSE wrote + 1

Submit(r) ==
  /\ req[r].stage = "idle"
  /\ \/ \E s \in Stripes, d \in Data :
          /\ budget.write > 0
          /\ budget' = [budget EXCEPT !.write = @ - 1]
          /\ req' = [req EXCEPT ![r] = [NoRequest EXCEPT !.kind = "write", !.stage = "get",
                                          !.todo = {s}, !.blk = {d}, !.val = Value]]
          /\ wrote' = Value
     \/ /\ budget.rowwrite > 0
        /\ budget.forever => \A q \in Requests : req[q].blk # Data      \* one stream
        /\ budget' = IF budget.forever THEN budget ELSE [budget EXCEPT !.rowwrite = @ - 1]
        /\ req' = [req EXCEPT ![r] = [NoRequest EXCEPT !.kind = "write", !.stage = "prep",
                                        !.todo = Stripes, !.blk = Data, !.val = Value]]
        /\ wrote' = Value
     \/ \E s \in Stripes, D \in {{d} : d \in Data} \union {Data} :
          /\ budget.read > 0
          /\ budget' = [budget EXCEPT !.read = @ - 1]
          /\ req' = [req EXCEPT ![r] = [NoRequest EXCEPT !.kind = "read", !.stage = "pick",
                                          !.todo = {s}, !.blk = D, !.may = cands[s]]]
          /\ UNCHANGED wrote
  /\ UNCHANGED <<devices, sh, locks, quiesce, pass, dirty, cands, doubt>>

\* raidkm_row_wget and raidkm_row_write_go: one more writer in the row's bucket.
NextGen == IF budget.forever THEN (bucket.gen + 1) % 2 ELSE bucket.gen + 1
CountIn == bucket' = [inflight |-> bucket.inflight + 1, gen |-> NextGen]

\* A write of v to the blocks D of the stripes S begins to reach the members.
Begin(S, D, v) ==
  cands' = [s \in Stripes |-> [d \in Data |->
             IF s \in S /\ d \in D THEN cands[s][d] \union {v} ELSE cands[s][d]]]
MayAlso(S, D, v) == [q \in Requests |->
  IF req[q].kind = "read" /\ req[q].todo \subseteq S
    THEN [req[q] EXCEPT !.may = [d \in Data |-> IF d \in D THEN @[d] \union {v} ELSE @[d]]]
    ELSE req[q]]
\* Every member write of it has landed, or has failed on so many that it is lost.
Landed(S, D, v, lost) ==
  /\ cands' = [s \in Stripes |-> [d \in Data |->
                 IF s \in S /\ d \in D THEN {v} ELSE cands[s][d]]]
  /\ doubt' = IF lost THEN doubt \union S ELSE doubt

-----------------------------------------------------------------------------
(* The stripe cache: get a stripe, attach, handle, land, note, acknowledge. *)

Locked == wlock.by # None                     \* raidkm_row_wlocked

\* raid5_get_active_stripe, or a parked read's try: the row is owned, so wait
\* for it; a request that may block says that it wants the row.
GetWaits(r) ==
  /\ req[r].stage = "get" /\ req[r].wait = "no" /\ Locked
  /\ req[r].retry \/ quiesce = "off"
  /\ wlock' = IF req[r].retry THEN wlock ELSE [wlock EXCEPT !.wanted = TRUE]
  /\ req' = [req EXCEPT ![r].wait = "row", ![r].waited = ~req[r].retry]
  /\ UNCHANGED <<devices, sh, bucket, rowWrites, aligned, quiesce, pass, dirty, history, budget>>

Get(r) ==
  LET s == FirstOf(req[r].todo)
  IN  /\ req[r].stage = "get" /\ req[r].wait = "no" /\ ~Locked
      /\ req[r].retry \/ quiesce = "off"
      /\ sh' = [sh EXCEPT ![s].held = @ \union {r}]
      /\ req' = [req EXCEPT ![r].stage = "attach", ![r].at = s, ![r].waited = FALSE]
      /\ wlock' = IF req[r].waited THEN [wlock EXCEPT !.grace = FALSE] ELSE wlock
      /\ UNCHANGED <<devices, bucket, rowWrites, aligned, quiesce, pass, dirty, history, budget>>

\* stripe_bio_overlaps: a bio of another request is there, or the row is being
\* rebuilt (writes bounce) or synced (reads too).
Overlaps(r) ==
  LET t == sh[req[r].at]
  IN  \/ t.owner # None
      \/ t.mark = "all"
      \/ t.mark = "writes" /\ req[r].kind = "write"

Bounce(r) ==
  /\ req[r].stage = "attach" /\ Overlaps(r)
  /\ sh' = [sh EXCEPT ![req[r].at].held = @ \ {r}]
  /\ req' = [req EXCEPT ![r].stage = "get", ![r].wait = "overlap"]
  /\ UNCHANGED <<devices, locks, quiesce, pass, dirty, history, budget>>

Attach(r) ==
  /\ req[r].stage = "attach" /\ ~Overlaps(r)
  /\ sh' = [sh EXCEPT ![req[r].at].owner = r]
  /\ req' = [req EXCEPT ![r].stage = "handle"]
  /\ UNCHANGED <<devices, locks, quiesce, pass, dirty, history, budget>>

\* What the cache holds or can read of stripe s.
Known(s) == sh[s].uptodate \union {i \in Disks : Usable(s, i)}
Page(s) == [i \in Disks |-> IF i \in sh[s].uptodate THEN sh[s].page[i] ELSE disk[s][i]]
\* The data of the stripe as the cache sees it: what is known, or else decoded.
Contents(s) ==
  IF Data \subseteq Known(s) THEN [d \in Data |-> Page(s)[d]] ELSE Solve(Page(s), FirstK(Known(s)))

Done(r) ==
  LET s == req[r].at
      left == req[r].todo \ {s}
  IN  [Woken(s) EXCEPT ![r] =
         IF left # {} THEN [req[r] EXCEPT !.stage = "get", !.todo = left]
         ELSE IF req[r].answer # <<>> THEN [req[r] EXCEPT !.stage = "end"] ELSE NoRequest]
ReleaseStripe(r) ==
  sh' = [sh EXCEPT ![req[r].at].held = @ \ {r}, ![req[r].at].owner = None]

\* More members are gone than the parity covers: the bio fails, but a read of
\* members that are not gone.
TooManyGone(r) ==
  LET gone == {i \in Disks : ~Usable(req[r].at, i)}
  IN  Cardinality(gone) > M /\ (req[r].kind = "write" \/ req[r].blk \intersect gone # {})

HandleFailed(r) ==
  /\ req[r].stage = "handle" /\ ~pending /\ TooManyGone(r)
  /\ ReleaseStripe(r)
  /\ req' = Done(r)
  /\ aligned' = aligned \ {r}
  /\ UNCHANGED <<devices, bucket, wlock, rowWrites, quiesce, pass, dirty, history, budget>>

HandleRead(r) ==
  LET s == req[r].at
      direct == req[r].blk \subseteq Known(s)
      filled == IF direct THEN req[r].blk ELSE FirstK(Known(s)) \union Data
      page == [i \in Disks |-> IF i \in Data \ Known(s) THEN Contents(s)[i] ELSE Page(s)[i]]
  IN  /\ req[r].stage = "handle" /\ req[r].kind = "read" /\ ~pending /\ ~TooManyGone(r)
      /\ sh' = [sh EXCEPT ![s].held = @ \ {r}, ![s].owner = None,
                          ![s].uptodate = @ \union filled,
                          ![s].page = [i \in Disks |-> IF i \in filled THEN page[i] ELSE @[i]]]
      /\ req' = [Woken(s) EXCEPT ![r] = [req[r] EXCEPT !.stage = "end",
                                            !.answer = [d \in req[r].blk |-> page[d]]]]
      /\ aligned' = aligned \ {r}
      /\ UNCHANGED <<devices, bucket, wlock, rowWrites, quiesce, pass, dirty, history, budget>>

\* A write: read-modify-write from the cached parity, or reconstruct; then
\* ops_run_io issues, and counts the stripe in the row's bucket.
HandleWrite(r) ==
  LET s == req[r].at
      v == req[r].val
      old == Contents(s)
      new == [d \in Data |-> IF d \in req[r].blk THEN v ELSE old[d]]
      Rmw(p) == (Page(s)[p] + Encode(p, new) - Encode(p, old)) % Q
      out == {i \in req[r].blk \union Parity : Present(i) /\ <<s, i>> \notin bad}
  IN  /\ req[r].stage = "handle" /\ req[r].kind = "write" /\ ~pending /\ ~TooManyGone(r)
      /\ \E rmw \in BOOLEAN :
           LET filled == (IF rmw THEN req[r].blk \union Parity ELSE Disks)
               page == [i \in Disks |-> IF i \in Data THEN new[i]
                                        ELSE IF rmw /\ i \in Known(s) THEN Rmw(i)
                                        ELSE Encode(i, new)]
           IN  /\ rmw => ~dirty /\ req[r].blk \union Parity \subseteq Known(s)
               /\ sh' = [sh EXCEPT ![s].uptodate = @ \union filled,
                                   ![s].page = [i \in Disks |-> IF i \in filled THEN page[i] ELSE @[i]]]
               /\ req' = [MayAlso({s}, req[r].blk, v) EXCEPT ![r] =
                            [req[r] EXCEPT !.stage = "land", !.out = out, !.failed = {},
                                           !.page = page]]
      /\ Begin({s}, req[r].blk, v)
      /\ CountIn
      /\ UNCHANGED <<devices, wlock, rowWrites, aligned, quiesce, pass, dirty, doubt, wrote, budget>>

\* raid5_end_write_request: one member's block lands, or not.
Land(r, i) ==
  LET s == req[r].at
      left == req[r].out \ {i}
  IN  /\ req[r].stage = "land" /\ i \in req[r].out
      /\ \/ /\ disk' = [disk EXCEPT ![s][i] = req[r].page[i]]
            /\ req' = [req EXCEPT ![r].out = left, ![r].stage = IF left = {} THEN "note" ELSE "land"]
            /\ UNCHANGED budget
         \/ /\ budget.wfaults > 0
            /\ budget' = [budget EXCEPT !.wfaults = @ - 1]
            /\ req' = [req EXCEPT ![r].out = left, ![r].failed = @ \union {i},
                                   ![r].stage = IF left = {} THEN "note" ELSE "land"]
            /\ UNCHANGED disk
      /\ bucket' = IF left = {} THEN [bucket EXCEPT !.inflight = @ - 1] ELSE bucket
      /\ UNCHANGED <<member, bad, pending, onSb, sh, wlock, rowWrites, aligned, quiesce, pass, dirty, history>>

\* A member whose write failed gets a bad block, or is failed if the list is full.
Punish(S, F) ==
  \E full \in SUBSET F :
    /\ bad' = bad \union (S \X (F \ full))
    /\ member' = [i \in Disks |-> IF i \in full THEN "faulty" ELSE member[i]]
    /\ pending' = (pending \/ F # {})
    /\ pass' = IF full # {} THEN [pass EXCEPT !.ok = FALSE] ELSE pass

\* The next handling: write errors become bad blocks before anything else.
Note(r) ==
  LET s == req[r].at
      gone == {i \in Disks : ~Usable(s, i)} \union req[r].failed
  IN  /\ req[r].stage = "note"
      /\ Punish({s}, req[r].failed)
      /\ Landed({s}, req[r].blk, req[r].val, Cardinality(gone) > M)
      /\ req' = [req EXCEPT ![r].stage = "ack"]
      /\ UNCHANGED <<disk, onSb, sh, locks, quiesce, dirty, wrote, budget>>

Ack(r) ==
  /\ req[r].stage = "ack" /\ ~pending
  /\ ReleaseStripe(r)
  /\ req' = Done(r)
  /\ UNCHANGED <<devices, locks, quiesce, pass, dirty, history, budget>>

-----------------------------------------------------------------------------
(* Full-row writes: raidkm_row_write_prep, _go, _submit and _done.         *)

Users == Requests \union {Sync}

\* raidkm_row_write_ok and the members: each is in sync, or gone, and no bad block.
RowPrep(r) ==
  LET gone == {i \in Disks : ~Present(i)}
      able == /\ ~Running
              /\ Cardinality(gone) <= M
              /\ \A i \in Disks \ gone : member[i] = "insync"
              /\ \A s \in Stripes, i \in Disks \ gone : <<s, i>> \notin bad
  IN  /\ req[r].stage = "prep"
      /\ req' = [req EXCEPT ![r].missing = gone, ![r].stage = IF able THEN "fence" ELSE "get"]
      /\ UNCHANGED <<devices, sh, locks, quiesce, pass, dirty, history, budget>>

\* row_writes goes up before the pass, the lock and the quiesce are looked at.
RowFence(r) ==
  /\ req[r].stage = "fence"
  /\ rowWrites' = rowWrites \union {r}
  /\ req' = [req EXCEPT ![r].stage = "lock"]
  /\ UNCHANGED <<devices, sh, bucket, wlock, aligned, quiesce, pass, dirty, history, budget>>

\* Mutant: who waits gets no grace.
UnlockNoGrace == wlock' = [by |-> None, wanted |-> FALSE, grace |-> FALSE]

\* raidkm_row_write_unlock: who waits for the row is woken, and has a grace.
Unlock == wlock' = [by |-> None, wanted |-> FALSE, grace |-> wlock.wanted]
Rewoken == [q \in Requests |-> IF req[q].wait = "row" THEN [req[q] EXCEPT !.wait = "no"] ELSE req[q]]

\* The row is not to be had: raidkm_row_write_unprep, and the stripe cache does it.
Unprep(r) ==
  /\ rowWrites' = rowWrites \ {r}
  /\ IF wlock.by = r THEN Unlock /\ req' = [Rewoken EXCEPT ![r].stage = "get"]
                     ELSE UNCHANGED wlock /\ req' = [req EXCEPT ![r].stage = "get"]
  /\ UNCHANGED sh

RowLock(r) ==
  /\ req[r].stage = "lock"
  /\ IF Running \/ Locked \/ wlock.grace THEN Unprep(r)
     ELSE /\ wlock' = [wlock EXCEPT !.by = r]
          /\ req' = [req EXCEPT ![r].stage = "walk", ![r].at = FirstOf(Stripes)]
          /\ UNCHANGED <<sh, rowWrites>>
  /\ UNCHANGED <<devices, bucket, aligned, quiesce, pass, dirty, history, budget>>

\* Mutant: the walk leaves the cached pages.
RowWalkKeepPages(r) ==
  LET s == req[r].at
      left == {t \in Stripes : t > s}
  IN  /\ req[r].stage = "walk"
      /\ IF sh[s].held # {} \/ sh[s].mark # "none" THEN Unprep(r)
         ELSE /\ UNCHANGED sh
              /\ req' = IF left = {} THEN [req EXCEPT ![r].stage = "recheck"]
                                     ELSE [req EXCEPT ![r].at = FirstOf(left)]
              /\ UNCHANGED <<wlock, rowWrites>>
      /\ UNCHANGED <<devices, bucket, aligned, quiesce, pass, dirty, history, budget>>

\* The walk of raidkm_row_write_lock, one stripe under its hash lock: in use, give
\* up; idle, and its pages are about to be stale.
RowWalk(r) ==
  LET s == req[r].at
      left == {t \in Stripes : t > s}
  IN  /\ req[r].stage = "walk"
      /\ IF sh[s].held # {} \/ sh[s].mark # "none" THEN Unprep(r)
         ELSE /\ sh' = [sh EXCEPT ![s].uptodate = {}]
              /\ req' = IF left = {} THEN [req EXCEPT ![r].stage = "recheck"]
                                     ELSE [req EXCEPT ![r].at = FirstOf(left)]
              /\ UNCHANGED <<wlock, rowWrites>>
      /\ UNCHANGED <<devices, bucket, aligned, quiesce, pass, dirty, history, budget>>

\* Mutant: quiesce is not looked at again.
RowGoUnchecked(r) ==
  /\ req[r].stage = "recheck"
  /\ CountIn
  /\ Begin(Stripes, Data, req[r].val)
  /\ req' = [MayAlso(Stripes, Data, req[r].val) EXCEPT ![r] =
               [req[r] EXCEPT !.stage = "rowland", !.out = Disks \ req[r].missing,
                              !.page = Codeword([d \in Data |-> req[r].val])]]
  /\ UNCHANGED <<devices, sh, wlock, rowWrites, aligned, quiesce, pass, dirty, doubt, wrote, budget>>

\* Not quiesced meanwhile: raidkm_row_write_go, and the members' writes go out.
RowGo(r) ==
  /\ req[r].stage = "recheck"
  /\ IF quiesce # "off" THEN Unprep(r) /\ UNCHANGED <<bucket, cands>>
     ELSE /\ CountIn
          /\ Begin(Stripes, Data, req[r].val)
          /\ req' = [MayAlso(Stripes, Data, req[r].val) EXCEPT ![r] =
                       [req[r] EXCEPT !.stage = "rowland", !.out = Disks \ req[r].missing,
                                      !.page = Codeword([d \in Data |-> req[r].val])]]
          /\ UNCHANGED <<sh, wlock, rowWrites>>
  /\ UNCHANGED <<devices, aligned, quiesce, pass, dirty, doubt, wrote, budget>>

\* raidkm_row_write_endio: one member's chunk lands, or not.
RowLand(r, i) ==
  /\ req[r].stage = "rowland" /\ i \in req[r].out
  /\ \/ /\ disk' = [s \in Stripes |-> [disk[s] EXCEPT ![i] = req[r].page[i]]]
        /\ req' = [req EXCEPT ![r].out = @ \ {i}]
        /\ UNCHANGED budget
     \/ /\ budget.wfaults > 0
        /\ budget' = [budget EXCEPT !.wfaults = @ - 1]
        /\ req' = [req EXCEPT ![r].out = @ \ {i}, ![r].failed = @ \union {i}]
        /\ UNCHANGED disk
  /\ UNCHANGED <<member, bad, pending, onSb, sh, locks, quiesce, pass, dirty, history>>

\* Mutant: the answer does not wait for the superblocks.
RowDoneAtOnce(r) ==
  LET lost == Cardinality(req[r].failed \union req[r].missing) > M
  IN  /\ req[r].stage = "rowland" /\ req[r].out = {}
      /\ Punish(Stripes, req[r].failed)
      /\ bucket' = [bucket EXCEPT !.inflight = @ - 1]
      /\ Unlock
      /\ Landed(Stripes, Data, req[r].val, lost)
      /\ req' = [Rewoken EXCEPT ![r].stage = "rowend"]
      /\ UNCHANGED <<disk, onSb, sh, rowWrites, aligned, quiesce, dirty, wrote, budget>>

\* raidkm_row_write_done: what failed is noted, then the row is let go; the answer
\* waits for the superblocks if a member has not got the data.
RowDone(r) ==
  LET lost == Cardinality(req[r].failed \union req[r].missing) > M
  IN  /\ req[r].stage = "rowland" /\ req[r].out = {}
      /\ Punish(Stripes, req[r].failed)
      /\ bucket' = [bucket EXCEPT !.inflight = @ - 1]
      /\ Unlock
      /\ Landed(Stripes, Data, req[r].val, lost)
      /\ req' = [Rewoken EXCEPT ![r].stage =
                   IF req[r].failed \union req[r].missing # {} THEN "sbwait" ELSE "rowend"]
      /\ UNCHANGED <<disk, onSb, sh, rowWrites, aligned, quiesce, dirty, wrote, budget>>

RowSettled(r) ==
  /\ req[r].stage = "sbwait" /\ ~pending
  /\ req' = [req EXCEPT ![r].stage = "rowend"]
  /\ UNCHANGED <<devices, sh, locks, quiesce, pass, dirty, history, budget>>

RowEnd(r) ==
  /\ req[r].stage = "rowend"
  /\ rowWrites' = rowWrites \ {r}
  /\ req' = [req EXCEPT ![r] = NoRequest]
  /\ UNCHANGED <<devices, sh, bucket, wlock, aligned, quiesce, pass, dirty, history, budget>>

-----------------------------------------------------------------------------
(* Degraded reads: raidkm_row_dread_one (one block), _dread_wide (all).    *)

ToStripe(r) == [req EXCEPT ![r].stage = "get"]

\* One target that is not usable; K sources in the generator's order, pinned.
ReadPick(r) ==
  LET s == CHOOSE t \in req[r].todo : TRUE
      Ok(i) == member[i] \in {"insync", "ahead"}
      lost == {d \in req[r].blk : ~Ok(d)}
      src == FirstK({i \in Disks \ lost : Usable(s, i)})
      able == /\ Cardinality(lost) = 1
              /\ Cardinality(src) = K
              /\ req[r].blk \ lost \subseteq src
  IN  /\ req[r].stage = "pick"
      /\ req' = IF able THEN [req EXCEPT ![r].src = src, ![r].stage = "gen"] ELSE ToStripe(r)
      /\ UNCHANGED <<devices, sh, locks, quiesce, pass, dirty, history, budget>>

ReadGen(r) ==
  /\ req[r].stage = "gen"
  /\ req' = IF bucket.inflight = 0 THEN [req EXCEPT ![r].gen0 = bucket.gen, ![r].stage = "count"]
                                   ELSE ToStripe(r)
  /\ UNCHANGED <<devices, sh, locks, quiesce, pass, dirty, history, budget>>

\* raidkm_row_aligned_get: count itself, look at quiesce again, or wait it out.
ReadCount(r) ==
  /\ req[r].stage = "count"
  /\ aligned' = IF quiesce = "off" THEN aligned \union {r} ELSE aligned
  /\ req' = [req EXCEPT ![r].stage = IF quiesce = "off" THEN "confirm" ELSE "quiesced"]
  /\ UNCHANGED <<devices, sh, bucket, wlock, rowWrites, quiesce, pass, dirty, history, budget>>

ReadConfirm(r) ==
  /\ req[r].stage = "confirm"
  /\ aligned' = IF quiesce = "off" THEN aligned ELSE aligned \ {r}
  /\ req' = [req EXCEPT ![r].stage = IF quiesce = "off" THEN "reading" ELSE "quiesced"]
  /\ UNCHANGED <<devices, sh, bucket, wlock, rowWrites, quiesce, pass, dirty, history, budget>>

ReadWaits(r) ==
  /\ req[r].stage = "quiesced" /\ quiesce = "off"
  /\ aligned' = aligned \union {r}
  /\ req' = [req EXCEPT ![r].stage = "reading"]
  /\ UNCHANGED <<devices, sh, bucket, wlock, rowWrites, quiesce, pass, dirty, history, budget>>

ReadMember(r, i) ==
  LET s == CHOOSE t \in req[r].todo : TRUE
  IN  /\ req[r].stage = "reading" /\ i \in req[r].src \ DOMAIN req[r].got
      /\ req' = [req EXCEPT ![r].got = Adding(@, i, disk[s][i])]
      /\ UNCHANGED <<devices, sh, locks, quiesce, pass, dirty, history, budget>>

\* Mutant: only the writers of this moment count.
UndisturbedNow(r) == bucket.inflight = 0

\* No writer was, or is, on the row: the members' blocks are one codeword.
Undisturbed(r) == bucket.inflight = 0 /\ bucket.gen = req[r].gen0

\* raidkm_row_read_work: decode and answer, or, after a race or a member's read that
\* failed, park the bio for raid5d, which sends it through the stripe cache; it stays
\* counted until then.
ReadWork(r) ==
  /\ req[r].stage = "reading" /\ DOMAIN req[r].got = req[r].src
  /\ \E failed \in BOOLEAN :                    \* rr->status
       IF ~failed /\ Undisturbed(r)
         THEN /\ req' = [req EXCEPT ![r].stage = "end",
                           ![r].answer = [d \in req[r].blk |-> Solve(req[r].got, req[r].src)[d]]]
              /\ aligned' = aligned \ {r}
         ELSE /\ req' = [req EXCEPT ![r].stage = "get", ![r].retry = TRUE]
              /\ UNCHANGED aligned
  /\ UNCHANGED <<devices, sh, bucket, wlock, rowWrites, quiesce, pass, dirty, history, budget>>

\* The answer is the reader's.
ReadEnd(r) ==
  /\ req[r].stage = "end"
  /\ req' = [req EXCEPT ![r] = NoRequest]
  /\ UNCHANGED <<devices, sh, locks, quiesce, pass, dirty, history, budget>>

-----------------------------------------------------------------------------
(* A pass over the row: raidkm_row_rebuild_chunk ("recover") and           *)
(* raidkm_row_sync_chunk ("repair"); what they decline is done a stripe    *)
(* at a time.                                                              *)

BusyTries == 2                                \* RK_ROW_WIN_BUSY_TRIES

\* md starts the pass (MD_RECOVERY_RUNNING), then raid5_sync_request waits for the
\* row writes that began before.
StartPass ==
  /\ budget.pass # "none" /\ ~Running
  /\ budget' = [budget EXCEPT !.pass = "none"]
  /\ pass' = [NoPass EXCEPT !.kind = budget.pass, !.stage = "fence", !.left = Stripes,
                !.target = IF budget.pass = "recover"
                             THEN CHOOSE i \in Disks : member[i] # "insync" ELSE 0]
  /\ UNCHANGED <<devices, sh, locks, quiesce, req, dirty, history>>

PassFence ==
  /\ pass.stage = "fence" /\ rowWrites = {}
  /\ pass' = [pass EXCEPT !.stage = "pick"]
  /\ UNCHANGED <<devices, sh, locks, quiesce, req, dirty, history, budget>>

\* The members that are read: K sources, the data for a parity; or all of them.
Sources ==
  LET fit == {i \in Disks : member[i] = "insync" /\ \A s \in Stripes : <<s, i>> \notin bad}
  IN  IF pass.kind = "repair" THEN fit
      ELSE IF pass.target \in Parity THEN fit \intersect Data
      ELSE FirstK(fit \ {pass.target})

PassPick ==
  LET able == /\ Cardinality(Sources) = (IF pass.kind = "repair" THEN K + M ELSE K)
              /\ pass.kind = "recover" => \A s \in Stripes : <<s, pass.target>> \notin bad
  IN  /\ pass.stage = "pick" /\ quiesce = "off"
      /\ pass' = IF ~pass.ok THEN [pass EXCEPT !.stage = "end"]
                 ELSE IF able /\ pass.tries < BusyTries
                   THEN [pass EXCEPT !.stage = "claim", !.members = Sources, !.got = <<>>]
                 ELSE [pass EXCEPT !.stage = "stripes"]
      /\ UNCHANGED <<devices, sh, locks, quiesce, req, dirty, history, budget>>

\* raidkm_row_rebuild_release: the marks go, and who bounced tries again.
Release ==
  /\ sh' = [s \in Stripes |-> IF s \in pass.claimed
              THEN [sh[s] EXCEPT !.held = @ \ {Sync}, !.mark = "none"] ELSE sh[s]]
  /\ req' = [q \in Requests |-> IF req[q].wait = "overlap" /\ req[q].at \in pass.claimed
                                  THEN [req[q] EXCEPT !.wait = "no"] ELSE req[q]]

\* raidkm_row_claim_row, a stripe at a time and past a quiesce: used, or owned by a
\* row write, and the whole row is left alone.
PassClaim ==
  LET s == FirstOf(Stripes \ pass.claimed)
      claimed == pass.claimed \union {s}
  IN  /\ pass.stage = "claim"
      /\ IF Locked \/ sh[s].owner # None \/ sh[s].mark # "none"
           THEN /\ Release
                /\ pass' = [pass EXCEPT !.stage = "pick", !.claimed = {}, !.tries = @ + 1]
           ELSE /\ sh' = [sh EXCEPT ![s].held = @ \union {Sync},
                                    ![s].mark = IF pass.kind = "repair" THEN "all" ELSE "writes"]
                /\ pass' = [pass EXCEPT !.claimed = claimed,
                             !.stage = IF claimed # Stripes THEN "claim"
                                       ELSE IF pass.kind = "repair" THEN "recheck" ELSE "read"]
                /\ UNCHANGED req
      /\ UNCHANGED <<devices, locks, quiesce, dirty, history, budget>>

\* raidkm_row_sync_chunk looks at quiesce once more.
PassRecheck ==
  /\ pass.stage = "recheck"
  /\ IF quiesce = "off"
       THEN pass' = [pass EXCEPT !.stage = "read"] /\ UNCHANGED <<sh, req>>
       ELSE pass' = [pass EXCEPT !.stage = "pick", !.claimed = {}, !.tries = @ + 1] /\ Release
  /\ UNCHANGED <<devices, locks, quiesce, dirty, history, budget>>

PassRead(i) ==
  /\ pass.stage = "read" /\ i \in pass.members \ DOMAIN pass.got
  /\ pass' = [pass EXCEPT !.got = Adding(@, i, [s \in Stripes |-> disk[s][i]])]
  /\ UNCHANGED <<devices, sh, locks, quiesce, req, dirty, history, budget>>

\* Decode the target, or compare the parity; a parity that differs is rewritten
\* and dropped from the cache.
Column(s) == [i \in pass.members |-> pass.got[i][s]]
PassCompute ==
  LET data == [s \in Stripes |-> IF pass.kind = "repair" THEN [d \in Data |-> Column(s)[d]]
                                 ELSE Solve(Column(s), pass.members)]
      image == [s \in Stripes |-> Codeword(data[s])]
      differ == {p \in Parity : \E s \in Stripes : Column(s)[p] # image[s][p]}
      out == IF pass.kind = "repair" THEN differ ELSE {pass.target}
  IN  /\ pass.stage = "read" /\ DOMAIN pass.got = pass.members
      /\ pass' = [pass EXCEPT !.stage = "write", !.got = image, !.out = out]
      /\ sh' = IF pass.kind = "repair"
                 THEN [s \in Stripes |-> [sh[s] EXCEPT !.uptodate = @ \ out]] ELSE sh
      /\ UNCHANGED <<devices, locks, quiesce, req, dirty, history, budget>>

PassWrite(i) ==
  /\ pass.stage = "write" /\ i \in pass.out
  /\ disk' = [s \in Stripes |-> [disk[s] EXCEPT ![i] = pass.got[s][i]]]
  /\ pass' = [pass EXCEPT !.out = @ \ {i}]
  /\ UNCHANGED <<member, bad, pending, onSb, sh, locks, quiesce, req, dirty, history, budget>>

\* A member's read or write failed: nothing is noted of it, the stripes are given
\* back, and the stripe cache does the row.
PassFails ==
  /\ \/ pass.stage = "read" /\ DOMAIN pass.got # pass.members
     \/ pass.stage = "write" /\ pass.out # {}
  /\ Release
  /\ pass' = [pass EXCEPT !.stage = "stripes", !.claimed = {}]
  /\ UNCHANGED <<devices, locks, quiesce, dirty, history, budget>>

\* Everything is down: release; md's cursor may pass the row.
Passed ==
  /\ member' = IF pass.kind = "recover" /\ member[pass.target] = "rebuilding"
                 THEN [member EXCEPT ![pass.target] = "ahead"] ELSE member
  /\ pass' = [pass EXCEPT !.stage = "end", !.claimed = {}]
PassDone ==
  /\ pass.stage = "write" /\ pass.out = {}
  /\ Release
  /\ Passed
  /\ UNCHANGED <<disk, bad, pending, onSb, locks, quiesce, dirty, history, budget>>

\* The row layer declined: the stripe cache syncs a stripe (RaidkmStripe).
PassStripe(s) ==
  LET image == Codeword(Contents(s))
      out == IF pass.kind = "recover" THEN {pass.target}
             ELSE {p \in Parity : Usable(s, p) /\ Page(s)[p] # image[p]}
  IN  /\ pass.stage = "stripes" /\ s \in pass.left /\ pass.ok
      /\ quiesce = "off" /\ ~Locked /\ ~pending /\ sh[s].held = {}
      /\ Cardinality(Known(s)) >= K
      /\ disk' = [disk EXCEPT ![s] = [i \in Disks |-> IF i \in out THEN image[i] ELSE @[i]]]
      /\ sh' = [sh EXCEPT ![s].uptodate = Disks, ![s].page = image]
      /\ pass' = [pass EXCEPT !.left = @ \ {s}]
      /\ UNCHANGED <<member, bad, pending, onSb, locks, quiesce, req, dirty, history, budget>>

PassByStripes ==
  /\ pass.stage = "stripes" /\ (pass.left = {} \/ ~pass.ok)
  /\ IF pass.ok THEN Passed ELSE UNCHANGED member /\ pass' = [pass EXCEPT !.stage = "end"]
  /\ UNCHANGED <<disk, bad, pending, onSb, sh, locks, quiesce, req, dirty, history, budget>>

\* md ends the pass: the recovered member is in sync, the array is clean.
PassEnd ==
  /\ pass.stage = "end"
  /\ pass' = NoPass
  /\ member' = [i \in Disks |-> IF member[i] = "ahead" /\ pass.ok THEN "insync" ELSE member[i]]
  /\ dirty' = (dirty /\ ~(pass.kind = "repair" /\ pass.ok))
  /\ pending' = TRUE
  /\ UNCHANGED <<disk, bad, onSb, sh, locks, quiesce, req, history, budget>>

-----------------------------------------------------------------------------
(* Around it: quiesce, the superblocks, a member that fails.               *)

QuiesceStart ==
  /\ quiesce = "off" /\ budget.quiesces > 0
  /\ quiesce' = "draining"
  /\ budget' = [budget EXCEPT !.quiesces = @ - 1]
  /\ UNCHANGED <<devices, sh, locks, req, pass, dirty, history>>
QuiesceDrained ==
  /\ quiesce = "draining"
  /\ \A s \in Stripes : sh[s].held = {}
  /\ aligned = {} /\ rowWrites = {}
  /\ quiesce' = "on"
  /\ UNCHANGED <<devices, sh, locks, req, pass, dirty, history, budget>>
QuiesceEnd ==
  /\ quiesce = "on"
  /\ quiesce' = "off"
  /\ UNCHANGED <<devices, sh, locks, req, pass, dirty, history, budget>>

WriteSuperblock ==
  /\ pending
  /\ pending' = FALSE
  /\ onSb' = [member |-> member, bad |-> bad]
  /\ UNCHANGED <<disk, member, bad, sh, locks, quiesce, req, pass, dirty, history, budget>>

LoseMember(i) ==
  /\ budget.lost > 0 /\ Present(i) /\ ~dirty
  /\ \A s \in Stripes : Cardinality({j \in Disks \ {i} : Usable(s, j)}) >= K
  /\ member' = [member EXCEPT ![i] = "faulty"]
  /\ pending' = TRUE
  /\ pass' = [pass EXCEPT !.ok = FALSE]
  /\ budget' = [budget EXCEPT !.lost = @ - 1]
  /\ UNCHANGED <<disk, bad, onSb, sh, locks, quiesce, req, dirty, history>>

-----------------------------------------------------------------------------

\* A clean array; one without a member, or with one to rebuild; one whose parity
\* is wrong after a crash, with that parity in the cache.
Init ==
  /\ budget \in Budgets
  /\ member = [i \in Disks |-> IF i # 0 THEN "insync"
                               ELSE IF budget.start = "degraded" THEN "faulty"
                               ELSE IF budget.start = "rebuilding" THEN "rebuilding" ELSE "insync"]
  /\ disk = [s \in Stripes |-> [i \in Disks |->
               IF (i = 0 /\ member[0] # "insync") \/ (i = K /\ s = 0 /\ budget.start = "torn")
                 THEN 1 ELSE 0]]
  /\ bad = {} /\ pending = FALSE
  /\ onSb = [member |-> member, bad |-> bad]
  /\ sh = [s \in Stripes |->
             [held |-> {}, owner |-> None, mark |-> "none", page |-> disk[s],
              uptodate |-> IF budget.start = "torn" THEN Disks ELSE {}]]
  /\ bucket = [inflight |-> 0, gen |-> 0]
  /\ wlock = [by |-> None, wanted |-> FALSE, grace |-> FALSE]
  /\ rowWrites = {} /\ aligned = {} /\ quiesce = "off"
  /\ req = [r \in Requests |-> NoRequest]
  /\ pass = NoPass
  /\ dirty = (budget.start = "torn")
  /\ cands = [s \in Stripes |-> [d \in Data |-> {0}]]
  /\ doubt = {} /\ wrote = 0

StripeCache(r) ==
  \/ GetWaits(r) \/ Get(r) \/ Bounce(r) \/ Attach(r)
  \/ HandleFailed(r) \/ HandleRead(r) \/ HandleWrite(r)
  \/ \E i \in Disks : Land(r, i)
  \/ Note(r) \/ Ack(r)
RowWrite(r) ==
  \/ RowPrep(r) \/ RowFence(r) \/ RowLock(r) \/ RowWalk(r) \/ RowGo(r)
  \/ \E i \in Disks : RowLand(r, i)
  \/ RowDone(r) \/ RowSettled(r) \/ RowEnd(r)
RowRead(r) ==
  \/ ReadPick(r) \/ ReadGen(r) \/ ReadCount(r) \/ ReadConfirm(r) \/ ReadWaits(r)
  \/ \E i \in Disks : ReadMember(r, i)
  \/ ReadWork(r) \/ ReadEnd(r)
Serve(r) == StripeCache(r) \/ RowWrite(r) \/ RowRead(r)
Passing ==
  \/ PassFence \/ PassPick \/ PassClaim \/ PassRecheck
  \/ \E i \in Disks : PassRead(i) \/ PassWrite(i)
  \/ PassCompute \/ PassFails \/ PassDone
  \/ \E s \in Stripes : PassStripe(s)
  \/ PassByStripes \/ PassEnd
Quiescing == QuiesceDrained \/ QuiesceEnd

Next ==
  \/ \E r \in Requests : Submit(r) \/ Serve(r)
  \/ StartPass \/ Passing
  \/ QuiesceStart \/ Quiescing
  \/ WriteSuperblock
  \/ \E i \in Disks : LoseMember(i)

Spec == Init /\ [][Next]_vars

\* A request's, the pass's and md's own steps are taken; a bio that bounces tries
\* each time it is woken, and a pass each time the stripe falls idle.
FairSpec ==
  /\ Spec
  /\ \A r \in Requests : WF_vars(Serve(r)) /\ SF_vars(Attach(r))
  /\ WF_vars(Passing) /\ \A s \in Stripes : SF_vars(PassStripe(s))
  /\ WF_vars(Quiescing) /\ WF_vars(WriteSuperblock)

-----------------------------------------------------------------------------
(* Properties. *)

\* Nothing is on its way to the blocks of stripe s.
Settled(s) == \A d \in Data : Cardinality(cands[s][d]) = 1
Writing(s) == \E r \in Requests : /\ req[r].kind = "write" /\ req[r].stage # "idle"
                                  /\ s \in req[r].todo
Truth(s) == Codeword([d \in Data |-> CHOOSE v \in cands[s][d] : TRUE])
Torn(s) == s \in doubt \/ (dirty /\ s = 0)

\* What a read answers was there when it was sent, or was written since: a decode
\* never mixes the members of two generations of the row, and the cache never
\* answers from a page that a whole-row write or a pass made stale
\* (raidkm_row_read_work, raidkm_row_write_lock).
RowReadsCurrent ==
  \A r \in Requests :
    (req[r].stage = "end" /\ \A s \in req[r].todo : s \notin doubt)
      => \A d \in DOMAIN req[r].answer : req[r].answer[d] \in req[r].may[d]

\* Between writes the row is a codeword on the members that count, and an idle
\* stripe's cached pages are that codeword's: no two of stripe cache, row write and
\* pass ever had the row at once.
RowIsOneCodeword ==
  \A s \in Stripes :
    (Settled(s) /\ ~Torn(s) /\ ~\E r \in Requests : req[r].failed # {})
      => /\ \A i \in Disks : Usable(s, i) => disk[s][i] = Truth(s)[i]
         /\ sh[s].held = {} => \A i \in sh[s].uptodate : sh[s].page[i] = Truth(s)[i]

\* Once no write of a stripe is unanswered, the members that the superblocks call
\* in sync, and do not list a bad block of, hold what was acknowledged: a crash now
\* loses nothing (the waits of raidkm_row_write_done and of the stripe's handling).
AckedIsRecorded ==
  \A s \in Stripes :
    (~Writing(s) /\ ~Torn(s)) =>
      \A i \in Disks : (onSb.member[i] = "insync" /\ <<s, i>> \notin onSb.bad)
                         => disk[s][i] = Truth(s)[i]

\* A quiesced array has nobody on the row: no row read, no row write, no repair
\* between its claim and its release.
QuiescedIsQuiet ==
  quiesce = "on" =>
    /\ bucket.inflight = 0
    /\ \A r \in Requests : req[r].stage \notin {"reading", "rowland", "rowend", "sbwait", "land", "note"}
    /\ pass.kind = "repair" => pass.stage \notin {"read", "write"}

\* Every request is answered: who bounced is woken, and a read that lost its race is
\* done by the stripe cache, past a quiesce that waits for it.  Beside an endless
\* stream of whole-row writes, who waits for the row gets its stripe all the same.
\* A pass and a quiesce end, whoever claims, bounces or is parked.
EverybodyEnds ==
  /\ \A r \in Requests :
       (IF budget.forever THEN req[r].wait = "row" /\ req[r].waited ELSE req[r].stage # "idle")
         ~> (req[r].stage = IF budget.forever THEN "attach" ELSE "idle")
  /\ (Running \/ quiesce # "off") ~> (~Running /\ quiesce = "off")
=============================================================================
