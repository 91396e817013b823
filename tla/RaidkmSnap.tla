----------------------------- MODULE RaidkmSnap -----------------------------
(***************************************************************************)
(* Native snapshots: the copy-on-write engine, while the array runs.       *)
(*                                                                         *)
(* Origin rows are mapped to physical rows.  The first write to a row that *)
(* the newest snapshot shares is redirected to a free row: a whole-row     *)
(* write is sent there as it is, a partial one is merged into a copy of    *)
(* the old row by a worker.  The maps change on the commit worker, once    *)
(* the journal record is durable; until then reads see the old row and     *)
(* other writes to the row wait.  Creating or destroying a snapshot holds  *)
(* new copies back, lets the running ones finish, suspends the array, and  *)
(* then goes through the same commit worker.                               *)
(*                                                                         *)
(* A bio is one row's piece of what was submitted: raidkm_snap_map_bio     *)
(* splits at row borders and sends the rest back to the queue.  The        *)
(* contents of a row are a pair: the part that partial writes replace, and *)
(* the part that they leave alone.  What the record looks like on disk,    *)
(* and what a crash leaves of it, is not modelled here.                    *)
(***************************************************************************)
EXTENDS Integers, Sequences, FiniteSets

CONSTANTS
  Requests,     \* origin bios: reads and writes
  Readers,      \* bios on the snapshots' own disks
  O, R,         \* origin rows and physical rows
  Slots,        \* snapshot slots (RK_SNAP_SLOTS of them)
  CowsMax,      \* copies at a time
  Budgets       \* bounds: how many writes, discards, commands and errors (of a
                \* copy, a reservation or a commit) a behaviour may have,
                \* whether the origin is read, and whether writes are whole rows

ASSUME SizeAssumption ==
  /\ O \in Nat \ {0}
  /\ R \in Nat
  /\ O < R
  /\ Slots \subseteq Nat
  /\ CowsMax \in Nat \ {0, 1}
  /\ Budgets \subseteq [reads : BOOLEAN, whole : SUBSET BOOLEAN, writes : Nat,
                         discards : Nat, commands : Nat, errors : Nat]

None == -1
Junk == -1
Trim == -2

Origin == 0..(O - 1)
Physical == 0..(R - 1)

\* In a list of bios that wait, a piece of a discard goes by its first row.
ASSUME BioAssumption == Requests \cap Origin = {}

\* Workers that finish copies, and run again the bios that waited for them:
\* the commit worker, the copy workers, and the command that lifts the hold.
CowIds == 1..CowsMax
CommitWorker == 0
Unholder == -1
Agents == CowIds \cup {CommitWorker, Unholder}

VARIABLES
  \* struct raidkm_snap
  origin,       \* L -> P
  used,         \* physical rows taken
  snaps,        \* the chain, oldest first: a sequence of slots
  exc,          \* slot -> L -> P, or None
  cow,          \* the copies under way
  cows,         \* how many, those finishing included
  overflow,     \* writes that found no free copy, or a hold
  hold,         \* a command is waiting: start no copy
  broken,       \* metadata reached no member: no record any more
  pending,      \* operations for the next commit
  \* workers and the command
  worker,       \* the commit worker
  again,        \* agent -> bios it has yet to submit again
  ending,       \* workers inside rk_snap_cow_finish
  cmd,          \* the create or destroy under way
  suspended,    \* mddev_suspend
  \* the array and its users
  disk,         \* physical row -> contents
  req,          \* origin reads and writes
  disc,         \* pieces of a discard, by their first row
  rd,           \* snapshot reads
  left          \* of the budget

maps == <<origin, used, snaps, exc>>
copies == <<cow, cows, overflow>>
workers == <<worker, again, ending, pending>>
control == <<cmd, hold, suspended, broken>>
users == <<req, disc, rd>>
vars == <<maps, copies, workers, control, disk, users, left>>

-----------------------------------------------------------------------------
(* The chain and the maps                                                   *)

InChain(g) == \E k \in DOMAIN snaps : snaps[k] = g

\* Mutant: the oldest snapshot is asked.
SharedWithOldest(L) == snaps # <<>> /\ exc[snaps[1]][L] = None

\* rk_sn_shared: the newest snapshot has no copy of its own.
Shared(L) == snaps # <<>> /\ exc[snaps[Len(snaps)]][L] = None

\* rk_snap_submit_bio: the snapshot's own copy, else that of the next newer
\* snapshot that has one, else the origin's row.
Lookup(g, L) ==
  LET place == CHOOSE k \in DOMAIN snaps : snaps[k] = g
      holders == {k \in DOMAIN snaps : k >= place /\ exc[snaps[k]][L] # None}
  IN  IF holders = {} THEN origin[L]
      ELSE exc[snaps[CHOOSE k \in holders : \A j \in holders : k <= j]][L]

\* rk_alloc_row takes any of these; which one is its cursor's business.
Free == Physical \ used

-----------------------------------------------------------------------------
(* Bios                                                                     *)

MostWrites == CHOOSE n \in {b.writes : b \in Budgets} :
                \A b \in Budgets : b.writes <= n
Contents == (Trim..(O + MostWrites)) \X (Trim..(O + MostWrites))

\* A row with a write merged into it: rk_merge, or the write as it is.
Written(old, w) == IF w.whole THEN <<w.val, w.val>> ELSE <<w.val, old[2]>>

\* "fly": remapped and inside the array; "cow": taken for a copy; "parked":
\* on a list, or in the hands of whoever submits it again.
IdleRequest ==
  [pc |-> "idle", op |-> "none", L |-> 0, P |-> None, whole |-> FALSE,
   val |-> 0, seen |-> {}, st |-> "none"]

Replied(st) == [IdleRequest EXCEPT !.st = st]

FreeCow ==
  [pc |-> "free", r |-> "none", L |-> 0, oldP |-> None, newP |-> None,
   buf |-> <<Junk, Junk>>, ok |-> TRUE, waiters |-> <<>>]

IdleDiscard == [pc |-> "idle", last |-> 0, first |-> None]

IdleReader == [pc |-> "idle", g |-> 0, L |-> 0, P |-> None]

Store == [L \in Origin |-> disk[origin[L]]]

Reading(r) == req[r].op = "read"

\* History: the contents an origin read has seen its row hold so far.
Observed(reqs) ==
  [r \in Requests |->
     IF reqs[r].op = "read"
     THEN [reqs[r] EXCEPT !.seen = @ \cup {disk'[origin'[reqs[r].L]]}]
     ELSE reqs[r]]

Busy(L) == \E i \in CowIds : cow[i].pc # "free" /\ cow[i].L = L
CowOf(L) == CHOOSE i \in CowIds : cow[i].pc # "free" /\ cow[i].L = L
IdleCows == {i \in CowIds : cow[i].pc = "free"}

Park(r, w) == req' = [req EXCEPT ![r] = [w EXCEPT !.pc = "parked", !.P = None]]

Remap(r, w) ==
  /\ req' = [req EXCEPT ![r] = [w EXCEPT !.pc = "fly", !.P = origin[w.L]]]
  /\ UNCHANGED <<maps, copies>>

Refuse(r) ==
  /\ req' = [req EXCEPT ![r] = Replied("error")]
  /\ UNCHANGED <<maps, copies>>

\* A write to a shared row gets a copy; a whole-row one its new row at once.
StartCow(r, w) ==
  LET i == CHOOSE j \in IdleCows : \A k \in IdleCows : j <= k
      c == [FreeCow EXCEPT !.r = r, !.L = w.L]
  IN  /\ \/ /\ w.whole
            /\ \E P \in Free :
                 /\ used' = used \cup {P}
                 /\ cow' = [cow EXCEPT ![i] =
                              [c EXCEPT !.pc = "write", !.oldP = origin[w.L],
                                        !.newP = P, !.buf = <<w.val, w.val>>]]
         \/ /\ ~w.whole
            /\ cow' = [cow EXCEPT ![i] = [c EXCEPT !.pc = "work"]]
            /\ UNCHANGED used
      /\ cows' = cows + 1
      /\ req' = [req EXCEPT ![r] = [w EXCEPT !.pc = "cow", !.P = None]]
      /\ UNCHANGED <<origin, snaps, exc, overflow>>

\* raidkm_snap_map_bio, for a write w in the hands of request r.
MapWrite(r, w) ==
  IF snaps = <<>> THEN Remap(r, w)
  ELSE IF Busy(w.L) THEN
    /\ cow' = [cow EXCEPT ![CowOf(w.L)].waiters = Append(@, r)]
    /\ Park(r, w)
    /\ UNCHANGED <<maps, cows, overflow>>
  ELSE IF ~Shared(w.L) THEN Remap(r, w)
  ELSE IF broken THEN Refuse(r)
  ELSE IF hold \/ IdleCows = {} THEN
    /\ overflow' = Append(overflow, r)
    /\ Park(r, w)
    /\ UNCHANGED <<maps, cow, cows>>
  ELSE IF w.whole /\ Free = {} THEN Refuse(r)
  ELSE StartCow(r, w)

\* A user submits a write; md_handle_request waits while the array is suspended.
SubmitWrite(r) ==
  /\ req[r].pc = "idle"
  /\ ~suspended
  /\ left.writes > 0
  /\ left' = [left EXCEPT !.writes = @ - 1]
  /\ \E L \in Origin, whole \in left.whole :
       MapWrite(r, [IdleRequest EXCEPT !.op = "write", !.L = L, !.whole = whole,
                                       !.val = O + left.writes])
  /\ UNCHANGED <<workers, control, disk, disc, rd>>

\* A read takes the map as it is, whatever is under way.
SubmitRead(r) ==
  /\ left.reads
  /\ req[r].pc = "idle"
  /\ ~suspended
  /\ \E L \in Origin :
       req' = [req EXCEPT ![r] = [IdleRequest EXCEPT
                 !.pc = "fly", !.op = "read", !.L = L, !.P = origin[L],
                 !.seen = {Store[L]}]]
  /\ UNCHANGED <<maps, copies, workers, control, disk, disc, rd, left>>

\* The array's answer to a remapped bio.
Perform(r) ==
  /\ req[r].pc = "fly"
  /\ disk' = IF Reading(r) THEN disk
             ELSE [disk EXCEPT ![req[r].P] = Written(@, req[r])]
  /\ UNCHANGED <<maps, copies, workers, control, disc, rd, left>>
  /\ req' = Observed([req EXCEPT ![r] = IF Reading(r) THEN IdleRequest
                                                      ELSE Replied("ok")])

-----------------------------------------------------------------------------
(* rk_snap_discard: a run of rows at the front, the rest goes back          *)

\* n rows from L on can be handled as one piece.
Run(L, n) ==
  \A k \in 1..(n - 1) :
    /\ ~Busy(L + k)
    /\ Shared(L + k) <=> Shared(L)
    /\ ~Shared(L) => origin[L + k] = origin[L] + k

RunLength(L, last) ==
  LET runs == {n \in 1..(last - L + 1) : Run(L, n)}
  IN  IF Busy(L) THEN 1 ELSE CHOOSE n \in runs : \A m \in runs : m <= n

\* The piece that starts at row L and goes to row last.
MapDiscard(L, last) ==
  LET n == RunLength(L, last)
      front == IF Busy(L) THEN [IdleDiscard EXCEPT !.pc = "parked", !.last = L]
               ELSE IF Shared(L) THEN IdleDiscard
               ELSE [pc |-> "fly", last |-> L + n - 1, first |-> origin[L]]
  IN  /\ disc' = [M \in Origin |->
                    IF M = L THEN front
                    ELSE IF M = L + n /\ M <= last
                    THEN [IdleDiscard EXCEPT !.pc = "queued", !.last = last]
                    ELSE disc[M]]
      /\ cow' = IF Busy(L) THEN [cow EXCEPT ![CowOf(L)].waiters = Append(@, L)]
                           ELSE cow

SubmitDiscard ==
  /\ \A L \in Origin : disc[L].pc = "idle"
  /\ ~suspended
  /\ left.discards > 0
  /\ left' = [left EXCEPT !.discards = @ - 1]
  /\ \E L \in Origin : \E last \in L..(O - 1) : MapDiscard(L, last)
  /\ UNCHANGED <<maps, cows, overflow, workers, control, disk, req, rd>>

\* The rest of a discard that was split.
QueuedDiscard(L) ==
  /\ disc[L].pc = "queued"
  /\ ~suspended
  /\ MapDiscard(L, disc[L].last)
  /\ UNCHANGED <<maps, cows, overflow, workers, control, disk, req, rd, left>>

\* The members trim the rows, or they become undefined in the row map.
TrimRows(L) ==
  /\ disc[L].pc = "fly"
  /\ LET first == disc[L].first
         rows == first..(first + disc[L].last - L)
     IN  disk' = [P \in Physical |-> IF P \in rows THEN <<Trim, Trim>> ELSE disk[P]]
  /\ disc' = [disc EXCEPT ![L] = IdleDiscard]
  /\ UNCHANGED <<maps, copies, workers, control, rd, left>>
  /\ req' = Observed(req)

-----------------------------------------------------------------------------
(* Snapshot disks: read only                                                *)

\* A disk can be read from its create's end to its destroy's start.
Readable(g) == InChain(g) /\ ~(cmd.pc # "idle" /\ cmd.g = g)

SnapRead(s) ==
  /\ rd[s].pc = "idle"
  /\ \E g \in Slots, L \in Origin :
       /\ Readable(g)
       /\ rd' = [rd EXCEPT ![s] = [pc |-> "mapped", g |-> g, L |-> L,
                                   P |-> Lookup(g, L)]]
  /\ UNCHANGED <<maps, copies, workers, control, disk, req, disc, left>>

\* md_handle_request, with the row chosen before.
SnapReadEnter(s) ==
  /\ rd[s].pc = "mapped"
  /\ ~suspended
  /\ rd' = [rd EXCEPT ![s].pc = "fly"]
  /\ UNCHANGED <<maps, copies, workers, control, disk, req, disc, left>>

SnapReadDone(s) ==
  /\ rd[s].pc = "fly"
  /\ rd' = [rd EXCEPT ![s] = IdleReader]
  /\ UNCHANGED <<maps, copies, workers, control, disk, req, disc, left>>

-----------------------------------------------------------------------------
(* Copies                                                                   *)

\* Mutant: the bios that wait for this copy are forgotten.
FinishCowNoWaiters(i, st, undo, agent) ==
  /\ used' = IF undo THEN used \ {cow[i].newP} ELSE used
  /\ cow' = [cow EXCEPT ![i] = FreeCow]
  /\ again' = [again EXCEPT ![agent] = IF hold THEN <<>> ELSE overflow]
  /\ overflow' = IF hold THEN overflow ELSE <<>>
  /\ ending' = ending \cup {agent}
  /\ req' = [req EXCEPT ![cow[i].r] = Replied(st)]

\* Mutant: the new row of a failed copy is never given back.
FinishCowKeepRow(i, st, undo, agent) ==
  /\ used' = used
  /\ cow' = [cow EXCEPT ![i] = FreeCow]
  /\ again' = [again EXCEPT ![agent] =
                 IF hold THEN cow[i].waiters ELSE cow[i].waiters \o overflow]
  /\ overflow' = IF hold THEN overflow ELSE <<>>
  /\ ending' = ending \cup {agent}
  /\ req' = [req EXCEPT ![cow[i].r] = Replied(st)]

\* rk_snap_cow_finish, up to the unlock and the origin write's end.
FinishCow(i, st, undo, agent) ==
  /\ used' = IF undo THEN used \ {cow[i].newP} ELSE used
  /\ cow' = [cow EXCEPT ![i] = FreeCow]
  /\ again' = [again EXCEPT ![agent] =
                 IF hold THEN cow[i].waiters ELSE cow[i].waiters \o overflow]
  /\ overflow' = IF hold THEN overflow ELSE <<>>
  /\ ending' = ending \cup {agent}
  /\ req' = [req EXCEPT ![cow[i].r] = Replied(st)]

\* rk_cow_fn: a row for the copy, or no space.
CowAlloc(i) ==
  /\ cow[i].pc = "work"
  /\ i \notin ending /\ again[i] = <<>>
  /\ \/ /\ Free = {}
        /\ FinishCow(i, "error", FALSE, i)
     \/ /\ \E P \in Free :
             /\ used' = used \cup {P}
             /\ cow' = [cow EXCEPT ![i].pc = "read", ![i].newP = P,
                                   ![i].oldP = origin[cow[i].L]]
        /\ UNCHANGED <<overflow, again, ending, req>>
  /\ UNCHANGED <<origin, snaps, exc, cows, worker, pending, control, disk, disc, rd,
                 left>>

SpendError ==
  /\ left.errors > 0
  /\ left' = [left EXCEPT !.errors = @ - 1]

Fail(i) ==
  /\ SpendError
  /\ cow' = [cow EXCEPT ![i].pc = "pend", ![i].ok = FALSE]
  /\ pending' = Append(pending, i)

\* rk_cow_fn: read the old row and merge, through md_handle_request.
CowRead(i) ==
  /\ cow[i].pc = "read"
  /\ ~suspended
  /\ \/ /\ cow' = [cow EXCEPT ![i].pc = "write",
                              ![i].buf = Written(disk[cow[i].oldP], req[cow[i].r])]
        /\ UNCHANGED <<pending, left>>
     \/ Fail(i)
  /\ UNCHANGED <<maps, cows, overflow, worker, again, ending, control, disk, users>>

\* rk_cow_fn, or the whole-row write that was let through: the new row is
\* written and the operation queued.
CowWrite(i) ==
  /\ cow[i].pc = "write"
  /\ req[cow[i].r].whole \/ ~suspended
  /\ \/ /\ disk' = [disk EXCEPT ![cow[i].newP] = cow[i].buf]
        /\ cow' = [cow EXCEPT ![i].pc = "pend"]
        /\ pending' = Append(pending, i)
        /\ UNCHANGED left
     \/ /\ Fail(i)
        /\ UNCHANGED disk
  /\ UNCHANGED <<maps, cows, overflow, worker, again, ending, control, users>>

\* submit_bio_noacct for the next bio that waited, in its submitter's context.
Resubmit(a) ==
  /\ again[a] # <<>>
  /\ ~suspended
  /\ again' = [again EXCEPT ![a] = Tail(@)]
  /\ LET b == Head(again[a])
     IN  \/ /\ b \in Requests
            /\ MapWrite(b, req[b])
            /\ UNCHANGED disc
         \/ /\ b \in Origin
            /\ MapDiscard(b, disc[b].last)
            /\ UNCHANGED <<maps, cows, overflow, req>>
  /\ UNCHANGED <<worker, ending, pending, control, disk, rd, left>>

\* Mutant: the copy is not counted any more before what waited was sent again.
CowGoneEarly(a) ==
  /\ a \in ending
  /\ ending' = ending \ {a}
  /\ cows' = cows - 1
  /\ UNCHANGED <<maps, cow, overflow, worker, again, pending, control, disk, users,
                 left>>

\* rk_snap_cow_finish, its last line: only now is the copy not counted any more.
CowGone(a) ==
  /\ a \in ending
  /\ again[a] = <<>>
  /\ ending' = ending \ {a}
  /\ cows' = cows - 1
  /\ UNCHANGED <<maps, cow, overflow, worker, again, pending, control, disk, users,
                 left>>

-----------------------------------------------------------------------------
(* rk_sn_commit_fn                                                          *)

Command == CommitWorker       \* the command's operation, in a list of copies
Failed == {k \in DOMAIN worker.batch :
             worker.batch[k] # Command /\ ~cow[worker.batch[k]].ok}
Next1 == Head(worker.batch)

IdleWorker == [pc |-> "idle", batch |-> <<>>, out |-> "none"]
NotFinishing == CommitWorker \notin ending /\ again[CommitWorker] = <<>>

CommitTake ==
  /\ worker.pc = "idle"
  /\ NotFinishing
  /\ pending # <<>>
  /\ worker' = [worker EXCEPT !.pc = "build", !.batch = pending]
  /\ pending' = <<>>
  /\ UNCHANGED <<maps, copies, again, ending, control, disk, users, left>>

\* A copy whose I/O failed: no record, undone.
CommitDropFailed ==
  /\ worker.pc = "build"
  /\ NotFinishing
  /\ Failed # {}
  /\ LET k == CHOOSE j \in Failed : \A m \in Failed : j <= m
         b == worker.batch
     IN  /\ FinishCow(b[k], "error", TRUE, CommitWorker)
         /\ worker' = [worker EXCEPT
                         !.batch = SubSeq(b, 1, k - 1) \o SubSeq(b, k + 1, Len(b))]
  /\ UNCHANGED <<origin, snaps, exc, cows, pending, control, disk, disc, rd,
                 left>>

\* The record: durable; or no member was reached before it, and every copy is
\* undone; or one may hold a part of it, and the new rows stay taken.
CommitRecord ==
  /\ worker.pc = "build"
  /\ NotFinishing
  /\ Failed = {}
  /\ \/ /\ worker.batch = <<>>
        /\ worker' = IdleWorker
        /\ UNCHANGED broken
        /\ UNCHANGED left
     \/ /\ worker.batch # <<>>
        /\ ~broken
        /\ worker' = [worker EXCEPT !.pc = "apply", !.out = "ok"]
        /\ UNCHANGED <<broken, left>>
     \/ /\ worker.batch # <<>>
        /\ broken
        /\ worker' = [worker EXCEPT !.pc = "apply", !.out = "undo"]
        /\ UNCHANGED <<broken, left>>
     \/ /\ worker.batch # <<>>
        /\ ~broken
        /\ SpendError
        /\ broken' = TRUE
        /\ \E out \in {"undo", "keep"} :
             worker' = [worker EXCEPT !.pc = "apply", !.out = out]
  /\ UNCHANGED <<maps, copies, again, ending, pending, cmd, hold, suspended,
                 disk, users>>

\* The rest of the batch, or back to the list of pending operations.
NextOperation ==
  worker' = IF Len(worker.batch) = 1 THEN IdleWorker
            ELSE [worker EXCEPT !.pc = "apply", !.batch = Tail(@)]

Applying(op) ==
  /\ worker.pc = "apply"
  /\ NotFinishing
  /\ worker.out = "ok"
  /\ op

\* rk_snap_apply, RK_OP_REDIRECT: first the old row into the newest snapshot ...
ApplyException ==
  /\ Applying(Next1 # Command)
  /\ LET c == cow[Next1]
         newest == snaps[Len(snaps)]
     IN  exc' = [exc EXCEPT ![newest][c.L] = c.oldP]
  /\ worker' = [worker EXCEPT !.pc = "half"]
  /\ UNCHANGED <<origin, used, snaps, copies, again, ending, pending, control,
                 disk, users, left>>

\* ... then the origin's new row ...
ApplyOrigin ==
  /\ worker.pc = "half"
  /\ Next1 # Command
  /\ LET c == cow[Next1]
     IN  /\ origin' = [origin EXCEPT ![c.L] = c.newP]
         /\ used' = used \cup {c.newP}
  /\ worker' = [worker EXCEPT !.pc = "finish"]
  /\ UNCHANGED <<snaps, exc, copies, again, ending, pending, control, disk,
                 disc, rd, left>>
  /\ req' = Observed(req)

\* ... and rk_sn_op_finish.
FinishRedirect ==
  /\ worker.pc = "finish"
  /\ FinishCow(Next1, "ok", FALSE, CommitWorker)
  /\ NextOperation
  /\ UNCHANGED <<origin, snaps, exc, cows, pending, control, disk, disc, rd,
                 left>>

\* The record failed.
CommitFailed ==
  /\ worker.pc = "apply"
  /\ NotFinishing
  /\ worker.out # "ok"
  /\ IF Next1 = Command
     THEN /\ cmd' = [cmd EXCEPT !.pc = "applied"]
          /\ UNCHANGED <<used, cow, again, overflow, ending, req>>
     ELSE /\ FinishCow(Next1, "error", worker.out = "undo", CommitWorker)
          /\ UNCHANGED cmd
  /\ NextOperation
  /\ UNCHANGED <<origin, snaps, exc, cows, pending, hold, suspended, broken, disk, disc, rd, left>>

\* rk_snap_apply, RK_OP_CREATE: from here every origin row is shared.
ApplyCreate ==
  /\ Applying(Next1 = Command)
  /\ cmd.op = "create"
  /\ snaps' = Append(snaps, cmd.g)
  /\ exc' = [exc EXCEPT ![cmd.g] = [L \in Origin |-> None]]
  /\ cmd' = [cmd EXCEPT !.pc = "applied"]
  /\ NextOperation
  /\ UNCHANGED <<origin, used, copies, again, ending, pending, hold,
                 suspended, broken, disk, users, left>>

Place(g) == CHOOSE k \in DOMAIN snaps : snaps[k] = g
HasOlder(g) == Place(g) > 1

\* Mutant: every row of the destroyed snapshot is freed.
MovesToOlderNever(g, L) == exc[g][L] # None /\ FALSE

\* A row the next older snapshot read through g.
MovesToOlder(g, L) ==
  /\ exc[g][L] # None
  /\ HasOlder(g)
  /\ exc[snaps[Place(g) - 1]][L] = None

\* rk_snap_apply, RK_OP_DESTROY: g's rows to the next older snapshot or free ...
ApplyDestroyRows ==
  /\ Applying(Next1 = Command)
  /\ cmd.op = "destroy"
  /\ LET g == cmd.g
         moved == {L \in Origin : MovesToOlder(g, L)}
         freed == {L \in Origin : exc[g][L] # None} \ moved
     IN  /\ exc' = IF ~HasOlder(g) THEN exc
                   ELSE [exc EXCEPT ![snaps[Place(g) - 1]] =
                           [L \in Origin |-> IF L \in moved THEN exc[g][L] ELSE @[L]]]
         /\ used' = used \ {exc[g][L] : L \in freed}
  /\ worker' = [worker EXCEPT !.pc = "half"]
  /\ UNCHANGED <<origin, snaps, copies, again, ending, pending, control, disk,
                 users, left>>

\* ... and g leaves the chain.
ApplyDestroyLink ==
  /\ worker.pc = "half"
  /\ Next1 = Command
  /\ LET k == Place(cmd.g)
     IN  snaps' = SubSeq(snaps, 1, k - 1) \o SubSeq(snaps, k + 1, Len(snaps))
  /\ exc' = [exc EXCEPT ![cmd.g] = [L \in Origin |-> None]]
  /\ cmd' = [cmd EXCEPT !.pc = "applied"]
  /\ NextOperation
  /\ UNCHANGED <<origin, used, copies, again, ending, pending, hold,
                 suspended, broken, disk, users, left>>

-----------------------------------------------------------------------------
(* rk_snap_create, rk_snap_destroy and rk_snap_drop, under sn->mutex        *)

IdleCommand == [pc |-> "idle", op |-> "none", g |-> None]

\* hold is raised before the wait for the copies.
StartCommand(op, g) ==
  /\ cmd.pc = "idle"
  /\ left.commands > 0
  /\ left' = [left EXCEPT !.commands = @ - 1]
  /\ cmd' = [pc |-> "hold", op |-> op, g |-> g]
  /\ hold' = TRUE
  /\ UNCHANGED <<maps, copies, workers, suspended, broken, disk, users>>

Create ==
  /\ ~broken
  /\ \E g \in Slots :
       /\ ~InChain(g)
       /\ \A h \in Slots : InChain(h) \/ g <= h
       /\ StartCommand("create", g)

\* A snapshot that is open is not destroyed.
Destroy ==
  \E g \in Slots :
    /\ InChain(g)
    /\ \A s \in Readers : rd[s].pc = "idle" \/ rd[s].g # g
    /\ StartCommand("destroy", g)

\* Mutant: the copies under way are not waited for.
NotWaited == TRUE

\* What the hold waits for.
NoCows == cows = 0

\* No copy in flight, none starts: mddev_suspend; but a destroy first reserves
\* what it will need in the next older snapshot, and may find no memory.
Suspend ==
  /\ cmd.pc = "hold"
  /\ NoCows
  /\ \/ /\ suspended' = TRUE
        /\ cmd' = [cmd EXCEPT !.pc = "suspend"]
        /\ UNCHANGED left
     \/ /\ cmd.op = "destroy"
        /\ \E L \in Origin : MovesToOlder(cmd.g, L)
        /\ SpendError
        /\ cmd' = [cmd EXCEPT !.pc = "unhold"]
        /\ UNCHANGED suspended
  /\ UNCHANGED <<maps, copies, workers, hold, broken, disk, users>>

\* active_io: what mddev_suspend waits for.
Active ==
  \/ \E r \in Requests : req[r].pc = "fly"
  \/ \E i \in CowIds : cow[i].pc = "write" /\ req[cow[i].r].whole
  \/ \E L \in Origin : disc[L].pc = "fly"
  \/ \E s \in Readers : rd[s].pc = "fly"

\* rk_sn_submit_sync
SubmitCommand ==
  /\ cmd.pc = "suspend"
  /\ ~Active
  /\ pending' = Append(pending, Command)
  /\ cmd' = [cmd EXCEPT !.pc = "commit"]
  /\ UNCHANGED <<maps, copies, worker, again, ending, hold, suspended, broken,
                 disk, users, left>>

Resume ==
  /\ cmd.pc = "applied"
  /\ suspended' = FALSE
  /\ cmd' = [cmd EXCEPT !.pc = "unhold"]
  /\ UNCHANGED <<maps, copies, workers, hold, broken, disk, users, left>>

\* rk_snap_unhold: what the hold kept back is submitted again.
Unhold ==
  /\ cmd.pc = "unhold"
  /\ hold' = FALSE
  /\ again' = [again EXCEPT ![Unholder] = overflow]
  /\ overflow' = <<>>
  /\ cmd' = [cmd EXCEPT !.pc = "unheld"]
  /\ UNCHANGED <<maps, cow, cows, worker, ending, pending, suspended, broken,
                 disk, users, left>>

EndCommand ==
  /\ cmd.pc = "unheld"
  /\ again[Unholder] = <<>>
  /\ cmd' = IdleCommand
  /\ UNCHANGED <<maps, copies, workers, hold, suspended, broken, disk, users,
                 left>>

-----------------------------------------------------------------------------
\* An array without snapshots: every origin row is its own physical row.
Init ==
  /\ origin = [L \in Origin |-> L]
  /\ used = Origin
  /\ snaps = <<>>
  /\ exc = [g \in Slots |-> [L \in Origin |-> None]]
  /\ cow = [i \in CowIds |-> FreeCow]
  /\ cows = 0
  /\ overflow = <<>>
  /\ hold = FALSE
  /\ broken = FALSE
  /\ pending = <<>>
  /\ worker = IdleWorker
  /\ again = [a \in Agents |-> <<>>]
  /\ ending = {}
  /\ cmd = IdleCommand
  /\ suspended = FALSE
  /\ disk = [P \in Physical |-> IF P < O THEN <<P, P>> ELSE <<Junk, Junk>>]
  /\ req = [r \in Requests |-> IdleRequest]
  /\ disc = [L \in Origin |-> IdleDiscard]
  /\ rd = [s \in Readers |-> IdleReader]
  /\ left \in Budgets

Users ==
  \/ \E r \in Requests : SubmitWrite(r) \/ SubmitRead(r)
  \/ SubmitDiscard
  \/ \E s \in Readers : SnapRead(s)

Array ==
  \/ \E r \in Requests : Perform(r)
  \/ \E L \in Origin : QueuedDiscard(L) \/ TrimRows(L)
  \/ \E s \in Readers : SnapReadEnter(s) \/ SnapReadDone(s)

Copying ==
  \/ \E i \in CowIds : CowAlloc(i) \/ CowRead(i) \/ CowWrite(i)
  \/ \E a \in Agents : Resubmit(a) \/ CowGone(a)

Commit ==
  \/ CommitTake \/ CommitDropFailed \/ CommitRecord \/ CommitFailed
  \/ ApplyException \/ ApplyOrigin \/ FinishRedirect
  \/ ApplyCreate \/ ApplyDestroyRows \/ ApplyDestroyLink

Commands == Suspend \/ SubmitCommand \/ Resume \/ Unhold \/ EndCommand

Next == Users \/ Array \/ Copying \/ Commit \/ Create \/ Destroy \/ Commands

Spec == Init /\ [][Next]_vars

-----------------------------------------------------------------------------
(* Properties                                                               *)

BioList == Seq(Requests \cup Origin)

TypeOK ==
  /\ origin \in [Origin -> Physical]
  /\ used \subseteq Physical
  /\ snaps \in Seq(Slots)
  /\ exc \in [Slots -> [Origin -> Physical \cup {None}]]
  /\ cows \in 0..(2 * Cardinality(CowIds))
  /\ \A i \in CowIds :
       /\ cow[i].pc \in {"free", "work", "read", "write", "pend"}
       /\ cow[i].pc # "free" => cow[i].r \in Requests
       /\ cow[i].newP \in Physical \cup {None}
       /\ cow[i].oldP \in Physical \cup {None}
       /\ cow[i].waiters \in BioList
  /\ overflow \in BioList
  /\ pending \in Seq(CowIds \cup {Command})
  /\ worker.pc \in {"idle", "build", "apply", "half", "finish"}
  /\ worker.batch \in Seq(CowIds \cup {Command})
  /\ again \in [Agents -> BioList]
  /\ ending \subseteq Agents \ {Unholder}
  /\ cmd.pc \in {"idle", "hold", "suspend", "commit", "applied", "unhold", "unheld"}
  /\ hold \in BOOLEAN /\ suspended \in BOOLEAN /\ broken \in BOOLEAN
  /\ disk \in [Physical -> Contents]
  /\ \A r \in Requests :
       /\ req[r].pc \in {"idle", "fly", "cow", "parked"}
       /\ req[r].pc = "fly" => req[r].P \in Physical
       /\ req[r].seen \subseteq Contents
  /\ \A L \in Origin : disc[L].pc \in {"idle", "queued", "parked", "fly"}
  /\ \A s \in Readers : rd[s].pc \in {"idle", "mapped", "fly"}

\* Between the two steps of an operation its row is named twice.
RedirectHalfDone(L) ==
  worker.pc = "half" /\ Next1 # Command /\ cow[Next1].L = L
RowsHandedOn(g) == worker.pc = "half" /\ Next1 = Command /\ cmd.g = g

OriginHolders(P) == {L \in Origin : origin[L] = P}
SnapHolders(P) ==
  {x \in Slots \X Origin :
     /\ InChain(x[1])
     /\ exc[x[1]][x[2]] = P
     /\ ~RedirectHalfDone(x[2]) \/ origin[x[2]] # P
     /\ ~RowsHandedOn(x[1])}
CowHolders(P) == {i \in CowIds : cow[i].newP = P /\ origin[cow[i].L] # P}

\* A physical row belongs to the origin, to one snapshot, to one copy under way, or
\* to nobody; it is free exactly in the last case, so that no row is handed out
\* twice and none is lost -- until a commit reached no member, after which the rows
\* its record may name stay taken.
OneOwner ==
  \A P \in Physical :
    LET n == Cardinality(OriginHolders(P)) + Cardinality(SnapHolders(P))
               + Cardinality(CowHolders(P))
    IN  /\ n <= 1
        /\ n = 1 => P \in used
        /\ P \in used /\ ~broken => n = 1

\* A read of a snapshot chose its row before it entered the array; whatever is
\* redirected, created or destroyed meanwhile, the row is the snapshot's still.
ReadersKeepTheirRow ==
  \A s \in Readers : rd[s].pc # "idle" => rd[s].P = Lookup(rd[s].g, rd[s].L)

\* When the record of a create or a destroy is queued, nothing moves: no copy is
\* under way, no bio is inside the array, and none gets in.
QuietAtTheRecord ==
  cmd.pc \in {"commit", "applied"} =>
    /\ suspended
    /\ \A i \in CowIds : cow[i].pc = "free"
    /\ ending = {}
    /\ ~Active

\* The origin as a store of rows, the snapshots as images of it.
Images ==
  [g \in {h \in Slots : InChain(h)} |-> [L \in Origin |-> disk[Lookup(g, L)]]]

Done(r) ==
  \E i \in CowIds : /\ cow[i].r = r /\ cow[i].newP # None
                    /\ origin[cow[i].L] = cow[i].newP

IO ==
  [r \in Requests |->
     IF req[r].op = "write"
     THEN [op |-> "write", L |-> req[r].L, whole |-> req[r].whole,
           val |-> req[r].val, done |-> Done(r)]
     ELSE [op |-> "none", st |-> req[r].st]]

Discarding ==
  UNION {IF disc[L].pc = "idle" THEN {} ELSE L..disc[L].last : L \in Origin}

Device ==
  INSTANCE RaidkmSnapDevice
    WITH store <- Store, image <- Images, io <- IO, trim <- Discarding,
         Rows <- Int \X Int, Snapshots <- Slots, Trimmed <- <<Trim, Trim>>

\* The origin is a store of rows in which every write takes effect once, if it
\* succeeds and not otherwise, and every snapshot is an unchanging image of the
\* whole origin at one moment: no redirect, move or free of a row shows.
IsSnapDevice == Device!Spec

\* Every write ends, also one that waited for a copy of its row, for a free copy or
\* for a command, and so does every piece of a discard.
WritesAndDiscardsEnd ==
  /\ \A r \in Requests : (req[r].op = "write") ~> (req[r].op # "write")
  /\ \A L \in Origin : (disc[L].pc # "idle") ~> (disc[L].pc = "idle")

\* A create or destroy never waits for a write that waits for it.
CommandsEnd == (cmd.pc # "idle") ~> (cmd.pc = "idle")

Fairness ==
  /\ \A r \in Requests : WF_vars(Perform(r))
  /\ \A L \in Origin : WF_vars(QueuedDiscard(L)) /\ WF_vars(TrimRows(L))
  /\ \A s \in Readers : WF_vars(SnapReadEnter(s)) /\ WF_vars(SnapReadDone(s))
  /\ \A i \in CowIds : WF_vars(CowAlloc(i)) /\ WF_vars(CowRead(i)) /\ WF_vars(CowWrite(i))
  /\ \A a \in Agents : WF_vars(Resubmit(a)) /\ WF_vars(CowGone(a))
  /\ WF_vars(Commit)
  /\ WF_vars(Commands)

FairSpec == Spec /\ Fairness
=============================================================================
