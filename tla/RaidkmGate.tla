----------------------------- MODULE RaidkmGate -----------------------------
(***************************************************************************)
(* User I/O during an online reshape of a raidkm array.                    *)
(*                                                                         *)
(* The sync thread moves the array from its old geometry to its new one,   *)
(* one band (one row of the new geometry) at a time, while requests go on. *)
(* Two frontiers divide the array: beyond reshape_progress a chunk is      *)
(* served in the old geometry, behind reshape_safe in the new one, and     *)
(* between them lies the band being moved, where a request waits.  A       *)
(* request reads the frontiers first, waits for a stripe, and looks again; *)
(* the sync thread advances the frontier first, drains what entered        *)
(* before, and only then reads the old cells.  A whole-chunk read may      *)
(* bypass the stripe cache when it believes no reshape is running.         *)
(*                                                                         *)
(* Addresses are counted in chunks: reshape_progress and reshape_safe are  *)
(* chunk numbers, a member sector is a row.  The journal, the scratch area *)
(* and crashes are the subject of RaidkmReshape; here a band moves in two  *)
(* steps, read and overwrite, which is all that a request can race with.   *)
(***************************************************************************)
EXTENDS RaidkmGeometry

CONSTANTS
  Requests,     \* request slots: each carries one bio at a time
  Old, New,     \* the two geometries
  Rows,         \* rows of a member (dev_sectors / chunk_sectors)
  MaxSector,    \* the "no reshape" value of reshape_progress
  MaxWrites,    \* bound: writes submitted in a behaviour
  MaxFails,     \* bound: bands that fail and are unclaimed
  MayLose,      \* a member of the old geometry can be lost for good
  \* What the environment of the code may do; FALSE rules the timing out.
  DoneMayFail,  \* the DONE record can fail after the home row was written
  LateArrival,  \* a request that arrived before the start can race with a claim
  SlowBypass,   \* a mapped bypass read can sit out a whole band migration
  SlowRecheck   \* a request waiting for a stripe can sit out end_reshape

Min2(a, b) == IF a < b THEN a ELSE b

KOld == DataDisks(Old)
KNew == DataDisks(New)

\* mddev->reshape_backwards: an array that loses disks is walked from its end.
Backwards == New.n < Old.n

Size == Rows * Min2(KOld, KNew)       \* array size exposed during the reshape
Chunks == 0..(Size - 1)

ASSUME GeometryAssumption ==
  /\ Rows \in Nat \ {0}
  /\ Old \in [n : Nat, m : Nat \ {0}, rot : BOOLEAN]
  /\ New \in [n : Nat, m : Nat \ {0}, rot : BOOLEAN]
  /\ Old.m < Old.n
  /\ New.m < New.n
  /\ IF Backwards THEN KNew <= KOld ELSE KOld <= KNew

ASSUME BoundAssumption ==
  /\ MaxSector \in Nat
  /\ MaxSector > Rows * KOld
  /\ MaxSector > Rows * KNew
  /\ MaxWrites \in Nat
  /\ MaxFails \in Nat
  /\ MayLose \in BOOLEAN
  /\ DoneMayFail \in BOOLEAN
  /\ LateArrival \in BOOLEAN
  /\ SlowBypass \in BOOLEAN
  /\ SlowRecheck \in BOOLEAN

Disks == 0..((IF Old.n < New.n THEN New.n ELSE Old.n) - 1)
Cells == [disk : Disks, row : 0..(Rows - 1)]

OldCell(c) == ComputeSector(Old, c)
NewCell(c) == ComputeSector(New, c)

\* Contents of a data cell: chunk c starts with value c, the n-th write of a
\* behaviour stores Rows * KOld + n; zero-filled capacity and parity are opaque.
Zero == -1
Parity == -2
Values == Parity..(Rows * KOld + MaxWrites)

VARIABLES
  \* frontier and geometry, under device_lock and gen_lock
  progress,     \* conf->reshape_progress
  safe,         \* conf->reshape_safe
  gen,          \* conf->generation: 0 until the geometry switch, then 1
  backwards,    \* mddev->reshape_backwards, cleared by raid5_finish_reshape
  rpos,         \* mddev->reshape_position, the bypass gate
  quiesce,      \* conf->quiesce
  \* the sync thread
  epc,          \* where it stands
  fails,        \* bands that failed so far
  lost,         \* a source member is Faulty
  band,         \* pages read for the claimed band: chunk -> value
  \* the members' data
  home,         \* [Cells -> Values]
  \* requests
  req,          \* [Requests -> record]
  writes        \* writes submitted so far

frontier == <<progress, safe, gen, backwards, rpos>>
engine == <<epc, fails, lost, band>>
vars == <<frontier, quiesce, engine, home, req, writes>>

-----------------------------------------------------------------------------
(* Requests.  "new" is the top of the retry loop, "lookup" a classified     *)
(* request waiting for a stripe, "holding" one that has it and must look    *)
(* again, "admitted" one whose bio is on the stripe.  "gated", "mapped" and *)
(* "direct" are the steps of a bypass read.  "asleep" is a request that     *)
(* waits for the reshape without being on conf->wait_for_reshape: onq says  *)
(* whether it is, decided once, when the request arrives.                   *)

Phases == {"idle", "new", "lookup", "holding", "admitted",
           "gated", "mapped", "direct", "asleep"}

Request == [pc : Phases, op : {"none", "read", "write", "reply"},
            chunk : Chunks, val : Values, old : BOOLEAN, seq : 0..1,
            onq : BOOLEAN]

IdleRequest ==
  [pc |-> "idle", op |-> "none", chunk |-> 0, val |-> 0,
   old |-> FALSE, seq |-> 0, onq |-> FALSE]

\* Mutant: the drain forgets the bypass reads.
ActiveStripesOnly(r) == req[r].pc \in {"holding", "admitted"}

\* active_stripes and active_aligned_reads: what raid5_quiesce waits for.
Active(r) == req[r].pc \in {"holding", "admitted", "direct"}

\* Mutant: no drain.
DrainedAtOnce == TRUE

Drained == \A r \in Requests : ~Active(r)

\* ahead_of_reshape and range_ahead_of_reshape
Ahead(c, pos) == IF backwards THEN c < pos ELSE c >= pos
\* Mutant: the direction is forgotten.
RangeAheadForwards(lo, hi, pos) == lo >= pos

RangeAhead(lo, hi, pos) == IF backwards THEN hi < pos ELSE lo >= pos

\* The geometry current for a request that is not sent to the previous one.
CurrentIsOld == gen = 0

CellOf(r) == IF req[r].old THEN OldCell(req[r].chunk) ELSE NewCell(req[r].chunk)

\* raid5_make_request: whole-chunk reads try the bypass while the gate is open.
Submit(r) ==
  /\ req[r].pc = "idle"
  /\ \E c \in Chunks :
       \/ \E pc \in IF rpos = MaxSector THEN {"gated", "new"} ELSE {"new"} :
            /\ req' = [req EXCEPT ![r] = [IdleRequest EXCEPT
                         !.pc = pc, !.op = "read", !.chunk = c,
                         !.onq = progress # MaxSector]]
            /\ UNCHANGED writes
       \/ /\ writes < MaxWrites
          /\ writes' = writes + 1
          /\ req' = [req EXCEPT ![r] = [IdleRequest EXCEPT
                       !.pc = "new", !.op = "write", !.chunk = c,
                       !.val = Rows * KOld + writes,
                       !.onq = progress # MaxSector]]
  /\ UNCHANGED <<frontier, quiesce, engine, home>>

\* make_stripe_request, up to the search for a stripe.  A request inside the
\* band being moved waits; so one enabled here is ahead, behind or unaffected.
InsideBand(r) ==
  LET c == req[r].chunk
  IN  progress # MaxSector /\ ~Ahead(c, progress) /\ Ahead(c, safe)

Classify(r) ==
  /\ req[r].pc = "new"
  /\ LET c == req[r].chunk
         reshaping == progress # MaxSector
         ahead == reshaping /\ Ahead(c, progress)
     IN  /\ ~InsideBand(r)
         /\ req' = [req EXCEPT ![r].pc = "lookup",
                               ![r].old = ahead \/ CurrentIsOld,
                               ![r].seq = gen]
  /\ UNCHANGED <<frontier, quiesce, engine, home, writes>>

\* raid5_make_request: a request that is not on the queue sleeps all the same,
\* and no wake_up(&conf->wait_for_reshape) reaches it.
SleepOffQueue(r) ==
  /\ req[r].pc = "new"
  /\ InsideBand(r)
  /\ ~req[r].onq
  /\ req' = [req EXCEPT ![r].pc = "asleep"]
  /\ UNCHANGED <<frontier, quiesce, engine, home, writes>>

\* raid5_get_active_stripe: nobody gets a stripe while the array is quiesced.
GetStripe(r) ==
  /\ req[r].pc = "lookup"
  /\ quiesce = 0
  /\ req' = [req EXCEPT ![r].pc = "holding"]
  /\ UNCHANGED <<frontier, quiesce, engine, home, writes>>

\* stripe_ahead_of_reshape: a previous-geometry stripe is usable when all of
\* its data chunks are ahead.
StripeAhead(c, pos) ==
  LET row == c \div KOld
  IN  RangeAhead(row * KOld, row * KOld + KOld - 1, pos)

\* previous == 1 exactly when the request was classified during the reshape
\* and sent to the old geometry.
Previous(r) == req[r].old /\ req[r].seq = 1

\* make_stripe_request, from the stripe to the bio: look again, or let go.
Recheck(r) ==
  /\ req[r].pc = "holding"
  /\ LET passed == Previous(r) /\ ~StripeAhead(req[r].chunk, progress)
     IN  req' = [req EXCEPT ![r].pc =
                   IF passed THEN (IF req[r].onq THEN "new" ELSE "asleep")
                   ELSE IF req[r].seq # gen THEN "new" ELSE "admitted"]
  /\ UNCHANGED <<frontier, quiesce, engine, home, writes>>

\* The stripe's I/O, as one step: a read answers with its cell, a write
\* replaces it, and the stripe is released.
Perform(r) ==
  /\ req[r].pc = "admitted"
  /\ LET cell == CellOf(r)
         val == IF req[r].op = "read" THEN home[cell] ELSE req[r].val
     IN  /\ home' = IF req[r].op = "read" THEN home
                                          ELSE [home EXCEPT ![cell] = val]
         /\ req' = [req EXCEPT ![r] = [IdleRequest EXCEPT
                                         !.op = "reply", !.val = val]]
  /\ UNCHANGED <<frontier, quiesce, engine, writes>>

\* raid5_read_one_chunk: map under gen_lock, or fall back to the stripe path.
BypassMap(r) ==
  /\ req[r].pc = "gated"
  /\ \/ /\ progress = MaxSector
        /\ req' = [req EXCEPT ![r].pc = "mapped", ![r].old = CurrentIsOld,
                              ![r].seq = gen]
     \/ req' = [req EXCEPT ![r].pc = "new", ![r].onq = progress # MaxSector]
  /\ UNCHANGED <<frontier, quiesce, engine, home, writes>>

\* Take the active_aligned_reads reference, waiting out a quiesce.
BypassRef(r) ==
  /\ req[r].pc = "mapped"
  /\ quiesce = 0
  /\ req' = [req EXCEPT ![r].pc = "direct"]
  /\ UNCHANGED <<frontier, quiesce, engine, home, writes>>

\* raid5_align_endio: the member's answer is the reply.
BypassDone(r) ==
  /\ req[r].pc = "direct"
  /\ req' = [req EXCEPT ![r] = [IdleRequest EXCEPT
                                  !.op = "reply", !.val = home[CellOf(r)]]]
  /\ UNCHANGED <<frontier, quiesce, engine, home, writes>>

-----------------------------------------------------------------------------
(* raid5_start_reshape                                                      *)

\* Where the walk begins: raid5_size while both geometries are armed, or 0.
Start == IF Backwards THEN Size ELSE 0

StartDrain ==
  /\ epc = "off"
  /\ quiesce' = 2
  /\ epc' = "switch"
  /\ UNCHANGED <<frontier, fails, lost, band, home, req, writes>>

StartSwitch ==
  /\ epc = "switch"
  /\ Drained
  /\ gen' = 1
  /\ progress' = Start
  /\ safe' = progress'
  /\ quiesce' = 0
  /\ epc' = "armed"
  /\ UNCHANGED <<backwards, rpos, fails, lost, band, home, req, writes>>

StartPublish ==
  /\ epc = "armed"
  /\ rpos' = progress
  /\ epc' = "ready"
  /\ UNCHANGED <<progress, safe, gen, backwards, quiesce, fails, lost, band, home,
                 req, writes>>

-----------------------------------------------------------------------------
(* raidkm_reshape_cow and raidkm_reshape_cow_shrink                         *)

\* The sync thread between a claim and its end, and while it moves the band.
Moving == {"read", "staged", "home"}
Claiming == {"claimed", "draining"} \cup Moving

BandsLeft == IF backwards THEN safe > 0 ELSE safe < Rows * KNew

\* The row whose turn it is, and the row behind the claim.
NextRow == IF backwards THEN safe \div KNew - 1 ELSE safe \div KNew
ClaimedRow == IF backwards THEN progress \div KNew ELSE progress \div KNew - 1

NoneMapped == \A r \in Requests : req[r].pc # "mapped"
NoneOffQueue ==
  \A r \in Requests : req[r].pc \in {"new", "lookup", "holding"} => req[r].onq

\* CLAIM: move reshape_progress over the band before anything is read.
Claim ==
  /\ epc = "ready"
  /\ BandsLeft
  /\ SlowBypass \/ NoneMapped
  /\ LateArrival \/ NoneOffQueue
  /\ progress' = IF backwards THEN NextRow * KNew ELSE (NextRow + 1) * KNew
  /\ epc' = "claimed"
  /\ UNCHANGED <<safe, gen, backwards, rpos, quiesce, fails, lost, band, home, req,
                 writes>>

\* raid5_quiesce(true): no new stripe from here on ...
ClaimDrain ==
  /\ epc = "claimed"
  /\ quiesce' = 2
  /\ epc' = "draining"
  /\ UNCHANGED <<frontier, fails, lost, band, home, req, writes>>

\* ... and raid5_quiesce(false) once what had entered is gone.
ClaimDrained ==
  /\ epc = "draining"
  /\ Drained
  /\ quiesce' = 0
  /\ epc' = "read"
  /\ UNCHANGED <<frontier, fails, lost, band, home, req, writes>>

\* migrate_band: each chunk of the new row from its old place, zeros for the
\* grown capacity.
ReadBand ==
  /\ epc = "read"
  /\ ~lost
  /\ band' = [c \in RowChunks(New, ClaimedRow) |->
                IF c >= Rows * KOld THEN Zero ELSE home[OldCell(c)]]
  /\ epc' = "staged"
  /\ UNCHANGED <<frontier, quiesce, fails, lost, home, req, writes>>

\* Mutant: the grown capacity is left as the member had it.
NewRowImageMovedOnly ==
  [x \in {y \in Cells : y.row = ClaimedRow /\ y.disk < New.n} |->
     IF \E c \in DOMAIN band : NewCell(c) = x /\ c < Rows * KOld
     THEN band[CHOOSE c \in DOMAIN band : NewCell(c) = x]
     ELSE home[x]]

\* migrate_band: the band goes home, over the cells of every new member.
NewRowImage ==
  [x \in {y \in Cells : y.row = ClaimedRow /\ y.disk < New.n} |->
     IF \E c \in DOMAIN band : NewCell(c) = x
     THEN band[CHOOSE c \in DOMAIN band : NewCell(c) = x]
     ELSE Parity]

WriteHome ==
  /\ epc = "staged"
  /\ home' = [x \in Cells |-> IF x \in DOMAIN NewRowImage THEN NewRowImage[x]
                                                          ELSE home[x]]
  /\ epc' = "home"
  /\ UNCHANGED <<frontier, quiesce, fails, lost, band, req, writes>>

\* RELEASE: the DONE record is on disk, the band is served in the new geometry.
Release ==
  /\ epc = "home"
  /\ safe' = progress
  /\ rpos' = progress
  /\ band' = <<>>
  /\ epc' = "ready"
  /\ UNCHANGED <<progress, gen, backwards, quiesce, fails, lost, home, req, writes>>

\* Any error of migrate_band: put reshape_progress back, as if nothing happened.
PutBack(next) ==
  /\ progress' = IF backwards THEN (ClaimedRow + 1) * KNew ELSE ClaimedRow * KNew
  /\ band' = <<>>
  /\ epc' = next
  /\ UNCHANGED <<safe, gen, backwards, rpos, quiesce, lost, home, req, writes>>

\* Mutant: the sync thread stops at the first error.
UnclaimAndPark ==
  /\ epc \in {"read", "staged"}
  /\ fails < MaxFails
  /\ fails' = fails + 1
  /\ PutBack("parked")

\* An error before the home row was touched: memory, the journal, a source.
Unclaim ==
  /\ epc \in {"read", "staged"}
  /\ fails < MaxFails
  /\ fails' = fails + 1
  /\ PutBack("ready")

\* A source member is gone: the attempt ends in -EIO and the sync thread stops;
\* an attempt md makes later ends the same way, at the same frontier.
UnclaimDegraded ==
  /\ epc = "read"
  /\ lost
  /\ PutBack("parked")
  /\ UNCHANGED fails

\* The DONE record fails, after the home row was overwritten.
DoneFails ==
  /\ DoneMayFail
  /\ epc = "home"
  /\ fails < MaxFails
  /\ fails' = fails + 1
  /\ PutBack("ready")

\* raid5_error on a member that held old data; user I/O decodes around it.
LoseMember ==
  /\ MayLose
  /\ ~lost
  /\ lost' = TRUE
  /\ UNCHANGED <<frontier, quiesce, epc, fails, band, home, req, writes>>

-----------------------------------------------------------------------------
(* end_reshape and raid5_finish_reshape                                     *)

NoneRechecking ==
  \A r \in Requests : ~(req[r].pc \in {"lookup", "holding"} /\ Previous(r))

\* Publish "no reshape" first, so that nothing is sent to the old geometry ...
EndPublish ==
  /\ epc = "ready"
  /\ ~BandsLeft
  /\ SlowRecheck \/ NoneRechecking
  /\ progress' = MaxSector
  /\ epc' = "ending"
  /\ UNCHANGED <<safe, gen, backwards, rpos, quiesce, fails, lost, band, home, req,
                 writes>>

EndDrain ==
  /\ epc = "ending"
  /\ quiesce' = 2
  /\ epc' = "collapse"
  /\ UNCHANGED <<frontier, fails, lost, band, home, req, writes>>

\* ... then drain, and retire the previous geometry.
EndCollapse ==
  /\ epc = "collapse"
  /\ Drained
  /\ quiesce' = 0
  /\ rpos' = MaxSector
  /\ epc' = "ended"
  /\ UNCHANGED <<progress, safe, gen, backwards, fails, lost, band, home, req, writes>>

\* raid5_finish_reshape, later and from raid5d: the direction is forgotten.
Finish ==
  /\ epc = "ended"
  /\ backwards' = FALSE
  /\ epc' = "finished"
  /\ UNCHANGED <<progress, safe, gen, rpos, quiesce, fails, lost, band, home, req,
                 writes>>

-----------------------------------------------------------------------------
InitialHome ==
  [x \in Cells |->
     IF x.disk < Old.n /\ x.disk \in DataSlots(Old, x.row)
     THEN CHOOSE c \in RowChunks(Old, x.row) : OldCell(c) = x
     ELSE Parity]

Init ==
  /\ progress = MaxSector
  /\ safe = MaxSector
  /\ gen = 0
  /\ backwards = Backwards
  /\ rpos = MaxSector
  /\ quiesce = 0
  /\ epc = "off"
  /\ fails = 0
  /\ lost = FALSE
  /\ band = <<>>
  /\ home = InitialHome
  /\ req = [r \in Requests |-> IdleRequest]
  /\ writes = 0

Engine ==
  \/ StartDrain \/ StartSwitch \/ StartPublish
  \/ Claim \/ ClaimDrain \/ ClaimDrained \/ ReadBand \/ WriteHome
  \/ Release \/ Unclaim \/ UnclaimDegraded \/ DoneFails
  \/ EndPublish \/ EndDrain \/ EndCollapse \/ Finish

Serve(r) ==
  \/ Classify(r) \/ SleepOffQueue(r) \/ GetStripe(r) \/ Recheck(r) \/ Perform(r)
  \/ BypassMap(r) \/ BypassRef(r) \/ BypassDone(r)

Next == Engine \/ LoseMember \/ \E r \in Requests : Submit(r) \/ Serve(r)

Spec == Init /\ [][Next]_vars
-----------------------------------------------------------------------------
(* Properties                                                               *)

EnginePhases == {"off", "switch", "armed", "ready", "claimed", "draining", "read",
                 "staged", "home", "parked", "ending", "collapse", "ended", "finished"}

TypeOK ==
  /\ progress \in 0..MaxSector
  /\ safe \in 0..MaxSector
  /\ gen \in 0..1
  /\ backwards \in BOOLEAN
  /\ rpos \in 0..MaxSector
  /\ quiesce \in {0, 2}
  /\ epc \in EnginePhases
  /\ fails \in 0..MaxFails
  /\ lost \in BOOLEAN
  /\ home \in [Cells -> Values]
  /\ req \in [Requests -> Request]
  /\ writes \in 0..MaxWrites

\* Is chunk c served from its new cell now?
Migrated(c) ==
  /\ gen = 1
  /\ \/ progress = MaxSector
     \/ ~Ahead(c, safe)
     \/ epc = "home" /\ c \div KNew = ClaimedRow

\* While the sync thread reads a band and overwrites its row, no request is on
\* a stripe of that row in either geometry, nor on a chunk of the band.
Exclusion ==
  epc \in Moving =>
    \A r \in Requests :
      req[r].pc \in {"admitted", "direct"} =>
        /\ CellOf(r).row # ClaimedRow
        /\ req[r].chunk \div KNew # ClaimedRow

\* A request on a stripe works in the geometry its chunk is in: no torn view of
\* the frontier survives the second look.
ServedWhereItLives ==
  \A r \in Requests :
    req[r].pc \in {"admitted", "direct"} => (req[r].old <=> ~Migrated(req[r].chunk))

\* A previous-geometry stripe is never half migrated: all of its data chunks
\* still live in the old geometry, so its parity covers live data only.
WholeStripeAhead ==
  \A r \in Requests :
    (req[r].pc = "admitted" /\ req[r].old) =>
      \A c \in RowChunks(Old, req[r].chunk \div KOld) :
        c \in Chunks => ~Migrated(c)

\* Why these hold.  Where the frontiers stand in each phase of the walk ...
Walking == Claiming \cup {"armed", "ready", "parked"}

FrontierShape ==
  /\ gen = 0 <=> epc \in {"off", "switch"}
  /\ backwards = (Backwards /\ epc # "finished")
  /\ progress = MaxSector <=> epc \notin Walking
  /\ epc \in Walking =>
       \E b \in 0..Rows :
         /\ safe = b * KNew
         /\ IF epc \notin Claiming THEN progress = safe
            ELSE IF Backwards THEN b > 0 /\ progress = (b - 1) * KNew
                              ELSE b < Rows /\ progress = (b + 1) * KNew

\* ... and what each step of a request may rely on, however long ago it read them.
RequestShape(r) ==
  LET pc == req[r].pc
      c == req[r].chunk
      old == req[r].old
      seq == req[r].seq
  IN  /\ pc \in {"lookup", "holding", "admitted", "mapped", "direct"} =>
           seq <= gen /\ (seq = 0 => old)
      /\ pc = "admitted" => seq = gen
      /\ pc \in {"lookup", "holding", "admitted"} /\ seq = 1 /\ ~old =>
           progress = MaxSector \/ ~Ahead(c, safe)
      /\ pc = "admitted" /\ seq = 1 /\ old =>
           /\ progress # MaxSector
           /\ StripeAhead(c, safe)
           /\ epc \in Moving => StripeAhead(c, progress)
      /\ pc \in {"lookup", "holding"} /\ seq = 1 /\ old =>
           progress # MaxSector \/ SlowRecheck
      /\ pc \in {"mapped", "direct"} /\ gen = 1 =>
           IF progress = MaxSector THEN ~old ELSE old /\ safe = Start
      /\ pc = "mapped" => epc \notin Claiming
      /\ pc = "direct" => epc \notin Moving

BandShape ==
  epc \in {"staged", "home"} => band \in [RowChunks(New, ClaimedRow) -> Values]

\* At every moment, whatever a request last read of the frontiers, and however
\* long ago, what it may still do without another look is right for the frontiers
\* as they are now: the inductive invariant.
GateInv ==
  TypeOK /\ FrontierShape /\ BandShape /\ \A r \in Requests : RequestShape(r)

\* The array, seen through the geometry each chunk is in, is the linear store
\* of RaidkmBlockDevice.
Store == [c \in Chunks |-> IF Migrated(c) THEN home[NewCell(c)]
                                          ELSE home[OldCell(c)]]

Shown(r) ==
  CASE req[r].op = "none"  -> [op |-> "none"]
    [] req[r].op = "read"  -> [op |-> "read", chunk |-> req[r].chunk]
    [] req[r].op = "write" -> [op |-> "write", chunk |-> req[r].chunk,
                               val |-> req[r].val]
    [] req[r].op = "reply" -> [op |-> "reply", val |-> req[r].val]

IO == [r \in Requests |-> Shown(r)]

Device == INSTANCE RaidkmBlockDevice WITH store <- Store, io <- IO

\* Reading, writing and reshaping together are a block device: a read returns
\* what was last written, and no step of the reshape changes any chunk.
IsBlockDevice == Device!Spec

\* Grown capacity reads as zeros until it is written.
GrownCapacityIsZero ==
  epc = "finished" =>
    \A c \in (Rows * KOld)..(Rows * KNew - 1) : home[NewCell(c)] = Zero

\* Each request is answered, whatever it races with, and the reshape ends: no
\* drain waits for a request that waits for the reshape.
RequestsAndReshapeEnd ==
  /\ \A r \in Requests : (req[r].pc # "idle") ~> (req[r].pc = "idle")
  /\ (epc # "off") ~> (epc = "finished")

Fairness ==
  /\ WF_vars(Engine /\ ~StartDrain)
  /\ \A r \in Requests : WF_vars(Serve(r))

FairSpec == Spec /\ Fairness
=============================================================================
