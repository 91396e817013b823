-------------------------- MODULE RaidkmSnapImages --------------------------
(***************************************************************************)
(* The snapshots implement the store of rows with frozen images, for any   *)
(* number of bios, rows, snapshots and copies.                             *)
(*                                                                         *)
(* Two things are added to the invariants of RaidkmSnapProofs.  A bio is in *)
(* one place at a time: in one list, in one copy, or in the array; a write *)
(* or a discard in the array is on rows that no snapshot shares and no copy *)
(* is about to move.  And a copy's new row holds what the store will hold  *)
(* when the origin's map points to it: the old row, which nobody writes    *)
(* meanwhile, with the write merged into it.                               *)
(***************************************************************************)
EXTENDS RaidkmSnapProofs

\* No snapshot reads the origin's row, and no copy is about to move it.
Settled(L) == ~Shared(L) /\ ~Busy(L)

\* What a request is doing, and whose copies are whose.
RequestShape ==
  /\ \A r \in Requests :
       /\ req[r].pc = "idle" => req[r].op = "none"
       /\ req[r].pc \in {"cow", "parked"} => req[r].op = "write"
       /\ req[r].pc = "fly" => req[r].op \in {"read", "write"}
  /\ \A i \in CowIds :
       cow[i].pc # "free" => req[cow[i].r].pc = "cow" /\ req[cow[i].r].L = cow[i].L
  /\ \A i, j \in CowIds :
       cow[i].pc # "free" /\ cow[j].pc # "free" /\ cow[i].r = cow[j].r => i = j

PieceRecords == [pc : {"idle", "queued", "parked", "fly"}, last : Int, first : Int]

\* The pieces of a discard do not overlap.
DiscardShape ==
  /\ disc \in [Origin -> PieceRecords]
  /\ \A L \in Origin : disc[L].pc # "idle" => disc[L].last \in L..(O - 1)
  /\ \A L, M \in Origin :
       disc[L].pc # "idle" /\ disc[M].pc # "idle" /\ L < M => disc[L].last < M

\* A write or a trim inside the array is on the origin's rows as they are.
FlyShape ==
  /\ \A r \in Requests :
       req[r].pc = "fly" /\ req[r].op = "write" =>
         req[r].P = origin[req[r].L] /\ Settled(req[r].L)
  /\ \A L \in Origin :
       disc[L].pc = "fly" =>
         \A M \in L..disc[L].last : origin[M] = disc[L].first + (M - L) /\ Settled(M)

\* A copy has the old row with its write merged into it, first in memory and
\* then on disk.
BufShape ==
  \A i \in CowIds :
    /\ cow[i].pc = "write" => cow[i].buf = Written(disk[cow[i].oldP], req[cow[i].r])
    /\ cow[i].pc = "pend" /\ cow[i].ok /\ ~(Inside(i) /\ worker.pc = "finish") =>
         disk[cow[i].newP] = Written(disk[cow[i].oldP], req[cow[i].r])

\* A record names no copy that failed.
RecordShape ==
  worker.pc \in {"apply", "half", "finish"} =>
    \A i \in CowIds : In(i, worker.batch) => cow[i].ok

\* A bio that waits is in one list, once.
Apart(c, o, g) ==
  /\ \A i \in CowIds : Distinct(c[i].waiters)
  /\ \A a \in Agents : Distinct(g[a])
  /\ Distinct(o)
  /\ \A i, j \in CowIds : \A x : In(x, c[i].waiters) /\ In(x, c[j].waiters) => i = j
  /\ \A a, b \in Agents : \A x : In(x, g[a]) /\ In(x, g[b]) => a = b
  /\ \A i \in CowIds, a \in Agents : \A x : ~(In(x, c[i].waiters) /\ In(x, g[a]))
  /\ \A i \in CowIds : \A x : ~(In(x, c[i].waiters) /\ In(x, o))
  /\ \A a \in Agents : \A x : ~(In(x, g[a]) /\ In(x, o))

Waits(c, o, g, x) ==
  \/ \E i \in CowIds : In(x, c[i].waiters)
  \/ \E a \in Agents : In(x, g[a])
  \/ In(x, o)

Parked(x) ==
  \/ x \in Requests /\ req[x].pc = "parked"
  \/ x \in Origin /\ disc[x].pc = "parked"

WaitShape ==
  /\ Apart(cow, overflow, again)
  /\ \A x : Waits(cow, overflow, again, x) => Parked(x)

UseShape == RequestShape /\ DiscardShape /\ FlyShape
DeviceInv == UseShape /\ BufShape /\ RecordShape /\ WaitShape

Known == SnapInv /\ OwnInv /\ ReadInv /\ DeviceInv

-----------------------------------------------------------------------------
(* Lists                                                                    *)

LEMMA InConcat ==
  ASSUME NEW S, NEW s \in Seq(S), NEW t \in Seq(S)
  PROVE  /\ \A x : In(x, s \o t) <=> In(x, s) \/ In(x, t)
         /\ Distinct(s) /\ Distinct(t) /\ (\A x : ~(In(x, s) /\ In(x, t))) => Distinct(s \o t)
<1> DEFINE u == s \o t
<1>1. /\ DOMAIN s = 1..Len(s) /\ DOMAIN t = 1..Len(t) /\ DOMAIN u = 1..(Len(s) + Len(t))
      /\ Len(s) \in Nat /\ Len(t) \in Nat
      /\ \A k \in 1..(Len(s) + Len(t)) : u[k] = IF k <= Len(s) THEN s[k] ELSE t[k - Len(s)]
  BY ConcatProperties, LenProperties
<1> HIDE DEF u
<1>2. ASSUME NEW x PROVE In(x, u) <=> In(x, s) \/ In(x, t)
  <2>1. ASSUME In(x, u) PROVE In(x, s) \/ In(x, t)
    <3>1. PICK k \in DOMAIN u : u[k] = x
      BY <2>1 DEF In
    <3>2. CASE k <= Len(s)
      BY <1>1, <3>1, <3>2 DEF In
    <3>3. CASE ~(k <= Len(s))
      <4>1. k - Len(s) \in DOMAIN t /\ t[k - Len(s)] = x
        BY <1>1, <3>1, <3>3
      <4> QED
        BY <4>1 DEF In
    <3> QED
      BY <3>2, <3>3
  <2>2. ASSUME NEW k \in DOMAIN s PROVE In(s[k], u)
    BY <1>1 DEF In
  <2>3. ASSUME NEW k \in DOMAIN t PROVE In(t[k], u)
    <3>1. k + Len(s) \in DOMAIN u /\ ~(k + Len(s) <= Len(s)) /\ (k + Len(s)) - Len(s) = k
      BY <1>1
    <3>2. u[k + Len(s)] = t[k]
      BY <1>1, <3>1
    <3> QED
      BY <3>1, <3>2 DEF In
  <2> QED
    BY <2>1, <2>2, <2>3 DEF In
<1>3. ASSUME Distinct(s), Distinct(t), \A x : ~(In(x, s) /\ In(x, t))
      PROVE  Distinct(u)
  <2> SUFFICES ASSUME NEW j \in DOMAIN u, NEW k \in DOMAIN u, u[j] = u[k] PROVE j = k
    BY DEF Distinct
  <2>1. ASSUME NEW l \in DOMAIN u
        PROVE  \/ l <= Len(s) /\ l \in DOMAIN s /\ u[l] = s[l] /\ In(u[l], s)
               \/ /\ ~(l <= Len(s)) /\ l - Len(s) \in DOMAIN t
                  /\ u[l] = t[l - Len(s)] /\ In(u[l], t)
    <3>1. CASE l <= Len(s)
      BY <1>1, <2>1, <3>1 DEF In
    <3>2. CASE ~(l <= Len(s))
      <4>1. l - Len(s) \in DOMAIN t /\ u[l] = t[l - Len(s)]
        BY <1>1, <2>1, <3>2
      <4> QED
        BY <3>2, <4>1 DEF In
    <3> QED
      BY <3>1, <3>2
  <2>2. CASE j <= Len(s) /\ k <= Len(s)
    BY <1>3, <2>1, <2>2 DEF Distinct
  <2>3. CASE ~(j <= Len(s)) /\ ~(k <= Len(s))
    <3>1. j - Len(s) = k - Len(s)
      BY <1>3, <2>1, <2>3 DEF Distinct
    <3> QED
      BY <1>1, <3>1
  <2> QED
    BY <1>3, <2>1, <2>2, <2>3
<1> QED
  BY <1>2, <1>3 DEF u

\* The lists as they are, or shorter.
LEMMA FewerWait ==
  ASSUME NEW c, NEW o, NEW g, Apart(c, o, g), NEW d, NEW p, NEW h,
         \A i \in CowIds : Distinct(d[i].waiters) /\ \A x : In(x, d[i].waiters) => In(x, c[i].waiters),
         \A a \in Agents : Distinct(h[a]) /\ \A x : In(x, h[a]) => In(x, g[a]),
         Distinct(p) /\ \A x : In(x, p) => In(x, o)
  PROVE  Apart(d, p, h) /\ \A x : Waits(d, p, h, x) => Waits(c, o, g, x)
BY DEF Apart, Waits

\* A bio that waits nowhere joins the list of copy i ...
LEMMA JoinCopy ==
  ASSUME cow \in [CowIds -> CowRecords], NEW o, NEW g, Apart(cow, o, g),
         NEW x \in Requests \cup Origin, ~Waits(cow, o, g, x), NEW i \in CowIds,
         cow' = [cow EXCEPT ![i].waiters = Append(@, x)]
  PROVE  /\ Apart(cow', o, g)
         /\ \A y : Waits(cow', o, g, y) => Waits(cow, o, g, y) \/ y = x
<1>1. cow[i].waiters \in Seq(Requests \cup Origin) /\ ~In(x, cow[i].waiters)
  BY DEF CowRecords, Bios, Waits
<1>2. /\ \A y : In(y, Append(cow[i].waiters, x)) <=> In(y, cow[i].waiters) \/ y = x
      /\ Distinct(Append(cow[i].waiters, x))
  BY <1>1, InAppend DEF Apart
<1>3. /\ cow'[i].waiters = Append(cow[i].waiters, x)
      /\ \A j \in CowIds \ {i} : cow'[j].waiters = cow[j].waiters
  BY DEF CowRecords
<1>4. \A j \in CowIds : \A y : In(y, cow'[j].waiters) <=>
                                  In(y, cow[j].waiters) \/ (j = i /\ y = x)
  BY <1>2, <1>3
<1>5. \A j \in CowIds : Distinct(cow'[j].waiters)
  BY <1>2, <1>3 DEF Apart
<1>6. /\ \A j \in CowIds : ~In(x, cow[j].waiters)
      /\ \A a \in Agents : ~In(x, g[a])
      /\ ~In(x, o)
  BY DEF Waits
<1>7. ASSUME NEW j \in CowIds, NEW k \in CowIds, NEW y,
             In(y, cow'[j].waiters), In(y, cow'[k].waiters)
      PROVE  j = k
  BY <1>4, <1>6, <1>7 DEF Apart
<1>8. ASSUME NEW j \in CowIds, NEW y, In(y, cow'[j].waiters)
      PROVE  ~In(y, o) /\ \A a \in Agents : ~In(y, g[a])
  <2>1. \/ In(y, cow[j].waiters)
        \/ y = x
    BY <1>4, <1>8
  <2>2. CASE In(y, cow[j].waiters)
    BY <2>2 DEF Apart
  <2> QED
    BY <1>6, <2>1, <2>2
<1>9. Apart(cow', o, g)
  BY <1>5, <1>7, <1>8 DEF Apart
<1> QED
  BY <1>4, <1>9 DEF Waits

\* ... or the overflow.
LEMMA JoinOverflow ==
  ASSUME overflow \in Bios, NEW c, NEW g, Apart(c, overflow, g),
         NEW x \in Requests \cup Origin, ~Waits(c, overflow, g, x)
  PROVE  /\ Apart(c, Append(overflow, x), g)
         /\ \A y : Waits(c, Append(overflow, x), g, y) => Waits(c, overflow, g, y) \/ y = x
<1>1. /\ \A y : In(y, Append(overflow, x)) <=> In(y, overflow) \/ y = x
      /\ Distinct(Append(overflow, x))
  BY InAppend DEF Apart, Waits, Bios
<1> QED
  BY <1>1 DEF Apart, Waits

\* The head of a worker's list is taken off, and waits nowhere.
LEMMA HeadTaken ==
  ASSUME Known, NEW a \in Agents, again[a] # <<>>,
         again' = [again EXCEPT ![a] = Tail(@)]
  PROVE  /\ Head(again[a]) \in Requests \cup Origin /\ Parked(Head(again[a]))
         /\ Apart(cow, overflow, again')
         /\ ~Waits(cow, overflow, again', Head(again[a]))
         /\ \A x : Waits(cow, overflow, again', x) => Waits(cow, overflow, again, x)
<1> DEFINE b == Head(again[a])
<1>1. again \in [Agents -> Bios] /\ Apart(cow, overflow, again)
  BY DEF Known, SnapInv, Types, DeviceInv, WaitShape
<1>2. /\ b \in Requests \cup Origin /\ In(b, again[a])
      /\ \A x : In(x, Tail(again[a])) <=> In(x, again[a]) /\ x # b
      /\ Distinct(Tail(again[a]))
  BY <1>1, InTail DEF Bios, Apart
<1>3. /\ again'[a] = Tail(again[a])
      /\ \A c \in Agents \ {a} : again'[c] = again[c]
  BY <1>1
<1> HIDE DEF b
<1>4. Parked(b)
  BY <1>2 DEF Known, DeviceInv, WaitShape, Waits
<1>5. Apart(cow, overflow, again')
      /\ \A x : Waits(cow, overflow, again', x) => Waits(cow, overflow, again, x)
  <2>1. \A c \in Agents : Distinct(again'[c]) /\ \A x : In(x, again'[c]) => In(x, again[c])
    BY <1>1, <1>2, <1>3 DEF Apart
  <2>2. /\ \A i \in CowIds : Distinct(cow[i].waiters)
        /\ Distinct(overflow)
    BY <1>1 DEF Apart
  <2> QED
    BY <1>1, <2>1, <2>2, FewerWait
<1>6. ~Waits(cow, overflow, again', b)
  BY <1>1, <1>2, <1>3 DEF Waits, Apart
<1> QED
  BY <1>2, <1>4, <1>5, <1>6 DEF b

\* A copy that ends hands its list, and the overflow, to the worker that ends it.
LEMMA FinishWaits ==
  ASSUME Known, NEW i \in CowIds, NEW st, NEW undo, NEW a \in Agents,
         FinishCow(i, st, undo, a)
  PROVE  /\ Apart(cow', overflow', again')
         /\ \A x : Waits(cow', overflow', again', x) => Waits(cow, overflow, again, x)
<1>1. /\ cow \in [CowIds -> CowRecords] /\ overflow \in Bios /\ again \in [Agents -> Bios]
      /\ Apart(cow, overflow, again)
  BY DEF Known, SnapInv, Types, DeviceInv, WaitShape
<1>2. /\ cow'[i].waiters = <<>>
      /\ \A j \in CowIds \ {i} : cow'[j].waiters = cow[j].waiters
  BY <1>1 DEF FinishCow, FreeCow
<1>3. cow[i].waiters \in Bios
  BY <1>1 DEF CowRecords
<1>4. /\ \A x : In(x, cow[i].waiters \o overflow) <=> In(x, cow[i].waiters) \/ In(x, overflow)
      /\ Distinct(cow[i].waiters \o overflow)
  BY <1>1, <1>3, InConcat DEF Bios, Apart
<1>5. \A b \in Agents \ {a} : again'[b] = again[b]
  BY <1>1 DEF FinishCow
<1>6. /\ Distinct(again'[a]) /\ Distinct(overflow')
      /\ \A x : In(x, again'[a]) => In(x, cow[i].waiters) \/ (~hold /\ In(x, overflow))
      /\ \A x : In(x, overflow') => hold /\ In(x, overflow)
  BY <1>1, <1>4, EmptyList DEF FinishCow, Apart
<1>7. \A x : ~In(x, cow'[i].waiters)
  BY <1>2, EmptyList
<1>8. \A j \in CowIds : Distinct(cow'[j].waiters)
  BY <1>1, <1>2, EmptyList DEF Apart
<1>9. \A j \in CowIds : \A x : In(x, cow'[j].waiters) => In(x, cow[j].waiters) /\ j # i
  BY <1>2, <1>7
<1>10. \A b \in Agents : Distinct(again'[b])
  BY <1>1, <1>5, <1>6 DEF Apart
<1>11. \A b \in Agents : \A x : In(x, again'[b]) =>
         \/ b # a /\ In(x, again[b])
         \/ b = a /\ (In(x, cow[i].waiters) \/ (~hold /\ In(x, overflow)))
  BY <1>5, <1>6
<1>12. ASSUME NEW j \in CowIds, NEW k \in CowIds, NEW x,
              In(x, cow'[j].waiters), In(x, cow'[k].waiters)
       PROVE  j = k
  BY <1>1, <1>9, <1>12 DEF Apart
<1>13. ASSUME NEW b \in Agents, NEW c \in Agents, NEW x, In(x, again'[b]), In(x, again'[c])
       PROVE  b = c
  BY <1>1, <1>11, <1>13 DEF Apart
<1>14. ASSUME NEW j \in CowIds, NEW x, In(x, cow'[j].waiters)
       PROVE  ~In(x, overflow') /\ \A b \in Agents : ~In(x, again'[b])
  BY <1>1, <1>6, <1>9, <1>11, <1>14 DEF Apart
<1>15. ASSUME NEW b \in Agents, NEW x, In(x, again'[b]) PROVE ~In(x, overflow')
  BY <1>1, <1>6, <1>11, <1>15 DEF Apart
<1>16. Apart(cow', overflow', again')
  BY <1>6, <1>8, <1>10, <1>12, <1>13, <1>14, <1>15 DEF Apart
<1>17. ASSUME NEW x, Waits(cow', overflow', again', x) PROVE Waits(cow, overflow, again, x)
  BY <1>6, <1>9, <1>11, <1>17 DEF Waits
<1> QED
  BY <1>16, <1>17

LEMMA UnholdWaits ==
  ASSUME Known, Unhold
  PROVE  /\ Apart(cow', overflow', again')
         /\ \A x : Waits(cow', overflow', again', x) => Waits(cow, overflow, again, x)
<1>1. /\ again \in [Agents -> Bios] /\ Apart(cow, overflow, again) /\ Unholder \in Agents
  BY Constants DEF Known, SnapInv, Types, DeviceInv, WaitShape
<1>2. cow' = cow /\ overflow' = <<>> /\ again' = [again EXCEPT ![Unholder] = overflow]
  BY DEF Unhold
<1>3. \A b \in Agents : again'[b] = IF b = Unholder THEN overflow ELSE again[b]
  BY <1>1, <1>2
<1> QED
  BY <1>1, <1>2, <1>3, EmptyList DEF Apart, Waits

-----------------------------------------------------------------------------
(* Steps that leave the bios, the copies and the maps as they are           *)

LEMMA StillDevice ==
  ASSUME Known, UNCHANGED <<origin, snaps, exc, cow, overflow, again, disk, req, disc>>,
         worker' = worker \/ (~Acting /\ ~Acting'), RecordShape'
  PROVE  DeviceInv'
<1>1. \A L : /\ Shared(L)' <=> Shared(L)
             /\ Busy(L)' <=> Busy(L)
  BY DEF Shared, Busy
<1>2. UseShape'
  BY <1>1 DEF Known, DeviceInv, UseShape, RequestShape, DiscardShape, FlyShape, Settled
<1>3. BufShape'
  BY DEF Known, DeviceInv, BufShape, Inside, Acting, Next1
<1>4. WaitShape'
  BY DEF Known, DeviceInv, WaitShape, Parked, Apart, Waits
<1> QED
  BY <1>2, <1>3, <1>4 DEF DeviceInv

LEMMA QuietSteps ==
  ASSUME Known,
         \/ \E s \in Readers : SnapRead(s) \/ SnapReadEnter(s) \/ SnapReadDone(s)
         \/ \E a \in Agents : CowGone(a)
         \/ CommitTake \/ CommitRecord
         \/ Create \/ Destroy \/ Suspend \/ SubmitCommand \/ Resume \/ EndCommand
  PROVE  DeviceInv' /\ UNCHANGED <<origin, snaps, exc, cow, disk, req, disc>>
<1>1. RecordShape
  BY DEF Known, DeviceInv
<1>2. CASE \/ \E s \in Readers : SnapRead(s) \/ SnapReadEnter(s) \/ SnapReadDone(s)
           \/ \E a \in Agents : CowGone(a)
           \/ Create \/ Destroy \/ Suspend \/ SubmitCommand \/ Resume \/ EndCommand
  <2>1. UNCHANGED <<origin, snaps, exc, cow, overflow, again, disk, req, disc, worker>>
    BY <1>2 DEF SnapRead, SnapReadEnter, SnapReadDone, CowGone, Create, Destroy, StartCommand,
                Suspend, SubmitCommand, Resume, EndCommand,
                maps, copies, workers, control, users
  <2>2. RecordShape'
    BY <1>1, <2>1 DEF RecordShape
  <2> QED
    BY <2>1, <2>2, StillDevice
<1>3. CASE CommitTake
  <2>1. /\ UNCHANGED <<origin, snaps, exc, cow, overflow, again, disk, req, disc>>
        /\ worker.pc = "idle" /\ worker' = [worker EXCEPT !.pc = "build", !.batch = pending]
    BY <1>3 DEF CommitTake, maps, copies, users
  <2>2. worker'.pc = "build"
    BY <2>1 DEF Known, SnapInv, Types, WorkerRecords
  <2> QED
    BY <2>1, <2>2, StillDevice DEF RecordShape, Acting
<1>4. CASE CommitRecord
  <2>1. /\ UNCHANGED <<origin, snaps, exc, cow, overflow, again, disk, req, disc>>
        /\ worker.pc = "build" /\ Failed = {}
    BY <1>4 DEF CommitRecord, maps, copies, users
  <2>2. worker' = IdleWorker \/ (worker'.pc = "apply" /\ worker'.batch = worker.batch)
    BY <1>4 DEF CommitRecord, Known, SnapInv, Types, WorkerRecords
  <2>3. \A i \in CowIds : In(i, worker.batch) => cow[i].ok
    BY <2>1, Constants DEF Failed, In
  <2>4. RecordShape' /\ ~Acting'
    BY <2>1, <2>2, <2>3 DEF RecordShape, IdleWorker, Acting
  <2> QED
    BY <2>1, <2>4, StillDevice DEF Acting
<1> QED
  BY <1>2, <1>3, <1>4

\* The same bios, but for what the reads among them have seen.
AlikeBio(x, y) ==
  /\ x.pc = y.pc /\ x.op = y.op /\ x.L = y.L /\ x.P = y.P
  /\ x.whole = y.whole /\ x.val = y.val /\ x.st = y.st
AlikeBios(q, p) == \A r \in Requests : AlikeBio(q[r], p[r])

LEMMA ObservedAlike ==
  ASSUME NEW q \in [Requests -> RequestRecords], req' = Observed(q)
  PROVE  AlikeBios(req', q)
<1> SUFFICES ASSUME NEW r \in Requests
             PROVE  /\ req'[r].pc = q[r].pc /\ req'[r].op = q[r].op /\ req'[r].L = q[r].L
                    /\ req'[r].P = q[r].P /\ req'[r].whole = q[r].whole
                    /\ req'[r].val = q[r].val /\ req'[r].st = q[r].st
  BY DEF AlikeBios, AlikeBio
<1>1. q[r] \in RequestRecords
  OBVIOUS
<1>2. req'[r] = IF q[r].op = "read"
                THEN [q[r] EXCEPT !.seen = q[r].seen \cup {disk'[origin'[q[r].L]]}] ELSE q[r]
  BY DEF Observed
<1> QED
  BY <1>1, <1>2 DEF RequestRecords

LEMMA WrittenAlike ==
  ASSUME NEW q, NEW p, AlikeBios(q, p)
  PROVE  \A r \in Requests : \A old : Written(old, q[r]) = Written(old, p[r])
BY DEF AlikeBios, AlikeBio, Written

\* The commit worker changes the maps of one row, which a copy holds.
LEMMA RedirectDevice ==
  ASSUME Known, UNCHANGED <<snaps, cow, overflow, again, disk, disc>>, AlikeBios(req', req),
         worker'.batch = worker.batch, worker.pc \in {"apply", "half"}, Next1 # Command,
         worker'.pc \in {"half", "finish"},
         \A M \in Origin : M # cow[Next1].L => origin'[M] = origin[M] /\ (Shared(M)' <=> Shared(M))
  PROVE  DeviceInv'
<1>1. PICK i \in CowIds : i = Next1 /\ cow[i].pc = "pend" /\ In(i, worker.batch)
  BY BatchHead DEF Known, SnapInv, WorkerShape
<1>2. \A M \in Origin : Settled(M) => origin'[M] = origin[M] /\ Settled(M)'
  BY <1>1 DEF Settled, Busy
<1>3. RequestShape' /\ DiscardShape'
  BY DEF Known, DeviceInv, UseShape, RequestShape, DiscardShape, AlikeBios, AlikeBio, SnapInv, CowShape
<1>4. FlyShape'
  <2>1. ASSUME NEW r \in Requests, req'[r].pc = "fly", req'[r].op = "write"
        PROVE  req'[r].P = origin'[req'[r].L] /\ Settled(req[r].L)'
    <3>1. PICK M \in Origin : M = req[r].L
      BY DEF Known, SnapInv, Types, RequestRecords
    <3>2. req'[r].L = M /\ req'[r].P = req[r].P /\ req[r].pc = "fly" /\ req[r].op = "write"
      BY <2>1, <3>1 DEF AlikeBios, AlikeBio
    <3>3. req[r].P = origin[M] /\ Settled(M)
      BY <3>1, <3>2 DEF Known, DeviceInv, UseShape, FlyShape
    <3>4. origin'[M] = origin[M] /\ Settled(M)'
      BY <1>2, <3>3
    <3> QED
      BY <3>2, <3>3, <3>4 DEF Settled, Shared, Busy
  <2>2. ASSUME NEW L \in Origin, disc'[L].pc = "fly", NEW M \in L..disc'[L].last
        PROVE  origin'[M] = disc'[L].first + (M - L) /\ Settled(M)'
    <3>1. disc[L].pc = "fly" /\ M \in L..disc[L].last /\ disc'[L].first = disc[L].first
      BY <2>2
    <3>2. M \in Origin
      BY <3>1, Constants DEF Known, DeviceInv, UseShape, DiscardShape, Origin
    <3> QED
      BY <1>2, <3>1, <3>2 DEF Known, DeviceInv, UseShape, FlyShape
  <2> QED
    BY <2>1, <2>2 DEF FlyShape
<1>5. RecordShape'
  BY DEF Known, DeviceInv, RecordShape
<1>6. BufShape'
  <2> SUFFICES ASSUME NEW j \in CowIds
               PROVE  /\ cow[j].pc = "write" => cow[j].buf = Written(disk[cow[j].oldP], req'[cow[j].r])
                      /\ cow[j].pc = "pend" /\ cow[j].ok /\ ~(Inside(j)' /\ worker'.pc = "finish") =>
                           disk[cow[j].newP] = Written(disk[cow[j].oldP], req'[cow[j].r])
    BY DEF BufShape
  <2>1. cow[j].pc # "free" => Written(disk[cow[j].oldP], req'[cow[j].r])
                              = Written(disk[cow[j].oldP], req[cow[j].r])
    BY WrittenAlike DEF Known, SnapInv, CowShape
  <2>2. Inside(j) /\ worker.pc = "finish" => Inside(j)' /\ worker'.pc = "finish"
    OBVIOUS
  <2> QED
    BY <2>1, <2>2 DEF Known, DeviceInv, BufShape
<1>7. WaitShape'
  BY DEF Known, DeviceInv, WaitShape, Parked, Apart, Waits, AlikeBios, AlikeBio
<1> QED
  BY <1>3, <1>4, <1>5, <1>6, <1>7 DEF DeviceInv, UseShape

LEMMA ApplyExceptionDevice ==
  ASSUME Known, ApplyException
  PROVE  DeviceInv'
<1>1. /\ worker.pc = "apply" /\ Next1 # Command
      /\ exc' = [exc EXCEPT ![Newest][cow[Next1].L] = cow[Next1].oldP]
      /\ UNCHANGED <<origin, snaps, cow, overflow, again, disk, req, disc>>
  BY DEF ApplyException, Applying, control, users, copies, Newest
<1>2. worker'.pc = "half" /\ worker'.batch = worker.batch
  BY ApplyExceptionKeeps DEF Known
<1>3. \A M \in Origin : M # cow[Next1].L => exc'[Newest][M] = exc[Newest][M]
  BY <1>1 DEF Known, SnapInv, Types
<1> QED
  BY <1>1, <1>2, <1>3, RedirectDevice DEF Shared, Newest, AlikeBios, AlikeBio

LEMMA ApplyOriginDevice ==
  ASSUME Known, ApplyOrigin
  PROVE  DeviceInv'
<1>1. /\ worker.pc = "half" /\ Next1 # Command
      /\ origin' = [origin EXCEPT ![cow[Next1].L] = cow[Next1].newP]
      /\ UNCHANGED <<snaps, exc, cow, overflow, again, disk, disc>>
      /\ req' = Observed(req)
  BY DEF ApplyOrigin, control, copies
<1>2. worker'.pc = "finish" /\ worker'.batch = worker.batch
  BY ApplyOriginKeeps DEF Known
<1>3. AlikeBios(req', req)
  BY <1>1, ObservedAlike DEF Known, SnapInv, Types
<1>4. \A M \in Origin : M # cow[Next1].L => origin'[M] = origin[M]
  BY <1>1 DEF Known, SnapInv, Types
<1> QED
  BY <1>1, <1>2, <1>3, <1>4, RedirectDevice DEF Shared

\* The record of a command is applied in an array at rest.
LEMMA CommandDevice ==
  ASSUME Known, UNCHANGED <<cow, overflow, again, disk, req, disc>>,
         worker.batch # <<>>, Next1 = Command, RecordShape'
  PROVE  DeviceInv'
<1>1. /\ \A i \in CowIds : cow[i].pc = "free" /\ cow[i].newP = None
      /\ ~Active
  BY NoCopies, BatchHead DEF Known, SnapInv, CommandShape, WorkerShape
<1>2. UseShape'
  BY <1>1 DEF Known, DeviceInv, UseShape, RequestShape, DiscardShape, FlyShape, Active
<1>3. BufShape'
  BY <1>1 DEF BufShape
<1>4. WaitShape'
  BY DEF Known, DeviceInv, WaitShape, Parked, Apart, Waits
<1> QED
  BY <1>2, <1>3, <1>4 DEF DeviceInv

\* A worker goes on with the rest of its batch.
LEMMA AdvancesRecord ==
  ASSUME Known, worker.pc \in {"apply", "half", "finish"}, Advances,
         \A i \in CowIds : cow'[i].ok = cow[i].ok \/ cow'[i].ok
  PROVE  RecordShape'
<1>1. worker'.pc # "idle" => \A i \in CowIds : In(i, worker'.batch) => In(i, worker.batch)
  BY DEF Advances
<1>2. worker'.pc \in {"apply", "half", "finish"} => worker'.pc # "idle"
  OBVIOUS
<1> QED
  BY <1>1, <1>2 DEF Known, DeviceInv, RecordShape

LEMMA ApplyCommandDevice ==
  ASSUME Known, ApplyCreate \/ ApplyDestroyRows \/ ApplyDestroyLink
  PROVE  DeviceInv'
<1>1. /\ UNCHANGED <<cow, overflow, again, disk, req, disc>> /\ Next1 = Command
      /\ worker.pc \in {"apply", "half"}
  BY DEF ApplyCreate, ApplyDestroyRows, ApplyDestroyLink, Applying, copies, users
<1>2. worker.batch # <<>>
  BY <1>1 DEF Known, SnapInv, WorkerShape
<1>3. Advances \/ worker'.batch = worker.batch
  BY ApplyCreateKeeps, ApplyDestroyRowsKeeps, ApplyDestroyLinkKeeps DEF CommandDone, Known
<1>4. RecordShape'
  <2>1. CASE Advances
    BY <1>1, <2>1, AdvancesRecord
  <2>2. CASE worker'.batch = worker.batch
    BY <1>1, <2>2 DEF Known, DeviceInv, RecordShape
  <2> QED
    BY <1>3, <2>1, <2>2
<1> QED
  BY <1>1, <1>2, <1>4, CommandDevice

-----------------------------------------------------------------------------
(* A copy ends                                                              *)

LEMMA FinishDevice ==
  ASSUME Known, NEW i \in CowIds, cow[i].pc # "free", NEW st \in {"ok", "error"},
         NEW undo \in BOOLEAN, NEW a \in CowIds \cup {CommitWorker}, FinishCow(i, st, undo, a),
         UNCHANGED <<origin, snaps, exc, disk, disc>>, RecordShape',
         worker' = worker \/ worker.pc # "finish" \/ Next1 = i
  PROVE  DeviceInv'
<1>1. /\ cow \in [CowIds -> CowRecords] /\ req \in [Requests -> RequestRecords]
      /\ cow' = [cow EXCEPT ![i] = FreeCow] /\ FreeCow.pc = "free"
      /\ req' = [req EXCEPT ![cow[i].r] = Replied(st)]
      /\ cow[i].r \in Requests
  BY FreshTypes DEF Known, SnapInv, Types, CowShape, FinishCow
<1>2. PICK b \in Requests : b = cow[i].r
  BY <1>1
<1>3. /\ \A j \in CowIds : cow'[j] = IF j = i THEN FreeCow ELSE cow[j]
      /\ \A r \in Requests : req'[r] = IF r = b THEN Replied(st) ELSE req[r]
      /\ Replied(st).pc = "idle" /\ Replied(st).op = "none"
  BY <1>1, <1>2 DEF Replied, IdleRequest
<1>4. req[b].pc = "cow" /\ \A j \in CowIds \ {i} : cow[j].pc # "free" => cow[j].r # b
  BY <1>2 DEF Known, DeviceInv, UseShape, RequestShape
<1>5. \A j \in CowIds : cow'[j].pc # "free" => j # i /\ cow'[j] = cow[j]
  BY <1>1, <1>3
<1>6. RequestShape'
  <2>1. \A r \in Requests :
          /\ req'[r].pc = "idle" => req'[r].op = "none"
          /\ req'[r].pc \in {"cow", "parked"} => req'[r].op = "write"
          /\ req'[r].pc = "fly" => req'[r].op \in {"read", "write"}
    BY <1>3 DEF Known, DeviceInv, UseShape, RequestShape
  <2>2. ASSUME NEW j \in CowIds, cow'[j].pc # "free"
        PROVE  req'[cow'[j].r].pc = "cow" /\ req'[cow'[j].r].L = cow'[j].L
    <3>1. j # i /\ cow'[j] = cow[j] /\ cow[j].r \in Requests /\ cow[j].r # b
      BY <1>4, <1>5, <2>2 DEF Known, SnapInv, CowShape
    <3> QED
      BY <1>3, <2>2, <3>1 DEF Known, DeviceInv, UseShape, RequestShape
  <2>3. \A j, k \in CowIds :
          cow'[j].pc # "free" /\ cow'[k].pc # "free" /\ cow'[j].r = cow'[k].r => j = k
    BY <1>5 DEF Known, DeviceInv, UseShape, RequestShape
  <2> QED
    BY <2>1, <2>2, <2>3 DEF RequestShape
<1>7. \A M : Settled(M) => Settled(M)'
  BY <1>5 DEF Settled, Busy, Shared
<1>8. FlyShape'
  <2>1. ASSUME NEW r \in Requests, req'[r].pc = "fly", req'[r].op = "write"
        PROVE  req'[r].P = origin'[req'[r].L] /\ Settled(req[r].L)' /\ req'[r] = req[r]
    <3>1. req'[r] = req[r] /\ r # b
      BY <1>3, <2>1
    <3>2. req[r].P = origin[req[r].L] /\ Settled(req[r].L)
      BY <2>1, <3>1 DEF Known, DeviceInv, UseShape, FlyShape
    <3>3. PICK M : M = req[r].L
      OBVIOUS
    <3>4. Settled(M)'
      BY <1>7, <3>2, <3>3
    <3> QED
      BY <3>1, <3>2, <3>3, <3>4 DEF Settled, Shared, Busy
  <2>2. ASSUME NEW L \in Origin, disc'[L].pc = "fly", NEW M \in L..disc'[L].last
        PROVE  origin'[M] = disc'[L].first + (M - L) /\ Settled(M)'
    BY <1>7, <2>2 DEF Known, DeviceInv, UseShape, FlyShape
  <2> QED
    BY <2>1, <2>2 DEF FlyShape
<1>9. BufShape'
  <2> SUFFICES ASSUME NEW j \in CowIds, cow'[j].pc # "free"
               PROVE  /\ cow'[j].pc = "write" =>
                           cow'[j].buf = Written(disk'[cow'[j].oldP], req'[cow'[j].r])
                      /\ cow'[j].pc = "pend" /\ cow'[j].ok /\ ~(Inside(j)' /\ worker'.pc = "finish") =>
                           disk'[cow'[j].newP] = Written(disk'[cow'[j].oldP], req'[cow'[j].r])
    BY DEF BufShape
  <2>1. j # i /\ cow'[j] = cow[j] /\ cow[j].r \in Requests /\ cow[j].r # b
    BY <1>4, <1>5 DEF Known, SnapInv, CowShape
  <2>2. req'[cow[j].r] = req[cow[j].r]
    BY <1>3, <2>1
  <2>3. Inside(j) /\ worker.pc = "finish" => Inside(j)' /\ worker'.pc = "finish"
    BY <2>1 DEF Inside, Acting, Next1
  <2> QED
    BY <2>1, <2>2, <2>3 DEF Known, DeviceInv, BufShape
<1>10. WaitShape'
  <2>0. a \in Agents
    BY Constants
  <2>1. /\ Apart(cow', overflow', again')
        /\ \A x : Waits(cow', overflow', again', x) => Waits(cow, overflow, again, x)
    BY <2>0, FinishWaits
  <2>2. ASSUME NEW x, Waits(cow, overflow, again, x) PROVE Parked(x)'
    <3>1. Parked(x)
      BY <2>2 DEF Known, DeviceInv, WaitShape
    <3> QED
      BY <1>3, <1>4, <3>1 DEF Parked
  <2>3. Apart(cow, overflow, again)' /\ \A x : Waits(cow, overflow, again, x)' => Parked(x)'
    BY <2>1, <2>2 DEF Apart, Waits
  <2> QED
    BY <2>3 DEF WaitShape
<1>11. DiscardShape'
  BY DEF Known, DeviceInv, UseShape, DiscardShape
<1> QED
  BY <1>6, <1>8, <1>9, <1>10, <1>11 DEF DeviceInv, UseShape

\* The commit worker drops a copy from its batch, or ends it with its head.
LEMMA FinishSteps ==
  ASSUME Known, CommitDropFailed \/ FinishRedirect \/ (CommitFailed /\ Next1 # Command)
  PROVE  /\ DeviceInv' /\ UNCHANGED <<origin, snaps, exc, disk, disc>>
         /\ \E i \in CowIds, st \in {"ok", "error"}, undo \in BOOLEAN :
              /\ cow[i].pc = "pend" /\ FinishCow(i, st, undo, CommitWorker)
              /\ FinishRedirect => Inside(i) /\ worker.pc = "finish" /\ st = "ok"
              /\ ~FinishRedirect => ~(Inside(i) /\ worker.pc = "finish") /\ st = "error"
<1>1. UNCHANGED <<origin, snaps, exc, disk, disc>>
  BY DEF CommitDropFailed, FinishRedirect, CommitFailed
<1>2. CASE CommitDropFailed
  <2>1. worker.pc = "build"
    BY <1>2 DEF CommitDropFailed
  <2>2. PICK k \in Failed : \A m \in Failed : k <= m
    <3>1. Failed # {} /\ Failed \in SUBSET Nat
      <4>1. worker.batch \in Seq(Ops)
        BY DEF Known, SnapInv, Types, WorkerRecords
      <4>2. DOMAIN worker.batch \subseteq Nat
        BY <4>1, LenProperties
      <4> QED
        BY <1>2, <4>2 DEF CommitDropFailed, Failed
    <3> QED
      BY <3>1, FirstExists
  <2>3. FinishCow(worker.batch[CHOOSE j \in Failed : \A m \in Failed : j <= m], "error", TRUE, CommitWorker)
    BY <1>2 DEF CommitDropFailed
  <2>4. PICK f \in Failed : FinishCow(worker.batch[f], "error", TRUE, CommitWorker)
    BY <2>2, <2>3
  <2>5. PICK i \in CowIds : i = worker.batch[f] /\ cow[i].pc = "pend"
    <3>1. f \in DOMAIN worker.batch /\ worker.batch[f] # Command /\ worker.batch \in Seq(Ops)
      BY DEF Failed, Known, SnapInv, Types, WorkerRecords
    <3>2. worker.batch[f] \in Ops
      BY <3>1, ElementOfSeq, LenProperties
    <3> QED
      BY <3>1, <3>2, Constants DEF Ops, In, Known, SnapInv, WorkerShape, Lists
  <2>6. RecordShape'
    <3>1. worker'.pc = "build"
      BY <1>2, <2>1 DEF CommitDropFailed, Known, SnapInv, Types, WorkerRecords
    <3> QED
      BY <3>1 DEF RecordShape
  <2>7. DeviceInv'
    BY <1>1, <2>1, <2>4, <2>5, <2>6, FinishDevice
  <2>8. ~FinishRedirect
    BY <2>1 DEF FinishRedirect
  <2> QED
    BY <1>1, <2>1, <2>4, <2>5, <2>7, <2>8
<1>3. CASE FinishRedirect \/ (CommitFailed /\ Next1 # Command)
  <2>1. worker.pc \in {"apply", "finish"} /\ worker.batch # <<>> /\ Next1 # Command
        /\ (FinishRedirect <=> worker.pc = "finish")
    BY <1>3 DEF FinishRedirect, CommitFailed, Known, SnapInv, WorkerShape
  <2>2. PICK i \in CowIds : i = Next1 /\ cow[i].pc = "pend"
    BY <2>1, BatchHead DEF Known, SnapInv
  <2>3. PICK st \in {"ok", "error"}, undo \in BOOLEAN :
          FinishCow(i, st, undo, CommitWorker) /\ (st = "ok" <=> worker.pc = "finish")
    BY <1>3, <2>1, <2>2 DEF FinishRedirect, CommitFailed
  <2>4. Advances
    <3>1. NextOperation
      BY <1>3 DEF FinishRedirect, CommitFailed
    <3> QED
      BY <2>1, <3>1, NextOperationAdvances DEF Known, SnapInv
  <2>5. RecordShape'
    <3>1. \A j \in CowIds : cow'[j].ok = cow[j].ok \/ cow'[j].ok
      BY <2>3 DEF FinishCow, FreeCow, Known, SnapInv, Types
    <3> QED
      BY <2>1, <2>4, <3>1, AdvancesRecord
  <2>6. DeviceInv'
    BY <1>1, <2>2, <2>3, <2>5, FinishDevice
  <2> QED
    BY <1>1, <2>1, <2>2, <2>3, <2>6 DEF Inside, Acting
<1> QED
  BY <1>2, <1>3

LEMMA CommitFailedCommand ==
  ASSUME Known, CommitFailed, Next1 = Command
  PROVE  DeviceInv' /\ UNCHANGED <<origin, snaps, exc, cow, disk, req, disc>>
<1>1. /\ UNCHANGED <<origin, snaps, exc, cow, overflow, again, disk, req, disc>>
      /\ worker.pc = "apply" /\ Advances
  BY CommitFailedKeeps DEF CommitFailed, Known
<1>2. RecordShape'
  BY <1>1, AdvancesRecord
<1>3. ~Acting /\ ~Acting'
  BY <1>1 DEF Acting, Advances
<1> QED
  BY <1>1, <1>2, <1>3, StillDevice

LEMMA UnholdDevice ==
  ASSUME Known, Unhold
  PROVE  DeviceInv' /\ UNCHANGED <<origin, snaps, exc, cow, disk, req, disc>>
<1>1. UNCHANGED <<origin, snaps, exc, cow, disk, req, disc, worker>>
  BY DEF Unhold, maps, users
<1>2. UseShape' /\ BufShape' /\ RecordShape'
  BY <1>1 DEF Known, DeviceInv, UseShape, RequestShape, DiscardShape, FlyShape, BufShape, RecordShape,
              Settled, Shared, Busy, Inside, Acting, Next1
<1>3. WaitShape'
  <2>1. /\ Apart(cow', overflow', again')
        /\ \A x : Waits(cow', overflow', again', x) => Parked(x)
    BY UnholdWaits DEF Known, DeviceInv, WaitShape
  <2> QED
    BY <1>1, <2>1 DEF WaitShape, Apart, Waits, Parked
<1> QED
  BY <1>1, <1>2, <1>3 DEF DeviceInv

-----------------------------------------------------------------------------
(* A copy goes on                                                           *)

SameWork ==
  \A j \in CowIds : /\ cow'[j].pc = "free" <=> cow[j].pc = "free"
                    /\ cow'[j].r = cow[j].r /\ cow'[j].L = cow[j].L
                    /\ cow'[j].waiters = cow[j].waiters

LEMMA CopyGoesOn ==
  ASSUME Known, UNCHANGED <<origin, snaps, exc, overflow, again, req, disc>>, SameWork
  PROVE  UseShape' /\ WaitShape'
<1> USE DEF SameWork
<1>1. \A L : /\ Shared(L)' <=> Shared(L)
             /\ Busy(L)' <=> Busy(L)
  BY DEF Shared, Busy
<1>2. RequestShape'
  BY DEF Known, DeviceInv, UseShape, RequestShape
<1>3. DiscardShape' /\ FlyShape'
  BY <1>1 DEF Known, DeviceInv, UseShape, DiscardShape, FlyShape, Settled
<1>4. WaitShape'
  BY DEF Known, DeviceInv, WaitShape, Parked, Apart, Waits
<1> QED
  BY <1>2, <1>3, <1>4 DEF UseShape

LEMMA CowAllocDevice ==
  ASSUME Known, NEW i \in CowIds, CowAlloc(i)
  PROVE  /\ DeviceInv' /\ UNCHANGED <<origin, snaps, exc, disk, disc>>
         /\ \/ FinishCow(i, "error", FALSE, i)
            \/ /\ req' = req
               /\ \E c \in CowRecords : /\ cow' = [cow EXCEPT ![i] = c] /\ c.r = cow[i].r
                                        /\ c.newP \in Free
<1>1. /\ cow[i].pc = "work" /\ UNCHANGED <<origin, snaps, exc, worker, disk, disc>>
      /\ cow \in [CowIds -> CowRecords]
  BY DEF CowAlloc, Known, SnapInv, Types
<1>2. CASE FinishCow(i, "error", FALSE, i)
  <2>1. \A j \in CowIds : cow'[j].ok = cow[j].ok \/ cow'[j].ok
    BY <1>1, <1>2 DEF FinishCow, FreeCow
  <2>2. RecordShape'
    BY <1>1, <2>1 DEF Known, DeviceInv, RecordShape
  <2> QED
    BY <1>1, <1>2, <2>2, FinishDevice
<1>3. ASSUME NEW P \in Free,
             cow' = [cow EXCEPT ![i].pc = "read", ![i].newP = P, ![i].oldP = origin[cow[i].L]],
             UNCHANGED <<overflow, again, ending, req>>
      PROVE  /\ DeviceInv'
             /\ \E c \in CowRecords : /\ cow' = [cow EXCEPT ![i] = c] /\ c.r = cow[i].r
                                      /\ c.newP \in Free
  <2> DEFINE c == [cow[i] EXCEPT !.pc = "read", !.newP = P, !.oldP = origin[cow[i].L]]
  <2>1. /\ c \in CowRecords /\ c.r = cow[i].r /\ c.L = cow[i].L /\ c.waiters = cow[i].waiters
        /\ c.ok = cow[i].ok /\ c.pc = "read" /\ c.newP = P
    BY <1>1 DEF CowRecords, CowPhases, RowOrNone, Free, Known, SnapInv, Types
  <2>2. cow' = [cow EXCEPT ![i] = c]
    BY <1>1, <1>3
  <2> HIDE DEF c
  <2>3. \A j \in CowIds : cow'[j] = IF j = i THEN c ELSE cow[j]
    BY <1>1, <2>2
  <2>4. UseShape' /\ WaitShape'
    BY <1>1, <1>3, <2>1, <2>3, CopyGoesOn DEF SameWork
  <2>5. BufShape'
    BY <1>1, <1>3, <2>1, <2>3 DEF Known, DeviceInv, BufShape, Inside, Acting, Next1
  <2>6. RecordShape'
    BY <1>1, <2>1, <2>3 DEF Known, DeviceInv, RecordShape
  <2> QED
    BY <2>1, <2>2, <2>4, <2>5, <2>6 DEF DeviceInv
<1>4. \/ FinishCow(i, "error", FALSE, i)
      \/ \E P \in Free :
           /\ cow' = [cow EXCEPT ![i].pc = "read", ![i].newP = P, ![i].oldP = origin[cow[i].L]]
           /\ UNCHANGED <<overflow, again, ending, req>>
  BY DEF CowAlloc
<1> QED
  BY <1>1, <1>2, <1>3, <1>4

\* The new row of a copy is nobody else's: no row of the origin, no other copy's.
LEMMA NewRowApart ==
  ASSUME Known, NEW i \in CowIds, cow[i].pc \in {"read", "write"}
  PROVE  /\ cow[i].newP \in Physical /\ cow[i].oldP = origin[cow[i].L] /\ cow[i].oldP # cow[i].newP
         /\ \A M \in Origin : origin[M] # cow[i].newP
         /\ \A g \in Slots, M \in Origin : ~SHas(g, M, cow[i].newP)
         /\ \A j \in CowIds \ {i} : cow[j].pc \in HasRows /\ ~(Inside(j) /\ worker.pc = "finish") =>
              cow[j].newP # cow[i].newP /\ cow[j].oldP # cow[i].newP
<1>1. cow[i].pc \in HasRows /\ ~Inside(i)
  BY InsideIsPending DEF HasRows, Known
<1>2. PICK P \in Physical : P = cow[i].newP /\ CHas(i, P) /\ Once(P)
  BY <1>1, CopyRow DEF Known, OwnInv, OwnShape
<1>3. cow[i].oldP = origin[cow[i].L] /\ cow[i].oldP # P
  BY <1>1, <1>2 DEF Known, OwnInv, CopyShape
<1>4. \A M \in Origin : origin[M] # P
  BY <1>2 DEF Once, OHas
<1>5. \A g \in Slots, M \in Origin : ~SHas(g, M, P)
  BY <1>2 DEF Once
<1>6. ASSUME NEW j \in CowIds \ {i}, cow[j].pc \in HasRows, ~(Inside(j) /\ worker.pc = "finish")
      PROVE  cow[j].newP # P /\ cow[j].oldP # P
  <2>1. CHas(j, cow[j].newP) /\ cow[j].L \in Origin
    BY <1>6, CopyRow DEF Known
  <2>2. cow[j].oldP = origin[cow[j].L]
    BY <1>6 DEF Known, OwnInv, CopyShape
  <2> QED
    BY <1>2, <1>4, <2>1, <2>2 DEF Once
<1> QED
  BY <1>2, <1>3, <1>4, <1>5, <1>6

LEMMA CowIoDevice ==
  ASSUME Known, NEW i \in CowIds, CowRead(i) \/ CowWrite(i)
  PROVE  /\ DeviceInv' /\ UNCHANGED <<origin, snaps, exc, req, disc>>
         /\ cow[i].pc \in {"read", "write"}
         /\ \A j \in CowIds \ {i} : cow'[j] = cow[j]
         /\ cow'[i].r = cow[i].r /\ cow'[i].newP = cow[i].newP /\ cow'[i].L = cow[i].L
         /\ \A P \in Physical : P # cow[i].newP => disk'[P] = disk[P]
<1>1. /\ cow[i].pc \in {"read", "write"} /\ UNCHANGED <<origin, snaps, exc, overflow, again, req, disc, worker>>
      /\ cow \in [CowIds -> CowRecords] /\ disk \in [Physical -> Pairs]
  BY DEF CowRead, CowWrite, Known, SnapInv, Types, maps, users
<1>2. /\ cow[i].newP \in Physical /\ cow[i].oldP \in Physical /\ cow[i].oldP # cow[i].newP
      /\ ~Inside(i) /\ cow[i].r \in Requests
  BY <1>1, NewRowApart, CopyRow, InsideIsPending DEF HasRows, Known, SnapInv, CowShape
<1>3. /\ \A j \in CowIds \ {i} : cow'[j] = cow[j]
      /\ cow'[i].pc \in {"write", "pend"}
      /\ cow'[i].r = cow[i].r /\ cow'[i].L = cow[i].L /\ cow'[i].waiters = cow[i].waiters
      /\ cow'[i].oldP = cow[i].oldP /\ cow'[i].newP = cow[i].newP
  BY <1>1 DEF CowRead, CowWrite, Fail, CowRecords
<1>4. \A P \in Physical : P # cow[i].newP => disk'[P] = disk[P]
  BY <1>1 DEF CowRead, CowWrite
<1>5. /\ cow'[i].pc = "write" => cow'[i].buf = Written(disk'[cow[i].oldP], req[cow[i].r])
      /\ cow'[i].pc = "pend" /\ cow'[i].ok =>
           disk'[cow[i].newP] = Written(disk'[cow[i].oldP], req[cow[i].r])
  <2>1. CASE cow[i].pc = "read"
    <3>1. \/ /\ cow'[i].pc = "write"
             /\ cow'[i].buf = Written(disk[cow[i].oldP], req[cow[i].r])
          \/ cow'[i].pc = "pend" /\ ~cow'[i].ok
      BY <1>1, <2>1 DEF CowRead, CowWrite, Fail, CowRecords
    <3>2. disk' = disk
      BY <2>1 DEF CowRead, CowWrite
    <3> QED
      BY <3>1, <3>2
  <2>2. CASE cow[i].pc = "write"
    <3>1. /\ cow'[i].pc = "pend"
          /\ ~cow'[i].ok \/ disk' = [disk EXCEPT ![cow[i].newP] = cow[i].buf]
      BY <1>1, <2>2 DEF CowRead, CowWrite, Fail, CowRecords
    <3>2. cow[i].buf = Written(disk[cow[i].oldP], req[cow[i].r])
      BY <2>2 DEF Known, DeviceInv, BufShape
    <3>3. disk'[cow[i].oldP] = disk[cow[i].oldP]
      BY <1>2, <1>4
    <3> QED
      BY <1>1, <1>2, <3>1, <3>2, <3>3
  <2> QED
    BY <1>1, <2>1, <2>2
<1>6. UseShape' /\ WaitShape'
  <2>1. SameWork
    BY <1>1, <1>3 DEF SameWork
  <2>2. UNCHANGED <<origin, snaps, exc, overflow, again, req, disc>>
    BY <1>1
  <2> QED
    BY <2>1, <2>2, CopyGoesOn
<1>7. BufShape'
  <2> SUFFICES ASSUME NEW j \in CowIds
               PROVE  /\ cow'[j].pc = "write" =>
                           cow'[j].buf = Written(disk'[cow'[j].oldP], req'[cow'[j].r])
                      /\ cow'[j].pc = "pend" /\ cow'[j].ok /\ ~(Inside(j)' /\ worker'.pc = "finish") =>
                           disk'[cow'[j].newP] = Written(disk'[cow'[j].oldP], req'[cow'[j].r])
    BY DEF BufShape
  <2>1. CASE j = i
    BY <1>1, <1>3, <1>5, <2>1
  <2>2. CASE j # i /\ cow[j].pc \in {"write", "pend"} /\ ~(Inside(j) /\ worker.pc = "finish")
    <3>1. /\ cow[j].pc \in HasRows
          /\ cow[j].newP # cow[i].newP /\ cow[j].oldP # cow[i].newP
      BY <1>1, <2>2, NewRowApart DEF HasRows
    <3>2. disk'[cow[j].newP] = disk[cow[j].newP] /\ disk'[cow[j].oldP] = disk[cow[j].oldP]
      BY <1>4, <3>1, CopyRow DEF Known
    <3> QED
      BY <1>1, <1>3, <2>2, <3>2 DEF Known, DeviceInv, BufShape
  <2>3. CASE j # i /\ ~(cow[j].pc \in {"write", "pend"} /\ ~(Inside(j) /\ worker.pc = "finish"))
    <3>1. cow'[j] = cow[j] /\ (Inside(j)' <=> Inside(j)) /\ worker' = worker
      BY <1>1, <1>3, <2>3 DEF Inside, Acting, Next1
    <3>2. cow[j].pc = "write" => ~Inside(j)
      BY InsideIsPending DEF Known
    <3> QED
      BY <2>3, <3>1, <3>2
  <2> QED
    BY <2>1, <2>2, <2>3
<1>8. RecordShape'
  <2>1. worker.pc \in {"apply", "half", "finish"} => ~In(i, worker.batch)
    BY <1>1 DEF Known, SnapInv, WorkerShape, Lists
  <2> QED
    BY <1>1, <1>3, <2>1 DEF Known, DeviceInv, RecordShape
<1> QED
  BY <1>1, <1>3, <1>4, <1>6, <1>7, <1>8 DEF DeviceInv

-----------------------------------------------------------------------------
(* A bio leaves the array                                                   *)

\* A row of the origin that no copy is about to move is no copy's.
LEMMA OriginRowApart ==
  ASSUME Known, NEW L \in Origin, ~Busy(L), NEW j \in CowIds, cow[j].pc \in HasRows,
         ~(Inside(j) /\ worker.pc = "finish")
  PROVE  cow[j].newP # origin[L] /\ cow[j].oldP # origin[L]
<1>1. PICK P \in Physical : P = origin[L] /\ Once(P)
  BY DEF Known, SnapInv, Types, OwnInv, OwnShape
<1>2. /\ cow[j].L \in Origin /\ cow[j].L # L /\ CHas(j, cow[j].newP)
      /\ cow[j].oldP = origin[cow[j].L]
  BY CopyRow DEF Known, Busy, HasRows, OwnInv, CopyShape
<1> QED
  BY <1>1, <1>2 DEF Once, OHas

\* Writes and trims inside the array leave the copies as they are.
LEMMA LeaveDevice ==
  ASSUME Known, UNCHANGED <<origin, snaps, exc, cow, overflow, again, worker>>,
         \A r \in Requests : \/ AlikeBio(req'[r], req[r])
                             \/ req[r].pc = "fly" /\ req'[r].pc = "idle" /\ req'[r].op = "none",
         disc' \in [Origin -> PieceRecords],
         \A L \in Origin : disc'[L] = disc[L] \/ (disc[L].pc = "fly" /\ disc'[L].pc = "idle"),
         \A P \in Physical : disk'[P] = disk[P] \/ \E M \in Origin : P = origin[M] /\ ~Busy(M)
  PROVE  DeviceInv'
<1>1. \A L : /\ Shared(L)' <=> Shared(L)
             /\ Busy(L)' <=> Busy(L)
  BY DEF Shared, Busy
<1>2. \A i \in CowIds : cow[i].pc # "free" =>
        /\ cow[i].r \in Requests /\ req[cow[i].r].pc = "cow"
        /\ AlikeBio(req'[cow[i].r], req[cow[i].r])
  BY DEF Known, DeviceInv, UseShape, RequestShape, SnapInv, CowShape
<1>3. RequestShape'
  BY <1>2 DEF Known, DeviceInv, UseShape, RequestShape, AlikeBio
<1>4. DiscardShape'
  BY DEF Known, DeviceInv, UseShape, DiscardShape
<1>5. FlyShape'
  <2>1. ASSUME NEW r \in Requests, req'[r].pc = "fly", req'[r].op = "write"
        PROVE  req'[r].P = origin[req'[r].L] /\ Settled(req'[r].L)
    <3>1. AlikeBio(req'[r], req[r])
      BY <2>1
    <3>2. req[r].pc = "fly" /\ req[r].op = "write" /\ req'[r].P = req[r].P /\ req'[r].L = req[r].L
      BY <2>1, <3>1 DEF AlikeBio
    <3> QED
      BY <3>2 DEF Known, DeviceInv, UseShape, FlyShape
  <2>2. ASSUME NEW L \in Origin, disc'[L].pc = "fly", NEW M \in L..disc'[L].last
        PROVE  origin[M] = disc'[L].first + (M - L) /\ Settled(M)
    BY <2>2 DEF Known, DeviceInv, UseShape, FlyShape
  <2> QED
    BY <1>1, <2>1, <2>2 DEF FlyShape, Settled
<1>6. BufShape'
  <2> SUFFICES ASSUME NEW j \in CowIds
               PROVE  /\ cow[j].pc = "write" => cow[j].buf = Written(disk'[cow[j].oldP], req'[cow[j].r])
                      /\ cow[j].pc = "pend" /\ cow[j].ok /\ ~(Inside(j) /\ worker.pc = "finish") =>
                           disk'[cow[j].newP] = Written(disk'[cow[j].oldP], req'[cow[j].r])
    BY DEF BufShape, Inside, Acting, Next1
  <2> SUFFICES ASSUME cow[j].pc \in {"write", "pend"}, ~(Inside(j) /\ worker.pc = "finish")
               PROVE  /\ disk'[cow[j].newP] = disk[cow[j].newP]
                      /\ \A old : Written(old, req'[cow[j].r]) = Written(old, req[cow[j].r])
                      /\ disk'[cow[j].oldP] = disk[cow[j].oldP]
    BY InsideIsPending DEF Known, DeviceInv, BufShape
  <2>1. cow[j].pc \in HasRows
    BY DEF HasRows
  <2>2. \A M \in Origin : ~Busy(M) => cow[j].newP # origin[M] /\ cow[j].oldP # origin[M]
    BY <2>1, OriginRowApart
  <2>3. cow[j].newP \in Physical /\ cow[j].oldP \in Physical
    BY <2>1, CopyRow DEF Known
  <2>4. AlikeBio(req'[cow[j].r], req[cow[j].r])
    BY <1>2, <2>1 DEF HasRows
  <2> QED
    BY <2>2, <2>3, <2>4 DEF AlikeBio, Written
<1>7. RecordShape'
  BY DEF Known, DeviceInv, RecordShape
<1>8. WaitShape'
  <2>1. \A x : Parked(x) => Parked(x)'
    BY DEF Parked, AlikeBio
  <2> QED
    BY <2>1 DEF Known, DeviceInv, WaitShape, Apart, Waits
<1> QED
  BY <1>3, <1>4, <1>5, <1>6, <1>7, <1>8 DEF DeviceInv, UseShape

\* A write goes to a row of the origin that nobody moves.
LEMMA PerformDevice ==
  ASSUME Known, NEW r \in Requests, Perform(r)
  PROVE  /\ DeviceInv' /\ UNCHANGED <<origin, snaps, exc, cow, disc>> /\ req[r].pc = "fly"
         /\ \A s \in Requests : s # r => AlikeBio(req'[s], req[s])
         /\ \/ /\ req[r].op = "read" /\ disk' = disk
               /\ req'[r].op = "none" /\ req'[r].st = "none"
            \/ /\ req[r].op = "write" /\ req'[r].op = "none" /\ req'[r].st = "ok"
               /\ \E L \in Origin : /\ L = req[r].L /\ Settled(L)
                                    /\ disk' = [disk EXCEPT ![origin[L]] = Written(@, req[r])]
<1>1. /\ UNCHANGED <<origin, snaps, exc, cow, overflow, again, worker, disc>>
      /\ req[r].pc = "fly" /\ req \in [Requests -> RequestRecords] /\ req[r].op \in {"read", "write"}
      /\ disk \in [Physical -> Pairs] /\ origin \in [Origin -> Physical]
  BY DEF Perform, maps, copies, workers, Known, SnapInv, Types, DeviceInv, UseShape, RequestShape
<1> DEFINE q == [req EXCEPT ![r] = IF Reading(r) THEN IdleRequest ELSE Replied("ok")]
<1>2. q \in [Requests -> RequestRecords] /\ req' = Observed(q)
  BY <1>1, FreshTypes DEF Perform
<1>3. \A s \in Requests : q[s] = IF s # r THEN req[s] ELSE
                                  IF Reading(r) THEN IdleRequest ELSE Replied("ok")
  BY <1>1
<1> HIDE DEF q
<1>4. AlikeBios(req', q)
  BY <1>2, ObservedAlike
<1>5. \A s \in Requests : s # r => AlikeBio(req'[s], req[s])
  BY <1>3, <1>4 DEF AlikeBios
<1>6. /\ req'[r].pc = "idle" /\ req'[r].op = "none"
      /\ req'[r].st = IF Reading(r) THEN "none" ELSE "ok"
  BY <1>3, <1>4 DEF AlikeBios, AlikeBio, IdleRequest, Replied
<1>7. CASE Reading(r)
  <2>1. disk' = disk
    BY <1>7 DEF Perform
  <2>2. DeviceInv'
    BY <1>1, <1>5, <1>6, <2>1, LeaveDevice DEF Known, DeviceInv, UseShape, DiscardShape
  <2> QED
    BY <1>1, <1>5, <1>6, <1>7, <2>1, <2>2 DEF Reading
<1>8. CASE ~Reading(r)
  <2>1. PICK L \in Origin : L = req[r].L
    BY <1>1 DEF RequestRecords
  <2>2. Settled(L) /\ req[r].P = origin[L]
    BY <1>1, <1>8, <2>1 DEF Known, DeviceInv, UseShape, FlyShape, Reading
  <2>3. disk' = [disk EXCEPT ![origin[L]] = Written(@, req[r])]
    BY <1>8, <2>2 DEF Perform
  <2>4. \A P \in Physical : P # origin[L] => disk'[P] = disk[P]
    BY <1>1, <2>3
  <2>5. ~Busy(L)
    BY <2>2 DEF Settled
  <2>6. DeviceInv'
    BY <1>1, <1>5, <1>6, <2>4, <2>5, LeaveDevice DEF Known, DeviceInv, UseShape, DiscardShape
  <2> QED
    BY <1>1, <1>5, <1>6, <1>8, <2>1, <2>2, <2>3, <2>6 DEF Reading
<1> QED
  BY <1>7, <1>8

LEMMA TrimDevice ==
  ASSUME Known, NEW L \in Origin, TrimRows(L)
  PROVE  /\ DeviceInv' /\ UNCHANGED <<origin, snaps, exc, cow>>
         /\ disc[L].pc = "fly" /\ disc' = [disc EXCEPT ![L] = IdleDiscard]
         /\ \A s \in Requests : AlikeBio(req'[s], req[s])
         /\ \A M \in L..disc[L].last : Settled(M)
         /\ \A P \in Physical :
              disk'[P] = IF \E M \in L..disc[L].last : P = origin[M] THEN <<Trim, Trim>> ELSE disk[P]
<1>1. /\ UNCHANGED <<origin, snaps, exc, cow, overflow, again, worker>>
      /\ disc[L].pc = "fly" /\ disc' = [disc EXCEPT ![L] = IdleDiscard]
      /\ req \in [Requests -> RequestRecords] /\ req' = Observed(req)
      /\ disc \in [Origin -> PieceRecords]
  BY DEF TrimRows, maps, copies, workers, Known, SnapInv, Types, DeviceInv, UseShape, DiscardShape
<1>2. \A s \in Requests : AlikeBio(req'[s], req[s])
  BY <1>1, ObservedAlike DEF AlikeBios
<1>3. PICK f \in Int, l \in L..(O - 1) : f = disc[L].first /\ l = disc[L].last
  BY <1>1 DEF Known, DeviceInv, UseShape, DiscardShape, PieceRecords
<1>4. \A M \in L..l : M \in Origin /\ origin[M] = f + (M - L) /\ Settled(M)
  BY <1>1, <1>3, Constants DEF Known, DeviceInv, UseShape, FlyShape, Origin
<1>5. disk' = [P \in Physical |-> IF P \in f..(f + l - L) THEN <<Trim, Trim>> ELSE disk[P]]
  BY <1>3 DEF TrimRows
<1>6. ASSUME NEW P \in Physical PROVE P \in f..(f + l - L) <=> \E M \in L..l : P = origin[M]
  <2>1. L \in Int /\ l \in Int /\ P \in Int
    BY <1>3, Constants DEF Origin, Physical
  <2>2. ASSUME P \in f..(f + l - L) PROVE L + (P - f) \in L..l /\ P = origin[L + (P - f)]
    <3>1. L + (P - f) \in L..l /\ f + ((L + (P - f)) - L) = P
      BY <2>1, <2>2
    <3> QED
      BY <1>4, <3>1
  <2>3. ASSUME NEW M \in L..l, P = origin[M] PROVE P \in f..(f + l - L)
    <3>1. P = f + (M - L)
      BY <1>4, <2>3
    <3> QED
      BY <2>1, <2>3, <3>1
  <2> QED
    BY <2>2, <2>3
<1>7. \A P \in Physical :
        disk'[P] = IF \E M \in L..l : P = origin[M] THEN <<Trim, Trim>> ELSE disk[P]
  BY <1>5, <1>6
<1>8. DeviceInv'
  <2>1. disc' \in [Origin -> PieceRecords] /\ disc'[L].pc = "idle"
        /\ \A M \in Origin : M # L => disc'[M] = disc[M]
    BY <1>1, Constants DEF IdleDiscard, PieceRecords, None
  <2>2. \A P \in Physical : disk'[P] = disk[P] \/ \E M \in Origin : P = origin[M] /\ ~Busy(M)
    BY <1>4, <1>7 DEF Settled
  <2> QED
    BY <1>1, <1>2, <2>1, <2>2, LeaveDevice
<1> QED
  BY <1>1, <1>2, <1>3, <1>4, <1>7, <1>8

-----------------------------------------------------------------------------
(* Bios are mapped                                                          *)

\* The copies as they are, but for the bios that wait; bios that enter the array
\* go to rows nobody moves.
LEMMA MappedDevice ==
  ASSUME Known, UNCHANGED <<origin, snaps, exc, disk, worker>>,
         \A i \in CowIds : Alike(cow'[i], cow[i]) /\ cow'[i].buf = cow[i].buf,
         \A r \in Requests :
           /\ req[r].pc = "cow" => req'[r] = req[r]
           /\ req'[r] = req[r] \/
                /\ req'[r].pc = "idle" => req'[r].op = "none"
                /\ req'[r].pc = "parked" => req'[r].op = "write"
                /\ req'[r].pc = "fly" => req'[r].op \in {"read", "write"}
                /\ req'[r].pc = "fly" /\ req'[r].op = "write" =>
                     req'[r].P = origin[req'[r].L] /\ Settled(req'[r].L)
                /\ req'[r].pc # "cow",
         DiscardShape',
         \A L \in Origin : disc'[L].pc = "fly" =>
           \A M \in L..disc'[L].last : origin[M] = disc'[L].first + (M - L) /\ Settled(M),
         WaitShape'
  PROVE  DeviceInv'
<1>1. \A L : /\ Shared(L)' <=> Shared(L)
             /\ Busy(L)' <=> Busy(L)
  BY DEF Shared, Busy, Alike
<1>2. \A i \in CowIds : cow[i].pc # "free" =>
        /\ cow[i].r \in Requests /\ req[cow[i].r].pc = "cow"
        /\ req'[cow[i].r] = req[cow[i].r]
  BY DEF Known, DeviceInv, UseShape, RequestShape, SnapInv, CowShape
<1>3. RequestShape'
  <2>1. \A r \in Requests :
          /\ req'[r].pc = "idle" => req'[r].op = "none"
          /\ req'[r].pc \in {"cow", "parked"} => req'[r].op = "write"
          /\ req'[r].pc = "fly" => req'[r].op \in {"read", "write"}
    BY DEF Known, DeviceInv, UseShape, RequestShape
  <2>2. \A i \in CowIds : cow'[i].pc # "free" =>
          req'[cow'[i].r].pc = "cow" /\ req'[cow'[i].r].L = cow'[i].L
    BY <1>2 DEF Known, DeviceInv, UseShape, RequestShape, Alike
  <2>3. \A i, j \in CowIds :
          cow'[i].pc # "free" /\ cow'[j].pc # "free" /\ cow'[i].r = cow'[j].r => i = j
    BY DEF Known, DeviceInv, UseShape, RequestShape, Alike
  <2> QED
    BY <2>1, <2>2, <2>3 DEF RequestShape
<1>4. FlyShape'
  <2>1. \A r \in Requests :
          req'[r].pc = "fly" /\ req'[r].op = "write" =>
            req'[r].P = origin[req'[r].L] /\ Settled(req'[r].L)
    BY DEF Known, DeviceInv, UseShape, FlyShape
  <2> QED
    BY <1>1, <2>1 DEF FlyShape, Settled
<1>5. BufShape'
  <2>1. \A i \in CowIds : cow'[i].buf = cow[i].buf /\ cow'[i].pc = cow[i].pc /\ cow'[i].ok = cow[i].ok
                          /\ cow'[i].oldP = cow[i].oldP /\ cow'[i].newP = cow[i].newP
                          /\ cow'[i].r = cow[i].r
    BY DEF Alike
  <2>2. BufShape /\ \A i : Inside(i)' <=> Inside(i)
    BY DEF Known, DeviceInv, Inside, Acting, Next1
  <2> QED
    BY <1>2, <2>1, <2>2 DEF BufShape
<1>6. RecordShape'
  BY DEF Known, DeviceInv, RecordShape, Alike
<1> QED
  BY <1>3, <1>4, <1>5, <1>6 DEF DeviceInv, UseShape

\* The first copy: the one the bios of a row wait for.
LEMMA CowOfBusy ==
  ASSUME NEW L, Busy(L)
  PROVE  CowOf(L) \in CowIds /\ cow[CowOf(L)].pc # "free" /\ cow[CowOf(L)].L = L
BY DEF Busy, CowOf

\* What request r has been told of its write w.
LEMMA MapWriteDevice ==
  ASSUME Known, NEW r \in Requests, NEW w \in RequestRecords, w.op = "write", MapWrite(r, w),
         req[r].pc \in {"idle", "parked"}, UNCHANGED <<disk, disc, worker>>,
         Apart(cow, overflow, again'), ~Waits(cow, overflow, again', r),
         \A x : Waits(cow, overflow, again', x) => Parked(x)
  PROVE  /\ DeviceInv' /\ UNCHANGED <<origin, snaps, exc>>
         /\ \E x \in RequestRecords :
              /\ req' = [req EXCEPT ![r] = x]
              /\ \/ x = Replied("error")
                 \/ x.op = "write" /\ x.L = w.L /\ x.whole = w.whole /\ x.val = w.val
<1>1. /\ UNCHANGED <<origin, snaps, exc>>
      /\ cow \in [CowIds -> CowRecords] /\ req \in [Requests -> RequestRecords]
      /\ overflow \in Bios /\ origin \in [Origin -> Physical] /\ w.L \in Origin
  BY MapWriteTypes DEF Known, SnapInv, Types, RequestRecords
<1>2. \A i \in CowIds : Alike(cow[i], cow[i])
  BY DEF Alike
<1>3. DiscardShape' /\ \A L \in Origin : disc'[L].pc = "fly" =>
           \A M \in L..disc'[L].last : origin[M] = disc'[L].first + (M - L) /\ Settled(M)
  BY DEF Known, DeviceInv, UseShape, DiscardShape, FlyShape
\* Nobody waits on w, and the others wait as before.
<1>4. ASSUME NEW x, req' = [req EXCEPT ![r] = x], UNCHANGED <<cow, overflow>> PROVE WaitShape'
  <2>1. \A y : Waits(cow, overflow, again', y) => Parked(y)'
    BY <1>1, <1>4 DEF Parked
  <2> QED
    BY <1>4, <2>1 DEF WaitShape, Apart, Waits
<1>5. CASE Remap(r, w) /\ ~Busy(w.L) /\ ~Shared(w.L)
  <2> DEFINE x == [w EXCEPT !.pc = "fly", !.P = origin[w.L]]
  <2>1. /\ x \in RequestRecords /\ x.pc = "fly" /\ x.op = "write" /\ x.L = w.L
        /\ x.whole = w.whole /\ x.val = w.val /\ x.P = origin[x.L] /\ Settled(x.L)
    BY <1>1, <1>5 DEF RequestRecords, RowOrNone, Settled
  <2>2. req' = [req EXCEPT ![r] = x] /\ UNCHANGED <<cow, overflow>>
    BY <1>5 DEF Remap, copies
  <2> HIDE DEF x
  <2>3. \A s \in Requests : req'[s] = IF s = r THEN x ELSE req[s]
    BY <1>1, <2>2
  <2>4. DeviceInv'
    BY <1>1, <1>2, <1>3, <1>4, <2>1, <2>2, <2>3, MappedDevice
  <2> QED
    BY <1>1, <2>1, <2>2, <2>4
<1>6. CASE Refuse(r)
  <2>1. req' = [req EXCEPT ![r] = Replied("error")] /\ UNCHANGED <<cow, overflow>>
    BY <1>6 DEF Refuse, copies
  <2>2. /\ Replied("error") \in RequestRecords
        /\ Replied("error").pc = "idle" /\ Replied("error").op = "none"
    BY FreshTypes DEF Replied, IdleRequest
  <2>3. \A s \in Requests : req'[s] = IF s = r THEN Replied("error") ELSE req[s]
    BY <1>1, <2>1
  <2>4. DeviceInv'
    BY <1>1, <1>2, <1>3, <1>4, <2>1, <2>2, <2>3, MappedDevice
  <2> QED
    BY <1>1, <2>1, <2>2, <2>4
<1>7. CASE /\ Park(r, w)
           /\ \/ \E i \in CowIds : cow' = [cow EXCEPT ![i].waiters = Append(@, r)] /\ overflow' = overflow
              \/ overflow' = Append(overflow, r) /\ cow' = cow
  <2> DEFINE x == [w EXCEPT !.pc = "parked", !.P = None]
  <2>1. /\ x \in RequestRecords /\ x.pc = "parked" /\ x.op = "write" /\ x.L = w.L
        /\ x.whole = w.whole /\ x.val = w.val
    BY <1>1 DEF RequestRecords, RowOrNone
  <2>2. req' = [req EXCEPT ![r] = x]
    BY <1>7 DEF Park
  <2> HIDE DEF x
  <2>3. \A s \in Requests : req'[s] = IF s = r THEN x ELSE req[s]
    BY <1>1, <2>2
  <2>4. \A y : Parked(y) \/ y = r => Parked(y)'
    BY <2>1, <2>3 DEF Parked
  <2>5. /\ Apart(cow', overflow', again')
        /\ \A y : Waits(cow', overflow', again', y) => Waits(cow, overflow, again', y) \/ y = r
    <3>1. CASE \E i \in CowIds : cow' = [cow EXCEPT ![i].waiters = Append(@, r)] /\ overflow' = overflow
      BY <1>1, <3>1, JoinCopy
    <3>2. CASE overflow' = Append(overflow, r) /\ cow' = cow
      BY <1>1, <3>2, JoinOverflow
    <3> QED
      BY <1>7, <3>1, <3>2
  <2>6. WaitShape'
    <3>1. \A y : Waits(cow', overflow', again', y) => Parked(y)'
      BY <2>4, <2>5
    <3>2. Apart(cow, overflow, again)' /\ \A y : Waits(cow, overflow, again, y)' => Parked(y)'
      BY <2>5, <3>1 DEF Apart, Waits
    <3> QED
      BY <3>2 DEF WaitShape
  <2>7. \A i \in CowIds : Alike(cow'[i], cow[i]) /\ cow'[i].buf = cow[i].buf
    BY <1>1, <1>7 DEF Alike, CowRecords
  <2>8. DeviceInv'
    BY <1>1, <1>3, <2>1, <2>3, <2>6, <2>7, MappedDevice
  <2> QED
    BY <1>1, <2>1, <2>2, <2>8
<1>8. CASE StartCow(r, w) /\ IdleCows # {} /\ Shared(w.L) /\ ~Busy(w.L)
  <2>1. UNCHANGED overflow /\ req' = [req EXCEPT ![r] = [w EXCEPT !.pc = "cow", !.P = None]]
    BY <1>8 DEF StartCow
  <2> DEFINE x == [w EXCEPT !.pc = "cow", !.P = None]
  <2>2. /\ x \in RequestRecords /\ x.pc = "cow" /\ x.op = "write" /\ x.L = w.L
        /\ x.whole = w.whole /\ x.val = w.val
    BY <1>1 DEF RequestRecords, RowOrNone
  <2>3. req' = [req EXCEPT ![r] = x]
    BY <2>1
  <2> HIDE DEF x
  <2>4. \A s \in Requests : req'[s] = IF s = r THEN x ELSE req[s]
    BY <1>1, <2>3
  <2>4a. PICK i \in CowIds : \E d :
        /\ cow[i].pc = "free" /\ cow' = [cow EXCEPT ![i] = d]
        /\ d.r = r /\ d.L = w.L /\ d.waiters = <<>> /\ d.ok
        /\ d.pc = "work" \/ (d.pc = "write" /\ w.whole /\ d.buf = <<w.val, w.val>>)
    <3> DEFINE i == CHOOSE j \in IdleCows : \A k \in IdleCows : j <= k
               c == [FreeCow EXCEPT !.r = r, !.L = w.L]
    <3>1. i \in CowIds /\ cow[i].pc = "free"
      BY <1>8, FirstIdleCow
    <3>2. c.r = r /\ c.L = w.L /\ c.waiters = <<>> /\ c.ok /\ c \in CowRecords
      BY <1>1, FreshTypes DEF FreeCow, CowRecords
    <3>3. \/ w.whole /\ \E P : cow' = [cow EXCEPT ![i] = [c EXCEPT !.pc = "write", !.oldP = origin[w.L],
                                                         !.newP = P, !.buf = <<w.val, w.val>>]]
          \/ cow' = [cow EXCEPT ![i] = [c EXCEPT !.pc = "work"]]
      BY <1>8 DEF StartCow
    <3> HIDE DEF i, c
    <3>4. CASE cow' = [cow EXCEPT ![i] = [c EXCEPT !.pc = "work"]]
      <4>1. PICK d : d = [c EXCEPT !.pc = "work"]
        OBVIOUS
      <4>2. d.r = r /\ d.L = w.L /\ d.waiters = <<>> /\ d.ok /\ d.pc = "work"
        BY <3>2, <4>1 DEF CowRecords
      <4> QED
        BY <3>1, <3>4, <4>1, <4>2
    <3>5. CASE w.whole /\ \E P : cow' = [cow EXCEPT ![i] = [c EXCEPT !.pc = "write", !.oldP = origin[w.L],
                                                         !.newP = P, !.buf = <<w.val, w.val>>]]
      <4>1. PICK P : cow' = [cow EXCEPT ![i] = [c EXCEPT !.pc = "write", !.oldP = origin[w.L],
                                                         !.newP = P, !.buf = <<w.val, w.val>>]]
        BY <3>5
      <4>2. PICK d : d = [c EXCEPT !.pc = "write", !.oldP = origin[w.L],
                                   !.newP = P, !.buf = <<w.val, w.val>>]
        OBVIOUS
      <4>3. d.r = r /\ d.L = w.L /\ d.waiters = <<>> /\ d.ok /\ d.pc = "write" /\ d.buf = <<w.val, w.val>>
        BY <3>2, <4>2 DEF CowRecords
      <4> QED
        BY <3>1, <3>5, <4>1, <4>2, <4>3
    <3> QED
      BY <3>3, <3>4, <3>5
  <2>5. PICK d :
        /\ cow[i].pc = "free" /\ cow' = [cow EXCEPT ![i] = d]
        /\ d.r = r /\ d.L = w.L /\ d.waiters = <<>> /\ d.ok
        /\ d.pc = "work" \/ (d.pc = "write" /\ w.whole /\ d.buf = <<w.val, w.val>>)
    BY <2>4a
  <2>6. \A j \in CowIds : cow'[j] = IF j = i THEN d ELSE cow[j]
    BY <1>1, <2>5
  <2>7. \A j \in CowIds : cow[j].pc # "free" => j # i /\ cow[j].r # r /\ cow[j].r \in Requests
    BY <2>5 DEF Known, DeviceInv, UseShape, RequestShape, SnapInv, CowShape
  <2>8. RequestShape'
    <3>1. \A s \in Requests :
            /\ req'[s].pc = "idle" => req'[s].op = "none"
            /\ req'[s].pc \in {"cow", "parked"} => req'[s].op = "write"
            /\ req'[s].pc = "fly" => req'[s].op \in {"read", "write"}
      BY <2>2, <2>4 DEF Known, DeviceInv, UseShape, RequestShape
    <3>2. \A j \in CowIds : cow'[j].pc # "free" =>
            req'[cow'[j].r].pc = "cow" /\ req'[cow'[j].r].L = cow'[j].L
      BY <2>2, <2>4, <2>5, <2>6, <2>7 DEF Known, DeviceInv, UseShape, RequestShape
    <3>3. \A j, k \in CowIds :
            cow'[j].pc # "free" /\ cow'[k].pc # "free" /\ cow'[j].r = cow'[k].r => j = k
      BY <2>5, <2>6, <2>7 DEF Known, DeviceInv, UseShape, RequestShape
    <3> QED
      BY <3>1, <3>2, <3>3 DEF RequestShape
  <2>9. \A L : Settled(L) => Settled(L)'
    BY <1>1, <1>8, <2>5, <2>6 DEF Settled, Shared, Busy
  <2>10. FlyShape'
    <3>1. ASSUME NEW s \in Requests, req'[s].pc = "fly", req'[s].op = "write"
          PROVE  req'[s].P = origin'[req'[s].L] /\ Settled(req[s].L)' /\ req'[s] = req[s]
      <4>1. req'[s] = req[s]
        BY <2>2, <2>4, <3>1
      <4>2. req[s].P = origin[req[s].L] /\ Settled(req[s].L)
        BY <3>1, <4>1 DEF Known, DeviceInv, UseShape, FlyShape
      <4>3. PICK M : M = req[s].L
        OBVIOUS
      <4>4. Settled(M)'
        BY <2>9, <4>2, <4>3
      <4> QED
        BY <1>1, <4>1, <4>2, <4>3, <4>4 DEF Settled, Shared, Busy
    <3>2. ASSUME NEW L \in Origin, disc'[L].pc = "fly", NEW M \in L..disc'[L].last
          PROVE  origin'[M] = disc'[L].first + (M - L) /\ Settled(M)'
      BY <1>1, <1>3, <2>9, <3>2
    <3> QED
      BY <3>1, <3>2 DEF FlyShape
  <2>11. BufShape'
    <3> SUFFICES ASSUME NEW j \in CowIds
                 PROVE  /\ cow'[j].pc = "write" =>
                             cow'[j].buf = Written(disk[cow'[j].oldP], req'[cow'[j].r])
                        /\ cow'[j].pc = "pend" /\ cow'[j].ok /\ ~(Inside(j) /\ worker.pc = "finish") =>
                             disk[cow'[j].newP] = Written(disk[cow'[j].oldP], req'[cow'[j].r])
      BY DEF BufShape, Inside, Acting, Next1
    <3>1. CASE j = i
      BY <2>2, <2>4, <2>5, <2>6, <3>1 DEF Written
    <3>2. CASE j # i
      BY <2>4, <2>6, <2>7, <3>2 DEF Known, DeviceInv, BufShape
    <3> QED
      BY <3>1, <3>2
  <2>12. RecordShape'
    BY <2>5, <2>6 DEF Known, DeviceInv, RecordShape
  <2>13. WaitShape'
    <3>1. \A j \in CowIds : Distinct(cow'[j].waiters) /\ \A y : In(y, cow'[j].waiters) => In(y, cow[j].waiters)
      BY <2>5, <2>6, EmptyList DEF Apart
    <3>2. /\ \A b \in Agents : Distinct(again'[b])
          /\ Distinct(overflow)
      BY DEF Apart
    <3>3. Apart(cow', overflow, again') /\ \A y : Waits(cow', overflow, again', y) => Waits(cow, overflow, again', y)
      BY <3>1, <3>2, FewerWait
    <3>4. \A y : Waits(cow, overflow, again', y) => Parked(y)'
      BY <2>4 DEF Parked
    <3> QED
      BY <2>1, <3>3, <3>4 DEF WaitShape, Apart, Waits
  <2>14. DeviceInv'
    BY <1>3, <2>8, <2>10, <2>11, <2>12, <2>13 DEF DeviceInv, UseShape
  <2> QED
    BY <1>1, <2>2, <2>3, <2>14
<1>9. snaps = <<>> => ~Busy(w.L) /\ ~Shared(w.L)
  BY DEF Busy, Shared, Known, OwnInv, CopyShape
<1>10. ASSUME Busy(w.L), cow' = [cow EXCEPT ![CowOf(w.L)].waiters = Append(@, r)]
       PROVE  \E i \in CowIds : cow' = [cow EXCEPT ![i].waiters = Append(@, r)]
  BY <1>10, CowOfBusy
<1> QED
  BY <1>5, <1>6, <1>7, <1>8, <1>9, <1>10 DEF MapWrite

LEMMA RunIsFound ==
  ASSUME NEW L \in Origin, NEW last \in L..(O - 1)
  PROVE  /\ RunLength(L, last) \in 1..(last - L + 1)
         /\ ~Busy(L) => Run(L, RunLength(L, last))
<1>1. L \in Int /\ last \in Int /\ L <= last
  BY Constants
<1> DEFINE m == last - L + 1
           runs == {n \in 1..m : Run(L, n)}
           gaps == {k \in Nat : m - k \in runs}
<1>2. 1 \in runs /\ m \in Nat
  BY <1>1 DEF Run
<1>3. \E n \in runs : \A k \in runs : k <= n
  <2>1. m - 1 \in gaps
    BY <1>2
  <2>2. PICK k \in gaps : \A j \in gaps : k <= j
    <3>1. gaps \in SUBSET Nat /\ gaps # {}
      BY <2>1
    <3> HIDE DEF gaps
    <3> QED
      BY <3>1, FirstExists
  <2>3. \A n \in runs : m - n \in gaps
    BY <1>2
  <2>4. \A n \in runs : n <= m - k
    BY <1>2, <2>2, <2>3
  <2> QED
    BY <2>2, <2>4
<1>4. CASE Busy(L)
  BY <1>1, <1>4 DEF RunLength
<1>5. CASE ~Busy(L)
  <2>1. RunLength(L, last) = CHOOSE n \in runs : \A k \in runs : k <= n
    BY <1>5 DEF RunLength
  <2>2. RunLength(L, last) \in runs
    <3> HIDE DEF runs
    <3> QED
      BY <1>3, <2>1
  <2> QED
    BY <2>2
<1> QED
  BY <1>4, <1>5

\* The piece of a discard from row L to row last is cut: its front waits for the
\* copy of row L, is dropped, or enters the array; its rest is a piece of its own.
LEMMA MapDiscardDevice ==
  ASSUME Known, NEW L \in Origin, NEW last \in L..(O - 1), MapDiscard(L, last),
         UNCHANGED <<origin, snaps, exc, disk, worker, req, overflow>>,
         \A M \in Origin : disc[M].pc # "idle" /\ M < L => disc[M].last < L,
         \A M \in Origin : disc[M].pc # "idle" /\ M > L => M > last,
         Apart(cow, overflow, again'), ~Waits(cow, overflow, again', L),
         \A x : Waits(cow, overflow, again', x) => Parked(x)
  PROVE  /\ DeviceInv'
         /\ \A x \in Discarding' : x \in L..last \/ \E M \in Origin \ {L} :
              disc[M].pc # "idle" /\ x \in M..disc[M].last
<1> DEFINE n == RunLength(L, last)
<1>1. n \in 1..(last - L + 1) /\ (~Busy(L) => Run(L, n))
  BY RunIsFound
<1>2. /\ cow \in [CowIds -> CowRecords] /\ origin \in [Origin -> Physical] /\ overflow \in Bios
      /\ disc \in [Origin -> PieceRecords] /\ Origin = 0..(O - 1) /\ O \in Int
  BY Constants DEF Known, SnapInv, Types, DeviceInv, UseShape, DiscardShape, Origin
<1> DEFINE front == IF Busy(L) THEN [IdleDiscard EXCEPT !.pc = "parked", !.last = L]
                    ELSE IF Shared(L) THEN IdleDiscard
                    ELSE [pc |-> "fly", last |-> L + n - 1, first |-> origin[L]]
           rest == [IdleDiscard EXCEPT !.pc = "queued", !.last = last]
<1>3. \A M \in Origin : disc'[M] = IF M = L THEN front
                                   ELSE IF M = L + n /\ M <= last THEN rest ELSE disc[M]
  BY DEF MapDiscard
<1>4. disc' = [M \in Origin |-> IF M = L THEN front
                                   ELSE IF M = L + n /\ M <= last THEN rest ELSE disc[M]]
  BY DEF MapDiscard
<1>5. n \in Int /\ L \in Int /\ last \in Int /\ L + n - 1 <= last /\ n >= 1 /\ last <= O - 1
      /\ origin[L] \in Int
  <2>1. origin[L] \in Physical /\ Physical \subseteq Nat
    BY <1>2, Constants
  <2>2. origin[L] \in Int
    <3>1. PICK P \in Nat : P = origin[L]
      BY <2>1
    <3> QED
      BY <3>1
  <2>3. n \in 1..(last - L + 1) /\ L \in Int /\ O \in Int
    BY <1>1, <1>2
  <2> HIDE DEF n
  <2>4. last \in Int /\ last <= O - 1 /\ L <= last
    BY <2>3
  <2>5. n \in Int /\ n >= 1 /\ n <= last - L + 1
    BY <2>3, <2>4
  <2> QED
    BY <2>2, <2>3, <2>4, <2>5
<1>6. /\ front \in PieceRecords /\ rest \in PieceRecords
      /\ rest.pc = "queued" /\ rest.last = last
      /\ front.pc # "idle" => front.last \in L..(L + n - 1)
      /\ front.pc # "queued"
      /\ front.pc = "parked" <=> Busy(L)
      /\ front.pc = "fly" => /\ ~Busy(L) /\ ~Shared(L)
                             /\ front.last = L + n - 1 /\ front.first = origin[L]
  <2> HIDE DEF n
  <2>1. IdleDiscard \in PieceRecords /\ IdleDiscard.pc = "idle"
    BY DEF PieceRecords, IdleDiscard, None
  <2>2. rest \in PieceRecords /\ rest.pc = "queued" /\ rest.last = last
    BY <1>5, <2>1 DEF PieceRecords
  <2>3. CASE Busy(L)
    <3>1. front = [IdleDiscard EXCEPT !.pc = "parked", !.last = L]
      BY <2>3
    <3> HIDE DEF front
    <3>2. front \in PieceRecords /\ front.pc = "parked" /\ front.last = L
      BY <1>5, <2>1, <3>1 DEF PieceRecords
    <3> QED
      BY <1>5, <2>2, <2>3, <3>2
  <2>4. CASE ~Busy(L) /\ Shared(L)
    BY <2>1, <2>2, <2>4
  <2>5. CASE ~Busy(L) /\ ~Shared(L)
    <3>1. front = [pc |-> "fly", last |-> L + n - 1, first |-> origin[L]]
      BY <2>5
    <3> HIDE DEF front
    <3>2. front \in PieceRecords /\ front.pc = "fly" /\ front.last = L + n - 1 /\ front.first = origin[L]
      BY <1>5, <3>1 DEF PieceRecords
    <3> QED
      BY <1>5, <2>2, <2>5, <3>2
  <2> QED
    BY <2>3, <2>4, <2>5
<1> HIDE DEF n, front, rest
<1>7. disc' \in [Origin -> PieceRecords]
  BY <1>2, <1>4, <1>6
<1>8. \A M \in Origin : disc'[M].pc # "idle" =>
        \/ M = L /\ disc'[M].last \in L..(L + n - 1)
        \/ M = L + n /\ M <= last /\ disc'[M].last = last
        \/ disc'[M] = disc[M] /\ disc[M].pc # "idle" /\ (M < L \/ M > last)
  <2>1. ASSUME NEW M \in Origin, disc[M].pc # "idle", M # L PROVE M < L \/ M > last
    <3>1. M \in Int
      BY <1>2
    <3> QED
      BY <1>5, <2>1, <3>1
  <2> QED
    BY <1>3, <1>6, <2>1
<1>9. DiscardShape'
  <2>1. ASSUME NEW M \in Origin, disc'[M].pc # "idle" PROVE disc'[M].last \in M..(O - 1)
    BY <1>2, <1>5, <1>8, <2>1 DEF Known, DeviceInv, UseShape, DiscardShape
  <2>2. ASSUME NEW M \in Origin, NEW N \in Origin, disc'[M].pc # "idle", disc'[N].pc # "idle", M < N
        PROVE  disc'[M].last < N
    <3>1. \/ M = L /\ disc'[M].last \in L..(L + n - 1)
          \/ M = L + n /\ M <= last /\ disc'[M].last = last
          \/ disc'[M] = disc[M] /\ disc[M].pc # "idle" /\ M < L /\ disc[M].last < L
          \/ disc'[M] = disc[M] /\ disc[M].pc # "idle" /\ M > last
      BY <1>8, <2>2
    <3>2. \/ N = L
          \/ N = L + n /\ N <= last
          \/ disc'[N] = disc[N] /\ disc[N].pc # "idle" /\ N < L
          \/ disc'[N] = disc[N] /\ disc[N].pc # "idle" /\ N > last
      BY <1>8, <2>2
    <3>3. disc[M].pc # "idle" /\ disc[N].pc # "idle" => disc[M].last < N
      BY <2>2 DEF Known, DeviceInv, UseShape, DiscardShape
    <3>4. M \in Int /\ N \in Int /\ (disc[M].pc # "idle" => disc[M].last \in Int)
      BY <1>2 DEF PieceRecords
    <3> QED
      BY <1>5, <2>2, <3>1, <3>2, <3>3, <3>4
  <2> QED
    BY <1>7, <2>1, <2>2 DEF DiscardShape
<1>10. ASSUME NEW M \in Origin, disc'[M].pc = "fly", NEW N \in M..disc'[M].last
       PROVE  origin[N] = disc'[M].first + (N - M) /\ Settled(N)
  <2>1. CASE M = L
    <3>1. front.pc = "fly" /\ N \in L..(L + n - 1)
      BY <1>3, <1>6, <1>10, <2>1
    <3>2. CASE N = L
      BY <1>3, <1>5, <1>6, <2>1, <3>1, <3>2 DEF Settled
    <3>3. CASE N # L
      <4>1. N - L \in 1..(n - 1) /\ L + (N - L) = N
        BY <1>5, <3>1, <3>3
      <4>2. ~Busy(N) /\ ~Shared(N) /\ origin[N] = origin[L] + (N - L)
        <5>1. Run(L, n) /\ ~Shared(L)
          BY <1>1, <1>6, <3>1
        <5> QED
          BY <4>1, <5>1 DEF Run
      <4> QED
        BY <1>3, <1>6, <2>1, <3>1, <4>2 DEF Settled
    <3> QED
      BY <3>2, <3>3
  <2>2. CASE M # L
    <3>1. disc'[M] = disc[M]
      BY <1>3, <1>6, <1>10, <2>2
    <3> QED
      BY <1>10, <3>1 DEF Known, DeviceInv, UseShape, FlyShape
  <2> QED
    BY <2>1, <2>2
<1>11. \A x : Parked(x) /\ x # L => Parked(x)'
  <2>1. ASSUME NEW x \in Origin, disc[x].pc = "parked", x # L PROVE disc'[x].pc = "parked"
    <3>1. x \in Int
      BY <1>2
    <3>2. x < L \/ x > last
      BY <1>5, <2>1, <3>1
    <3>3. ~(x = L + n /\ x <= last)
      BY <1>5, <3>1, <3>2
    <3> QED
      BY <1>3, <2>1, <3>3
  <2> QED
    BY <2>1 DEF Parked
<1>12. WaitShape' /\ \A i \in CowIds : Alike(cow'[i], cow[i]) /\ cow'[i].buf = cow[i].buf
  <2>1. CASE Busy(L)
    <3>1. PICK i \in CowIds : cow' = [cow EXCEPT ![i].waiters = Append(@, L)]
      BY <2>1, CowOfBusy DEF MapDiscard
    <3>2. /\ Apart(cow', overflow, again')
          /\ \A y : Waits(cow', overflow, again', y) => Waits(cow, overflow, again', y) \/ y = L
      BY <1>2, <3>1, JoinCopy
    <3>3. Parked(L)'
      BY <1>3, <1>6, <2>1 DEF Parked
    <3>4. \A y : Waits(cow', overflow, again', y) => Parked(y)'
      BY <1>11, <3>2, <3>3
    <3>5. \A j \in CowIds : Alike(cow'[j], cow[j]) /\ cow'[j].buf = cow[j].buf
      BY <1>2, <3>1 DEF Alike, CowRecords
    <3> QED
      BY <3>2, <3>4, <3>5 DEF WaitShape, Apart, Waits
  <2>2. CASE ~Busy(L)
    <3>1. cow' = cow
      BY <2>2 DEF MapDiscard
    <3>2. \A y : Waits(cow, overflow, again', y) => Parked(y)'
      BY <1>11
    <3> QED
      BY <3>1, <3>2 DEF WaitShape, Apart, Waits, Alike
  <2> QED
    BY <2>1, <2>2
<1>13. DeviceInv'
  BY <1>9, <1>10, <1>12, MappedDevice
<1>14. ASSUME NEW x \in Discarding'
       PROVE  x \in L..last \/ \E M \in Origin \ {L} : disc[M].pc # "idle" /\ x \in M..disc[M].last
  <2>1. PICK M \in Origin : disc'[M].pc # "idle" /\ x \in M..disc'[M].last
    BY <1>14 DEF Discarding
  <2> QED
    BY <1>5, <1>8, <2>1
<1> QED
  BY <1>13, <1>14

\* A request changes, and if it is a write, only in how far it is.
OneRequest(r, op) ==
  \E x \in RequestRecords :
    /\ req' = [req EXCEPT ![r] = x]
    /\ \/ x = Replied("error")
       \/ /\ x.op = op /\ (x.st = "none" \/ op = "write")
          /\ req[r].op = "write" => /\ x.L = req[r].L /\ x.whole = req[r].whole
                                    /\ x.val = req[r].val

LEMMA NobodyWaits ==
  ASSUME Known, NEW r \in Requests, req[r].pc = "idle"
  PROVE  ~Waits(cow, overflow, again, r)
<1>1. r \notin Origin
  BY BioAssumption
<1> QED
  BY <1>1 DEF Known, DeviceInv, WaitShape, Parked

LEMMA SubmitWriteDevice ==
  ASSUME Known, NEW r \in Requests, SubmitWrite(r)
  PROVE  /\ DeviceInv' /\ UNCHANGED <<origin, snaps, exc, disk, disc>>
         /\ req[r].op = "none" /\ OneRequest(r, "write")
<1>1. /\ UNCHANGED <<disk, disc, worker, again>> /\ req[r].pc = "idle" /\ req[r].op = "none"
  BY DEF SubmitWrite, workers, Known, DeviceInv, UseShape, RequestShape
<1>2. PICK L \in Origin, whole \in left.whole :
        MapWrite(r, [IdleRequest EXCEPT !.op = "write", !.L = L, !.whole = whole,
                                        !.val = O + left.writes])
  BY DEF SubmitWrite
<1> DEFINE w == [IdleRequest EXCEPT !.op = "write", !.L = L, !.whole = whole,
                                    !.val = O + left.writes]
<1>3. w \in RequestRecords /\ w.op = "write"
  <2>1. whole \in BOOLEAN /\ O + left.writes \in Int
    BY <1>2, Constants DEF Known, SnapInv, Types, Budget
  <2>2. IdleRequest \in RequestRecords
    BY FreshTypes
  <2> QED
    BY <2>1, <2>2 DEF RequestRecords
<1>4. MapWrite(r, w)
  BY <1>2
<1> HIDE DEF w
<1>5. /\ Apart(cow, overflow, again') /\ ~Waits(cow, overflow, again', r)
      /\ \A x : Waits(cow, overflow, again', x) => Parked(x)
  BY <1>1, NobodyWaits DEF Known, DeviceInv, WaitShape
<1>6. /\ DeviceInv' /\ UNCHANGED <<origin, snaps, exc>>
      /\ \E x \in RequestRecords :
              /\ req' = [req EXCEPT ![r] = x]
              /\ \/ x = Replied("error")
                 \/ x.op = "write" /\ x.L = w.L /\ x.whole = w.whole /\ x.val = w.val
  BY <1>1, <1>3, <1>4, <1>5, MapWriteDevice
<1> QED
  BY <1>1, <1>6 DEF OneRequest

LEMMA SubmitReadDevice ==
  ASSUME Known, NEW r \in Requests, SubmitRead(r)
  PROVE  /\ DeviceInv' /\ UNCHANGED <<origin, snaps, exc, cow, disk, disc>>
         /\ req[r].op = "none" /\ OneRequest(r, "read")
<1>1. /\ UNCHANGED <<origin, snaps, exc, cow, overflow, again, worker, disk, disc>>
      /\ req[r].pc = "idle" /\ req[r].op = "none" /\ req \in [Requests -> RequestRecords]
      /\ req' \in [Requests -> RequestRecords]
  <2>1. Types'
    BY SubmitReadStep DEF Known, SnapInv
  <2> QED
    BY <2>1 DEF SubmitRead, maps, copies, workers, Known, SnapInv, Types, DeviceInv, UseShape, RequestShape
<1>2. PICK L \in Origin :
        req' = [req EXCEPT ![r] = [IdleRequest EXCEPT
                 !.pc = "fly", !.op = "read", !.L = L, !.P = origin[L], !.seen = {Store[L]}]]
  BY DEF SubmitRead
<1>3. PICK x : x = [IdleRequest EXCEPT
                 !.pc = "fly", !.op = "read", !.L = L, !.P = origin[L], !.seen = {Store[L]}]
  OBVIOUS
<1>4. x.pc = "fly" /\ x.op = "read" /\ x.st = "none" /\ req' = [req EXCEPT ![r] = x]
  BY <1>2, <1>3 DEF IdleRequest
<1>5. \A s \in Requests : req'[s] = IF s = r THEN x ELSE req[s]
  BY <1>1, <1>4
<1>6. x \in RequestRecords
  BY <1>1, <1>5
<1>7. /\ DiscardShape' /\ WaitShape'
      /\ \A M \in Origin : disc'[M].pc = "fly" =>
           \A N \in M..disc'[M].last : origin[N] = disc'[M].first + (N - M) /\ Settled(N)
  <2>1. \A y : Waits(cow, overflow, again, y) => Parked(y)'
    BY <1>1, <1>5 DEF Parked, Known, DeviceInv, WaitShape
  <2> QED
    BY <1>1, <2>1 DEF Known, DeviceInv, UseShape, DiscardShape, FlyShape, WaitShape, Apart, Waits
<1>8. DeviceInv'
  BY <1>1, <1>4, <1>5, <1>7, MappedDevice DEF Alike
<1> QED
  BY <1>1, <1>4, <1>6, <1>8 DEF OneRequest

LEMMA DiscardDevice ==
  ASSUME Known, SubmitDiscard \/ \E L \in Origin : QueuedDiscard(L)
  PROVE  /\ DeviceInv' /\ UNCHANGED <<origin, snaps, exc, disk, req>>
         /\ Discarding = {} \/ Discarding' \subseteq Discarding
<1>1. /\ UNCHANGED <<origin, snaps, exc, disk, worker, req, overflow, again>>
      /\ disc \in [Origin -> PieceRecords]
  BY DEF SubmitDiscard, QueuedDiscard, maps, workers, Known, DeviceInv, UseShape, DiscardShape
<1>2. ASSUME NEW L \in Origin, disc[L].pc # "parked" PROVE ~Waits(cow, overflow, again', L)
  <2>1. L \notin Requests
    BY BioAssumption
  <2> QED
    BY <1>1, <1>2, <2>1 DEF Known, DeviceInv, WaitShape, Parked
<1>3. Apart(cow, overflow, again') /\ \A x : Waits(cow, overflow, again', x) => Parked(x)
  BY <1>1 DEF Known, DeviceInv, WaitShape
<1>4. CASE SubmitDiscard
  <2>1. /\ \A M \in Origin : disc[M].pc = "idle"
        /\ \E L \in Origin : \E last \in L..(O - 1) : MapDiscard(L, last)
    BY <1>4 DEF SubmitDiscard
  <2>2. PICK L \in Origin : \E last \in L..(O - 1) : MapDiscard(L, last)
    BY <2>1
  <2>3. PICK last \in L..(O - 1) : MapDiscard(L, last)
    BY <2>2
  <2>4. DeviceInv'
    BY <1>1, <1>2, <1>3, <2>1, <2>3, MapDiscardDevice
  <2>5. Discarding = {}
    BY <2>1 DEF Discarding
  <2> QED
    BY <1>1, <2>4, <2>5
<1>5. ASSUME NEW L \in Origin, QueuedDiscard(L)
      PROVE  DeviceInv' /\ Discarding' \subseteq Discarding
  <2>1. disc[L].pc = "queued" /\ MapDiscard(L, disc[L].last)
    BY <1>5 DEF QueuedDiscard
  <2>2. /\ disc[L].last \in L..(O - 1)
        /\ \A M \in Origin : disc[M].pc # "idle" /\ M < L => disc[M].last < L
        /\ \A M \in Origin : disc[M].pc # "idle" /\ M > L => M > disc[L].last
    <3>1. \A M \in Origin : M > L <=> L < M
      BY Constants
    <3> QED
      BY <2>1, <3>1, Constants DEF Known, DeviceInv, UseShape, DiscardShape, PieceRecords
  <2>3. ~Waits(cow, overflow, again', L)
    BY <1>2, <2>1
  <2>4. /\ DeviceInv'
        /\ \A x \in Discarding' : x \in L..disc[L].last \/ \E M \in Origin \ {L} :
              disc[M].pc # "idle" /\ x \in M..disc[M].last
    BY <1>1, <1>3, <2>1, <2>2, <2>3, MapDiscardDevice
  <2> QED
    BY <2>1, <2>4 DEF Discarding
<1> QED
  BY <1>1, <1>4, <1>5

LEMMA ResubmitDevice ==
  ASSUME Known, NEW a \in Agents, Resubmit(a)
  PROVE  /\ DeviceInv' /\ UNCHANGED <<origin, snaps, exc, disk>>
         /\ \/ /\ disc' = disc
               /\ \E r \in Requests : /\ req[r].op = "write" /\ req[r].pc # "cow"
                                     /\ OneRequest(r, "write")
            \/ req' = req /\ Discarding' \subseteq Discarding
<1>1. /\ UNCHANGED <<disk, worker>> /\ again[a] # <<>> /\ again' = [again EXCEPT ![a] = Tail(@)]
      /\ disc \in [Origin -> PieceRecords] /\ req \in [Requests -> RequestRecords]
  BY DEF Resubmit, Known, DeviceInv, UseShape, DiscardShape, SnapInv, Types
<1>2. PICK b \in Requests \cup Origin : b = Head(again[a]) /\ Parked(b)
  BY <1>1, HeadTaken
<1>3. /\ Apart(cow, overflow, again') /\ ~Waits(cow, overflow, again', b)
      /\ \A x : Waits(cow, overflow, again', x) => Parked(x)
  BY <1>1, <1>2, HeadTaken DEF Known, DeviceInv, WaitShape
<1>4. CASE b \in Requests /\ MapWrite(b, req[b]) /\ UNCHANGED disc
  <2>1. req[b].pc = "parked" /\ req[b].op = "write" /\ req[b] \in RequestRecords
    <3>1. b \notin Origin
      BY <1>4, BioAssumption
    <3> QED
      BY <1>1, <1>2, <1>4, <3>1 DEF Parked, Known, DeviceInv, UseShape, RequestShape
  <2>2. /\ DeviceInv' /\ UNCHANGED <<origin, snaps, exc>>
        /\ \E x \in RequestRecords :
              /\ req' = [req EXCEPT ![b] = x]
              /\ \/ x = Replied("error")
                 \/ x.op = "write" /\ x.L = req[b].L /\ x.whole = req[b].whole /\ x.val = req[b].val
    BY <1>1, <1>3, <1>4, <2>1, MapWriteDevice
  <2> QED
    BY <1>1, <1>4, <2>1, <2>2 DEF OneRequest
<1>5. CASE b \in Origin /\ MapDiscard(b, disc[b].last) /\ UNCHANGED <<maps, cows, overflow, req>>
  <2>1. disc[b].pc = "parked"
    <3>1. b \notin Requests
      BY <1>5, BioAssumption
    <3> QED
      BY <1>2, <3>1 DEF Parked
  <2>2. /\ disc[b].last \in b..(O - 1)
        /\ \A M \in Origin : disc[M].pc # "idle" /\ M < b => disc[M].last < b
        /\ \A M \in Origin : disc[M].pc # "idle" /\ M > b => M > disc[b].last
    <3>1. \A M \in Origin : M > b <=> b < M
      BY <1>5, Constants
    <3> QED
      BY <1>5, <2>1, <3>1, Constants DEF Known, DeviceInv, UseShape, DiscardShape, PieceRecords
  <2>3. UNCHANGED <<origin, snaps, exc, overflow, req>>
    BY <1>5 DEF maps
  <2>4. /\ DeviceInv'
        /\ \A x \in Discarding' : x \in b..disc[b].last \/ \E M \in Origin \ {b} :
              disc[M].pc # "idle" /\ x \in M..disc[M].last
    BY <1>1, <1>3, <1>5, <2>2, <2>3, MapDiscardDevice
  <2> QED
    BY <1>1, <1>5, <2>1, <2>3, <2>4 DEF Discarding
<1> QED
  BY <1>2, <1>4, <1>5 DEF Resubmit

-----------------------------------------------------------------------------
LEMMA InitDevice == Init => DeviceInv
<1> SUFFICES ASSUME Init PROVE DeviceInv
  OBVIOUS
<1>1. /\ \A i \in CowIds : cow[i] = FreeCow
      /\ \A r \in Requests : req[r] = IdleRequest
      /\ disc = [L \in Origin |-> IdleDiscard]
      /\ overflow = <<>> /\ \A a \in Agents : again[a] = <<>>
      /\ worker = IdleWorker
  BY DEF Init
<1>2. IdleDiscard \in PieceRecords /\ IdleDiscard.pc = "idle"
  BY DEF PieceRecords, IdleDiscard, None
<1>3. UseShape
  BY <1>1, <1>2 DEF UseShape, RequestShape, DiscardShape, FlyShape, FreeCow, IdleRequest
<1>4. BufShape /\ RecordShape
  BY <1>1 DEF BufShape, RecordShape, FreeCow, IdleWorker
<1>5. WaitShape
  BY <1>1, EmptyList DEF WaitShape, Apart, Waits, FreeCow
<1> QED
  BY <1>3, <1>4, <1>5 DEF DeviceInv

LEMMA DeviceInvStep == Known /\ [Next]_vars => DeviceInv'
<1> SUFFICES ASSUME Known, [Next]_vars PROVE DeviceInv'
  OBVIOUS
<1>1. CASE UserStep
  BY <1>1, SubmitWriteDevice, SubmitReadDevice, PerformDevice, DiscardDevice, TrimDevice,
     QuietSteps, ResubmitDevice DEF UserStep
<1>2. CASE UNCHANGED vars
  <2>1. UNCHANGED <<origin, snaps, exc, cow, overflow, again, disk, req, disc, worker>>
    BY <1>2 DEF vars, maps, copies, workers, users
  <2>2. RecordShape'
    BY <2>1 DEF Known, DeviceInv, RecordShape
  <2> QED
    BY <2>1, <2>2, StillDevice
<1>3. ASSUME NEW i \in CowIds, CowAlloc(i) \/ CowRead(i) \/ CowWrite(i) PROVE DeviceInv'
  BY <1>3, CowAllocDevice, CowIoDevice
<1>4. CASE Commit
  BY <1>4, QuietSteps, FinishSteps, CommitFailedCommand, ApplyExceptionDevice, ApplyOriginDevice,
     ApplyCommandDevice DEF Commit
<1>5. CASE (\E a \in Agents : CowGone(a)) \/ Create \/ Destroy \/ Commands
  BY <1>5, QuietSteps, UnholdDevice DEF Commands
<1> QED
  BY <1>1, <1>2, <1>3, <1>4, <1>5, StepCases DEF Copying

\* What the copies hold, where each bio is, and what the array may still write to.
LEMMA KnownHolds == Spec => []Known
<1>1. Init => Known
  BY InitSnapInv, InitOwnInv, InitReadInv, InitDevice DEF Known
<1>2. Known /\ [Next]_vars => Known'
  <2>1. Known /\ [Next]_vars => SnapInv' /\ OwnInv' /\ ReadInv'
    BY SnapInvStep, OwnInvStep, ReadInvStep DEF Known
  <2> QED
    BY <2>1, DeviceInvStep DEF Known
<1> QED
  BY <1>1, <1>2, PTL DEF Spec

-----------------------------------------------------------------------------
(* What the users see of a state                                            *)

\* The write of r is in the origin's map, and r has not been told.
DoneBy(r) == worker.pc = "finish" /\ cow[Next1].r = r
DoneShape == \A r \in Requests : Done(r) <=> DoneBy(r)

LEMMA DoneIs == Known => DoneShape
<1> SUFFICES ASSUME Known, NEW r \in Requests PROVE Done(r) <=> DoneBy(r)
  BY DEF DoneShape
<1>1. ASSUME NEW i \in CowIds, cow[i].r = r, cow[i].newP # None, origin[cow[i].L] = cow[i].newP
      PROVE  DoneBy(r)
  <2>1. cow[i].pc \in HasRows
    BY <1>1 DEF Known, SnapInv, CowShape
  <2>2. Inside(i) /\ worker.pc = "finish"
    BY <1>1, <2>1 DEF Known, OwnInv, CopyShape
  <2> QED
    BY <1>1, <2>2 DEF DoneBy, Inside
<1>2. ASSUME DoneBy(r) PROVE Done(r)
  <2>1. PICK i \in CowIds : i = Next1 /\ cow[i].pc = "pend"
    BY <1>2, BatchHead DEF DoneBy, Known, SnapInv, WorkerShape
  <2>2. origin[cow[i].L] = cow[i].newP /\ cow[i].newP # None
    BY <1>2, <2>1 DEF DoneBy, HasRows, Inside, Acting, Known, SnapInv, CowShape, OwnInv, CopyShape
  <2> QED
    BY <1>2, <2>1, <2>2 DEF Done, DoneBy
<1> QED
  BY <1>1, <1>2 DEF Done

\* What the users see of request q.
IoOf(q, done) ==
  IF q.op = "write"
  THEN [op |-> "write", L |-> q.L, whole |-> q.whole, val |-> q.val, done |-> done]
  ELSE [op |-> "none", st |-> q.st]

IoShape == IO = [r \in Requests |-> IoOf(req[r], DoneBy(r))]

LEMMA IoIs == Known => IoShape
<1> SUFFICES ASSUME Known PROVE IO = [r \in Requests |-> IoOf(req[r], DoneBy(r))]
  BY DEF IoShape
<1>0. DoneShape
  BY DoneIs
<1>1. \A r \in Requests : Done(r) = DoneBy(r)
  <2> SUFFICES ASSUME NEW r \in Requests PROVE Done(r) = DoneBy(r)
    OBVIOUS
  <2>1. Done(r) \in BOOLEAN /\ DoneBy(r) \in BOOLEAN
    BY DEF Done, DoneBy
  <2>2. Done(r) <=> DoneBy(r)
    BY <1>0 DEF DoneShape
  <2> QED
    BY <2>1, <2>2
<1>2. \A r \in Requests : IO[r] = IoOf(req[r], Done(r))
  BY DEF IO, IoOf
<1>3. IO = [r \in Requests |-> IO[r]]
  BY DEF IO
<1>4. \A r \in Requests : IO[r] = IoOf(req[r], DoneBy(r))
  BY <1>1, <1>2
<1> QED
  BY <1>3, <1>4

\* The images are those of the snapshots in the chain.
LEMMA ImagesStand ==
  ASSUME \A g \in Slots : InChain(g)' <=> InChain(g),
         \A g \in Slots, M \in Origin :
           InChain(g) => disk'[Lookup(g, M)'] = disk[Lookup(g, M)]
  PROVE  Images' = Images
<1>1. {h \in Slots : InChain(h)'} = {h \in Slots : InChain(h)}
  OBVIOUS
<1>2. \A g \in {h \in Slots : InChain(h)} :
        [L \in Origin |-> disk'[Lookup(g, L)']] = [L \in Origin |-> disk[Lookup(g, L)]]
  OBVIOUS
<1> QED
  BY <1>1, <1>2 DEF Images

LEMMA StoreStands ==
  ASSUME \A M \in Origin : disk'[origin'[M]] = disk[origin[M]]
  PROVE  Store' = Store
BY DEF Store

\* The maps and the rows as they are.
LEMMA NothingMoves ==
  ASSUME UNCHANGED <<origin, snaps, exc, disk>>
  PROVE  Store' = Store /\ Images' = Images
<1>1. \A g, M : (InChain(g)' <=> InChain(g)) /\ Lookup(g, M)' = Lookup(g, M)
  BY DEF InChain, Lookup
<1> QED
  BY <1>1, ImagesStand, StoreStands

\* A row an image shows is the origin's, and shared or about to be moved; or it is a
\* snapshot's.
LEMMA Shown ==
  ASSUME Known, ~RowsHandedOn(cmd.g), NEW g \in Slots, InChain(g), NEW M \in Origin
  PROVE  /\ Lookup(g, M) \in Physical
         /\ \/ Lookup(g, M) = origin[M] /\ ~Settled(M)
            \/ \E h \in Slots : SHas(h, M, Lookup(g, M))
<1>1. Maps(origin, snaps, exc) /\ In(g, snaps)
  BY ChainTypes DEF Maps, Known
<1>2. PICK p \in DOMAIN snaps : snaps[p] = g
  BY <1>1 DEF In
<1>3. Lookup(g, M) = LookupIn(origin, snaps, exc, snaps[p], M)
  BY <1>2, LookupDef
<1>4. CASE NoCopy(snaps, exc, p, M)
  <2>1. Lookup(g, M) = origin[M]
    BY <1>1, <1>3, <1>4, LookupOrigin DEF NoCopy, Maps
  <2>2. Len(snaps) \in DOMAIN snaps /\ Len(snaps) >= p /\ snaps # <<>>
    BY <1>1, <1>2, LenProperties, EmptySeq DEF Maps
  <2>3. Shared(M)
    BY <1>4, <2>2 DEF NoCopy, Shared
  <2> QED
    BY <1>1, <2>1, <2>3 DEF Maps, Settled
<1>5. ASSUME NEW k \in DOMAIN snaps, FirstCopy(snaps, exc, p, k, M)
      PROVE  /\ Lookup(g, M) \in Physical
             /\ \/ Lookup(g, M) = origin[M] /\ ~Settled(M)
                \/ \E h \in Slots : SHas(h, M, Lookup(g, M))
  <2>1. PICK h \in Slots : h = snaps[k] /\ InChain(h)
    BY <1>1, LenProperties, ElementOfSeq DEF Maps, InChain
  <2>2. Lookup(g, M) = exc[h][M] /\ exc[h][M] # None
    BY <1>1, <1>3, <1>5, <2>1, LookupAt DEF FirstCopy, Maps
  <2>3. exc[h][M] \in Physical
    BY <1>1, <2>2 DEF Maps, Copies, RowOrNone
  <2>4. CASE RedirectHalfDone(M) /\ origin[M] = exc[h][M]
    <3>1. PICK i \in CowIds : i = Next1 /\ cow[i].pc = "pend"
      BY <2>4, BatchHead DEF RedirectHalfDone, Known, SnapInv, WorkerShape
    <3>2. Busy(M)
      BY <2>4, <3>1 DEF RedirectHalfDone, Busy
    <3> QED
      BY <2>2, <2>3, <2>4, <3>2 DEF Settled
  <2>5. CASE ~(RedirectHalfDone(M) /\ origin[M] = exc[h][M])
    <3>1. ~RowsHandedOn(h)
      BY DEF RowsHandedOn
    <3> QED
      BY <2>1, <2>2, <2>3, <2>5, <3>1 DEF SHas
  <2> QED
    BY <2>4, <2>5
<1> QED
  BY <1>2, <1>4, <1>5, <1>1, LookupCases DEF Maps

\* While a bio is in the array, or a copy under way, no command is being applied.
LEMMA AtWork ==
  ASSUME Known, Active \/ \E i \in CowIds : cow[i].pc # "free"
  PROVE  ~RowsHandedOn(cmd.g)
<1> SUFFICES ASSUME RowsHandedOn(cmd.g) PROVE FALSE
  OBVIOUS
<1>1. worker.batch # <<>> /\ Next1 = Command
  BY DEF RowsHandedOn, Known, SnapInv, WorkerShape
<1> QED
  BY <1>1, NoCopies, BatchHead DEF Known, SnapInv, CommandShape, WorkerShape

\* A change of the origin's settled rows, or of rows that are nobody's yet, shows in no
\* image.
LEMMA ImagesKept ==
  ASSUME Known, ~RowsHandedOn(cmd.g), UNCHANGED <<origin, snaps, exc>>,
         \A P \in Physical :
           \/ disk'[P] = disk[P]
           \/ \E L \in Origin : P = origin[L] /\ Settled(L)
           \/ (\A L \in Origin : P # origin[L]) /\ \A g \in Slots, M \in Origin : ~SHas(g, M, P)
  PROVE  Images' = Images
<1>1. \A g, M : (InChain(g)' <=> InChain(g)) /\ Lookup(g, M)' = Lookup(g, M)
  BY DEF InChain, Lookup
<1>2. ASSUME NEW g \in Slots, NEW M \in Origin, InChain(g)
      PROVE  disk'[Lookup(g, M)] = disk[Lookup(g, M)]
  <2>1. PICK P \in Physical : /\ P = Lookup(g, M)
                              /\ \/ P = origin[M] /\ ~Settled(M)
                                 \/ \E h \in Slots : SHas(h, M, P)
    BY <1>2, Shown
  <2>2. Once(P)
    BY DEF Known, OwnInv, OwnShape
  <2>3. ~(\E L \in Origin : P = origin[L] /\ Settled(L))
    BY <2>1, <2>2 DEF Once, OHas
  <2> QED
    BY <2>1, <2>3
<1> QED
  BY <1>1, <1>2, ImagesStand

-----------------------------------------------------------------------------
(* Each step is a step of the store, or shows nothing                       *)

DeviceStep == Device!Next \/ UNCHANGED <<Store, Images, IO, Discarding>>

\* One request changes, as its user sees it ...
LEMMA OneIoChanges ==
  ASSUME Known, Known', NEW b \in Requests,
         \A r \in Requests : r # b => AlikeBio(req'[r], req[r]) /\ (DoneBy(r)' <=> DoneBy(r))
  PROVE  /\ IO' = [IO EXCEPT ![b] = IoOf(req'[b], DoneBy(b)')]
         /\ IO[b] = IoOf(req[b], DoneBy(b))
<1>1. IoShape /\ (Known' => IoShape')
  BY IoIs, PTL
<1>2. /\ IO = [r \in Requests |-> IoOf(req[r], DoneBy(r))]
      /\ IO' = [r \in Requests |-> IoOf(req'[r], DoneBy(r)')]
  BY <1>1 DEF IoShape
<1>3. ASSUME NEW r \in Requests, r # b
      PROVE  IoOf(req'[r], DoneBy(r)') = IoOf(req[r], DoneBy(r))
  <2>1. AlikeBio(req'[r], req[r]) /\ (DoneBy(r)' <=> DoneBy(r))
    BY <1>3
  <2>2. DoneBy(r)' = DoneBy(r)
    <3>1. DoneBy(r)' \in BOOLEAN /\ DoneBy(r) \in BOOLEAN
      BY DEF DoneBy
    <3> QED
      BY <2>1, <3>1
  <2> QED
    BY <2>1, <2>2 DEF IoOf, AlikeBio
<1> QED
  BY <1>2, <1>3

\* ... or none does.
LEMMA NoIoChanges ==
  ASSUME Known, Known',
         \A r \in Requests : AlikeBio(req'[r], req[r]) /\ (DoneBy(r)' <=> DoneBy(r))
  PROVE  IO' = IO
<1>1. IoShape /\ (Known' => IoShape')
  BY IoIs, PTL
<1>2. /\ IO = [r \in Requests |-> IoOf(req[r], DoneBy(r))]
      /\ IO' = [r \in Requests |-> IoOf(req'[r], DoneBy(r)')]
  BY <1>1 DEF IoShape
<1>3. ASSUME NEW r \in Requests
      PROVE  IoOf(req'[r], DoneBy(r)') = IoOf(req[r], DoneBy(r))
  <2>1. AlikeBio(req'[r], req[r]) /\ (DoneBy(r)' <=> DoneBy(r))
    BY <1>3
  <2>2. DoneBy(r)' = DoneBy(r)
    <3>1. DoneBy(r)' \in BOOLEAN /\ DoneBy(r) \in BOOLEAN
      BY DEF DoneBy
    <3> QED
      BY <2>1, <3>1
  <2> QED
    BY <2>1, <2>2 DEF IoOf, AlikeBio
<1> QED
  BY <1>2, <1>3

LEMMA StillAlike == \A x : AlikeBio(x, x)
BY DEF AlikeBio

\* A write that is in the map is a copy's.
LEMMA DoneIsCopied ==
  ASSUME Known, NEW r, DoneBy(r)
  PROVE  /\ r \in Requests /\ req[r].pc = "cow" /\ req[r].op = "write"
         /\ \E i \in CowIds : i = Next1 /\ cow[i].pc = "pend" /\ cow[i].r = r /\ Inside(i)
<1>1. worker.pc = "finish" /\ worker.batch # <<>> /\ Next1 # Command
  BY DEF DoneBy, Known, SnapInv, WorkerShape
<1>2. PICK i \in CowIds : i = Next1 /\ cow[i].pc = "pend"
  BY <1>1, BatchHead DEF Known, SnapInv
<1>3. cow[i].r = r /\ Inside(i)
  BY <1>1, <1>2 DEF DoneBy, Inside, Acting
<1> QED
  BY <1>2, <1>3 DEF Known, SnapInv, CowShape, DeviceInv, UseShape, RequestShape

\* Users' steps finish no copy.
LEMMA UserDone ==
  ASSUME Known, UserStep
  PROVE  \A r : DoneBy(r)' <=> DoneBy(r)
<1>1. worker' = worker /\ (SameCopies \/ \E i \in CowIds : Starts(i))
  BY UserSteps DEF Known, SnapInv, UserEffect
<1>2. ASSUME worker.pc = "finish" PROVE cow'[Next1].r = cow[Next1].r
  <2>1. PICK i \in CowIds : i = Next1 /\ cow[i].pc = "pend"
    BY <1>2, BatchHead DEF Known, SnapInv, WorkerShape
  <2> QED
    BY <1>1, <2>1 DEF SameCopies, Alike, Starts
<1> QED
  BY <1>1, <1>2 DEF DoneBy, Next1

\* A request is answered.
LEMMA ReplyShows ==
  ASSUME Known, Known', NEW b \in Requests, req[b].op = "write",
         UNCHANGED <<Store, Images, Discarding>>,
         \A r \in Requests : r # b => AlikeBio(req'[r], req[r]) /\ (DoneBy(r)' <=> DoneBy(r)),
         req'[b].op = "none", req'[b].st = IF DoneBy(b) THEN "ok" ELSE "error"
  PROVE  DeviceStep
<1>1. /\ IO' = [IO EXCEPT ![b] = IoOf(req'[b], DoneBy(b)')]
      /\ IO[b] = IoOf(req[b], DoneBy(b))
  BY OneIoChanges
<1>2. IO[b].op = "write" /\ IO[b].done = DoneBy(b)
  BY <1>1 DEF IoOf
<1>3. IoOf(req'[b], DoneBy(b)') = [op |-> "none", st |-> IF IO[b].done THEN "ok" ELSE "error"]
  BY <1>2 DEF IoOf
<1>4. Device!Reply(b)
  BY <1>1, <1>2, <1>3 DEF Device!Reply
<1> QED
  BY <1>4 DEF DeviceStep, Device!Next

\* A request begins, or is turned away, or goes on.
LEMMA MappedShows ==
  ASSUME Known, Known', NEW b \in Requests, NEW op \in {"read", "write"}, OneRequest(b, op),
         UNCHANGED <<Store, Images, Discarding>>, \A r \in Requests : DoneBy(r)' <=> DoneBy(r),
         ~DoneBy(b), req[b].op = "none" \/ (req[b].op = "write" /\ op = "write")
  PROVE  DeviceStep
<1>1. PICK x \in RequestRecords :
    /\ req' = [req EXCEPT ![b] = x]
    /\ \/ x = Replied("error")
       \/ /\ x.op = op /\ (x.st = "none" \/ op = "write")
          /\ req[b].op = "write" => /\ x.L = req[b].L /\ x.whole = req[b].whole
                                    /\ x.val = req[b].val
  BY DEF OneRequest
<1>2. \A r \in Requests : req'[r] = IF r = b THEN x ELSE req[r]
  BY <1>1 DEF Known, SnapInv, Types
<1>3. /\ IO' = [IO EXCEPT ![b] = IoOf(x, DoneBy(b)')]
      /\ IO[b] = IoOf(req[b], DoneBy(b))
  BY <1>2, StillAlike, OneIoChanges
<1>4. DoneBy(b)' = FALSE /\ DoneBy(b) = FALSE
  BY DEF DoneBy
<1>5. IO' = [IO EXCEPT ![b] = IoOf(x, FALSE)] /\ IO[b] = IoOf(req[b], FALSE)
  BY <1>3, <1>4
<1>6. IO' \in [Requests -> {IO'[r] : r \in Requests}]
  BY DEF IO
<1>7. IO'[b] = IoOf(x, FALSE)
  BY <1>5 DEF IO
<1>8. CASE x = Replied("error")
  <2>1. x.op = "none" /\ x.st = "error"
    BY <1>8 DEF Replied, IdleRequest
  <2>2. CASE req[b].op = "write"
    BY <1>2, <1>4, <2>1, <2>2, StillAlike, ReplyShows
  <2>3. CASE req[b].op = "none"
    <3>1. IO[b].op = "none" /\ IoOf(x, FALSE) = [op |-> "none", st |-> "error"]
      BY <1>5, <2>1, <2>3 DEF IoOf
    <3>2. Device!Refuse(b)
      BY <1>5, <3>1 DEF Device!Refuse
    <3> QED
      BY <3>2 DEF DeviceStep, Device!Next
  <2> QED
    BY <2>2, <2>3
<1>9. CASE x.op = "write" /\ op = "write" /\ x # Replied("error")
  <2>1. CASE req[b].op = "write"
    <3>1. IoOf(x, FALSE) = IO[b]
      BY <1>1, <1>5, <1>9, <2>1 DEF IoOf
    <3>2. IO' = IO
      BY <1>5, <3>1 DEF IO
    <3> QED
      BY <3>2 DEF DeviceStep
  <2>2. CASE req[b].op = "none"
    <3>1. IO[b].op = "none" /\ IO'[b].op = "write" /\ ~IO'[b].done
      BY <1>5, <1>7, <1>9, <2>2 DEF IoOf
    <3>2. IO' = [IO EXCEPT ![b] = IO'[b]]
      BY <1>5, <1>7
    <3>3. Device!Begin(b)
      BY <3>1, <3>2 DEF Device!Begin
    <3> QED
      BY <3>3 DEF DeviceStep, Device!Next
  <2> QED
    BY <2>1, <2>2
<1>10. CASE op = "read" /\ x.op = "read" /\ x.st = "none"
  <2>1. IO[b].op = "none" /\ IoOf(x, FALSE) = [op |-> "none", st |-> "none"]
    BY <1>5, <1>10 DEF IoOf
  <2>2. Device!Forget(b)
    BY <1>5, <2>1 DEF Device!Forget
  <2> QED
    BY <2>2 DEF DeviceStep, Device!Next
<1> QED
  BY <1>1, <1>8, <1>9, <1>10

LEMMA DiscardedRows ==
  ASSUME DiscardShape
  PROVE  Discarding \subseteq Origin
BY Constants DEF DiscardShape, Discarding, Origin

\* A discard gives up rows, without a change to any.
LEMMA DroppedShows ==
  ASSUME UNCHANGED <<Store, Images, IO>>, Discarding' \subseteq Discarding
  PROVE  DeviceStep
<1>1. Discarding \ (Discarding \ Discarding') = Discarding'
  OBVIOUS
<1>2. Store' = [L \in Origin |-> IF L \in {} THEN <<Trim, Trim>> ELSE Store[L]]
  BY DEF Store
<1>3. Device!Discard
  <2>1. (Discarding \ Discarding') \in SUBSET Discarding /\ {} \in SUBSET Discarding
    OBVIOUS
  <2> QED
    BY <1>1, <1>2, <2>1 DEF Device!Discard
<1> QED
  BY <1>3 DEF DeviceStep, Device!Next

LEMMA DiscardShows ==
  ASSUME Known, Known', SubmitDiscard \/ \E L \in Origin : QueuedDiscard(L)
  PROVE  DeviceStep
<1>1. /\ UNCHANGED <<origin, snaps, exc, disk, req>>
      /\ Discarding = {} \/ Discarding' \subseteq Discarding
  BY DiscardDevice
<1>2. Store' = Store /\ Images' = Images
  BY <1>1, NothingMoves
<1>3. \A r : DoneBy(r)' <=> DoneBy(r)
  BY UserDone DEF UserStep
<1>4. IO' = IO
  BY <1>1, <1>3, StillAlike, NoIoChanges
<1>5. Discarding' \subseteq Origin
  <2>1. DiscardShape => Discarding \subseteq Origin
    BY DiscardedRows
  <2>2. DiscardShape'
    BY DEF Known, DeviceInv, UseShape
  <2>3. \A L \in Origin : disc'[L].pc # "idle" => disc'[L].last \in L..(O - 1)
    BY <2>2 DEF DiscardShape
  <2> QED
    BY <2>3, Constants DEF Discarding, Origin
<1>6. CASE Discarding = {}
  <2>1. Discarding \subseteq Discarding' /\ Discarding' \in SUBSET Origin
    BY <1>5, <1>6
  <2>2. Device!Discard
    BY <1>2, <1>4, <2>1 DEF Device!Discard
  <2> QED
    BY <2>2 DEF DeviceStep, Device!Next
<1>7. CASE Discarding' \subseteq Discarding
  BY <1>2, <1>4, <1>7, DroppedShows
<1> QED
  BY <1>1, <1>6, <1>7

LEMMA TrimShows ==
  ASSUME Known, Known', NEW L \in Origin, TrimRows(L)
  PROVE  DeviceStep
<1>1. /\ UNCHANGED <<origin, snaps, exc>>
      /\ disc[L].pc = "fly" /\ disc' = [disc EXCEPT ![L] = IdleDiscard]
      /\ \A s \in Requests : AlikeBio(req'[s], req[s])
      /\ \A M \in L..disc[L].last : Settled(M)
      /\ \A P \in Physical :
           disk'[P] = IF \E M \in L..disc[L].last : P = origin[M] THEN <<Trim, Trim>> ELSE disk[P]
  BY TrimDevice
<1> DEFINE rows == L..disc[L].last
           given == Discarding \ Discarding'
<1>2. /\ disc \in [Origin -> PieceRecords] /\ rows \subseteq Origin
      /\ origin \in [Origin -> Physical]
  BY <1>1, Constants DEF Known, DeviceInv, UseShape, DiscardShape, SnapInv, Types, Origin
<1>3. IO' = IO
  BY <1>1, UserDone, NoIoChanges DEF UserStep
<1>4. Images' = Images
  <2>1. ~RowsHandedOn(cmd.g)
    BY <1>1, AtWork DEF Active
  <2>2. \A P \in Physical : disk'[P] = disk[P] \/ \E M \in Origin : P = origin[M] /\ Settled(M)
    BY <1>1, <1>2
  <2> QED
    BY <1>1, <2>1, <2>2, ImagesKept
<1>5. \A M \in Origin : disc'[M] = IF M = L THEN IdleDiscard ELSE disc[M]
  BY <1>1, <1>2
<1>6. Discarding' \subseteq Discarding
  BY <1>5 DEF Discarding, IdleDiscard
<1>7. rows \subseteq given
  <2> SUFFICES ASSUME NEW x \in rows PROVE x \in Discarding /\ x \notin Discarding'
    OBVIOUS
  <2>1. x \in Discarding
    BY <1>1 DEF Discarding
  <2>2. ASSUME NEW M \in Origin \ {L}, disc[M].pc # "idle", x \in M..disc[M].last PROVE FALSE
    <3>1. /\ L \in Int /\ M \in Int /\ disc[L].last \in Int /\ disc[M].last \in Int
      BY <1>2, Constants DEF PieceRecords, Origin
    <3>2. /\ L < M => disc[L].last < M
          /\ M < L => disc[M].last < L
      BY <1>1, <2>2 DEF Known, DeviceInv, UseShape, DiscardShape
    <3> QED
      BY <2>2, <3>1, <3>2
  <2>3. x \notin Discarding'
    BY <1>5, <2>2 DEF Discarding, IdleDiscard
  <2> QED
    BY <2>1, <2>3
<1>8. Store' = [M \in Origin |-> IF M \in rows THEN <<Trim, Trim>> ELSE Store[M]]
  <2>1. ASSUME NEW M \in Origin
        PROVE  disk'[origin'[M]] = IF M \in rows THEN <<Trim, Trim>> ELSE disk[origin[M]]
    <3>1. PICK P \in Physical : P = origin[M] /\ Once(P)
      BY <1>2 DEF Known, OwnInv, OwnShape
    <3>2. (\E N \in rows : P = origin[N]) <=> M \in rows
      BY <1>2, <3>1 DEF Once, OHas
    <3> QED
      BY <1>1, <3>1, <3>2
  <2> QED
    BY <2>1 DEF Store
<1>9. Discarding' = Discarding \ given
  BY <1>6
<1>10. Device!Discard
  <2>1. given \in SUBSET Discarding /\ rows \in SUBSET Discarding
    BY <1>7
  <2> HIDE DEF given, rows
  <2> QED
    BY <1>3, <1>4, <1>7, <1>8, <1>9, <2>1 DEF Device!Discard
<1> QED
  BY <1>10 DEF DeviceStep, Device!Next

LEMMA PerformShows ==
  ASSUME Known, Known', NEW b \in Requests, Perform(b)
  PROVE  DeviceStep
<1>1. /\ UNCHANGED <<origin, snaps, exc, disc>> /\ req[b].pc = "fly"
      /\ \A s \in Requests : s # b => AlikeBio(req'[s], req[s])
      /\ \/ /\ req[b].op = "read" /\ disk' = disk
            /\ req'[b].op = "none" /\ req'[b].st = "none"
         \/ /\ req[b].op = "write" /\ req'[b].op = "none" /\ req'[b].st = "ok"
            /\ \E L \in Origin : /\ L = req[b].L /\ Settled(L)
                                 /\ disk' = [disk EXCEPT ![origin[L]] = Written(@, req[b])]
  BY PerformDevice
<1>2. \A r : DoneBy(r)' <=> DoneBy(r)
  BY UserDone DEF UserStep
<1>3. ~DoneBy(b)
  BY <1>1, DoneIsCopied
<1>4. /\ IO' = [IO EXCEPT ![b] = IoOf(req'[b], DoneBy(b)')]
      /\ IO[b] = IoOf(req[b], DoneBy(b))
  BY <1>1, <1>2, OneIoChanges
<1>5. Discarding' = Discarding
  BY <1>1 DEF Discarding
<1>6. CASE req[b].op = "read" /\ disk' = disk /\ req'[b].op = "none" /\ req'[b].st = "none"
  <2>1. Store' = Store /\ Images' = Images
    BY <1>1, <1>6, NothingMoves
  <2>2. IO[b].op = "none" /\ IO' = [IO EXCEPT ![b] = [op |-> "none", st |-> "none"]]
    BY <1>4, <1>6 DEF IoOf
  <2>3. Device!Forget(b)
    BY <1>5, <2>1, <2>2 DEF Device!Forget
  <2> QED
    BY <2>3 DEF DeviceStep, Device!Next
<1>7. ASSUME req[b].op = "write", req'[b].op = "none", req'[b].st = "ok",
             NEW L \in Origin, L = req[b].L, Settled(L),
             disk' = [disk EXCEPT ![origin[L]] = Written(@, req[b])]
      PROVE  DeviceStep
  <2>1. disk \in [Physical -> Pairs] /\ origin \in [Origin -> Physical]
    BY DEF Known, SnapInv, Types
  <2>2. PICK Q \in Physical : Q = origin[L] /\ Once(Q)
    BY <2>1 DEF Known, OwnInv, OwnShape
  <2>3. \A P \in Physical : disk'[P] = IF P = Q THEN Written(disk[Q], req[b]) ELSE disk[P]
    BY <1>7, <2>1, <2>2
  <2>4. Images' = Images
    <3>1. ~RowsHandedOn(cmd.g)
      BY <1>1, AtWork DEF Active
    <3> QED
      BY <1>1, <1>7, <2>2, <2>3, <3>1, ImagesKept
  <2>5. /\ IO[b].op = "write" /\ ~IO[b].done /\ IO[b].L = L
        /\ IO[b].whole = req[b].whole /\ IO[b].val = req[b].val
    BY <1>3, <1>4, <1>7 DEF IoOf
  <2>6. IO' = [IO EXCEPT ![b] = [op |-> "none", st |-> "ok"]]
    BY <1>4, <1>7 DEF IoOf
  <2>7. Store' = [Store EXCEPT ![L] = Written(Store[L], IO[b])]
    <3>1. \A M \in Origin : disk'[origin'[M]] = IF M = L THEN Written(disk[origin[L]], req[b])
                                                ELSE disk[origin[M]]
      BY <1>1, <2>1, <2>2, <2>3 DEF Once, OHas
    <3>2. Written(Store[L], IO[b]) = Written(disk[origin[L]], req[b])
      BY <2>5 DEF Written, Store
    <3> QED
      BY <3>1, <3>2 DEF Store
  <2>8. Device!EffectAndReply(b)
    BY <1>5, <2>4, <2>5, <2>6, <2>7 DEF Device!EffectAndReply, Device!TakesEffect, Written
  <2> QED
    BY <2>8 DEF DeviceStep, Device!Next
<1> QED
  BY <1>1, <1>6, <1>7

LEMMA UserShows ==
  ASSUME Known, Known', UserStep
  PROVE  DeviceStep
<1>1. \A r : DoneBy(r)' <=> DoneBy(r)
  BY UserDone
<1>2. ASSUME NEW b \in Requests, NEW op \in {"read", "write"}, OneRequest(b, op),
             UNCHANGED <<origin, snaps, exc, disk, disc>>, req[b].pc # "cow",
             req[b].op = "none" \/ (req[b].op = "write" /\ op = "write")
      PROVE  DeviceStep
  <2>1. UNCHANGED <<Store, Images, Discarding>>
    BY <1>2, NothingMoves DEF Discarding
  <2>2. ~DoneBy(b)
    BY <1>2, DoneIsCopied
  <2> QED
    BY <1>1, <1>2, <2>1, <2>2, MappedShows
<1>3. ASSUME NEW r \in Requests, SubmitWrite(r) PROVE DeviceStep
  <2>1. req[r].pc = "idle"
    BY <1>3 DEF SubmitWrite
  <2> QED
    BY <1>2, <1>3, <2>1, SubmitWriteDevice
<1>4. ASSUME NEW r \in Requests, SubmitRead(r) PROVE DeviceStep
  <2>1. req[r].pc = "idle"
    BY <1>4 DEF SubmitRead
  <2> QED
    BY <1>2, <1>4, <2>1, SubmitReadDevice
<1>5. ASSUME NEW a \in Agents, Resubmit(a) PROVE DeviceStep
  <2>1. UNCHANGED <<origin, snaps, exc, disk>>
    BY <1>5, ResubmitDevice
  <2>2. CASE disc' = disc /\ \E r \in Requests : req[r].op = "write" /\ req[r].pc # "cow" /\ OneRequest(r, "write")
    BY <1>2, <2>1, <2>2
  <2>3. CASE req' = req /\ Discarding' \subseteq Discarding
    <3>1. IO' = IO
      BY <1>1, <2>3, StillAlike, NoIoChanges
    <3>2. Store' = Store /\ Images' = Images
      BY <2>1, NothingMoves
    <3> QED
      BY <2>3, <3>1, <3>2, DroppedShows
  <2> QED
    BY <1>5, <2>2, <2>3, ResubmitDevice
<1>6. ASSUME NEW s \in Readers, SnapRead(s) \/ SnapReadEnter(s) \/ SnapReadDone(s) PROVE DeviceStep
  <2>1. UNCHANGED <<origin, snaps, exc, disk, req, disc>>
    BY <1>6, QuietSteps
  <2>2. UNCHANGED <<Store, Images, Discarding>>
    BY <2>1, NothingMoves DEF Discarding
  <2>3. IO' = IO
    BY <1>1, <2>1, StillAlike, NoIoChanges
  <2> QED
    BY <2>2, <2>3 DEF DeviceStep
<1> QED
  BY <1>3, <1>4, <1>5, <1>6, PerformShows, DiscardShows, TrimShows DEF UserStep

LEMMA FinishShows ==
  ASSUME Known, Known', NEW i \in CowIds, cow[i].pc # "free", NEW st \in {"ok", "error"},
         NEW undo, NEW a, FinishCow(i, st, undo, a),
         UNCHANGED <<origin, snaps, exc, disk, disc>>,
         st = IF DoneBy(cow[i].r) THEN "ok" ELSE "error",
         \A r \in Requests : r # cow[i].r => (DoneBy(r)' <=> DoneBy(r))
  PROVE  DeviceStep
<1>1. PICK b \in Requests : b = cow[i].r /\ req[b].op = "write"
  BY DEF Known, SnapInv, CowShape, DeviceInv, UseShape, RequestShape
<1>2. \A r \in Requests : req'[r] = IF r = b THEN Replied(st) ELSE req[r]
  BY <1>1 DEF FinishCow, Known, SnapInv, Types
<1>3. Replied(st).op = "none" /\ Replied(st).st = st
  BY DEF Replied, IdleRequest
<1>4. UNCHANGED <<Store, Images, Discarding>>
  BY NothingMoves DEF Discarding
<1> QED
  BY <1>1, <1>2, <1>3, <1>4, StillAlike, ReplyShows

LEMMA CopyShows ==
  ASSUME Known, Known', NEW i \in CowIds, CowAlloc(i) \/ CowRead(i) \/ CowWrite(i)
  PROVE  DeviceStep
<1>1. worker' = worker /\ cow[i].pc \in {"work", "read", "write"}
      /\ cow \in [CowIds -> CowRecords]
  BY DEF CowAlloc, CowRead, CowWrite, Known, SnapInv, Types
<1>2. ASSUME worker.pc = "finish" PROVE Next1 \in CowIds /\ Next1 # i /\ cow[Next1].pc = "pend"
  <2>1. PICK j \in CowIds : j = Next1 /\ cow[j].pc = "pend"
    BY <1>2, BatchHead DEF Known, SnapInv, WorkerShape
  <2> QED
    BY <1>1, <2>1
<1>3. ASSUME \A j \in CowIds \ {i} : cow'[j] = cow[j]
      PROVE  \A r : DoneBy(r)' <=> DoneBy(r)
  BY <1>1, <1>2, <1>3 DEF DoneBy, Next1
<1>4. CASE CowAlloc(i) /\ FinishCow(i, "error", FALSE, i)
  <2>1. \A j \in CowIds \ {i} : cow'[j] = cow[j]
    BY <1>1, <1>4 DEF FinishCow
  <2>2. UNCHANGED <<origin, snaps, exc, disk, disc>>
    BY <1>4, CowAllocDevice
  <2>3. ~DoneBy(cow[i].r)
    <3>1. ASSUME DoneBy(cow[i].r) PROVE FALSE
      <4>1. PICK j \in CowIds : j = Next1 /\ cow[j].pc = "pend" /\ cow[j].r = cow[i].r
        BY <3>1, DoneIsCopied
      <4> QED
        BY <1>1, <4>1 DEF Known, DeviceInv, UseShape, RequestShape
    <3> QED
      BY <3>1
  <2> QED
    BY <1>1, <1>3, <1>4, <2>1, <2>2, <2>3, FinishShows
<1>5. CASE CowAlloc(i) /\ req' = req
           /\ \E c \in CowRecords : cow' = [cow EXCEPT ![i] = c]
  <2>1. UNCHANGED <<origin, snaps, exc, disk, disc>> /\ \A j \in CowIds \ {i} : cow'[j] = cow[j]
    BY <1>1, <1>5, CowAllocDevice
  <2>2. IO' = IO
    BY <1>3, <1>5, <2>1, StillAlike, NoIoChanges
  <2>3. UNCHANGED <<Store, Images, Discarding>>
    BY <2>1, NothingMoves DEF Discarding
  <2> QED
    BY <2>2, <2>3 DEF DeviceStep
<1>6. CASE CowRead(i) \/ CowWrite(i)
  <2>1. /\ UNCHANGED <<origin, snaps, exc, req, disc>>
        /\ cow[i].pc \in {"read", "write"}
        /\ \A j \in CowIds \ {i} : cow'[j] = cow[j]
        /\ \A P \in Physical : P # cow[i].newP => disk'[P] = disk[P]
    BY <1>6, CowIoDevice
  <2>2. IO' = IO
    BY <1>3, <2>1, StillAlike, NoIoChanges
  <2>3. /\ \A M \in Origin : origin[M] # cow[i].newP
        /\ \A g \in Slots, M \in Origin : ~SHas(g, M, cow[i].newP)
    BY <2>1, NewRowApart
  <2>4. Images' = Images
    <3>1. ~RowsHandedOn(cmd.g)
      BY <1>1, AtWork
    <3> QED
      BY <2>1, <2>3, <3>1, ImagesKept
  <2>5. Store' = Store
    <3>1. origin \in [Origin -> Physical]
      BY DEF Known, SnapInv, Types
    <3> QED
      BY <2>1, <2>3, <3>1, StoreStands
  <2> QED
    BY <2>1, <2>2, <2>4, <2>5 DEF DeviceStep, Discarding
<1> QED
  BY <1>4, <1>5, <1>6, CowAllocDevice

LEMMA EndShows ==
  ASSUME Known, Known', CommitDropFailed \/ FinishRedirect \/ (CommitFailed /\ Next1 # Command)
  PROVE  DeviceStep
<1>1. UNCHANGED <<origin, snaps, exc, disk, disc>>
  BY FinishSteps
<1>2. PICK i \in CowIds, st \in {"ok", "error"}, undo \in BOOLEAN :
        /\ cow[i].pc = "pend" /\ FinishCow(i, st, undo, CommitWorker)
        /\ FinishRedirect => Inside(i) /\ worker.pc = "finish" /\ st = "ok"
        /\ ~FinishRedirect => ~(Inside(i) /\ worker.pc = "finish") /\ st = "error"
  BY FinishSteps
<1>3. worker'.pc # "finish"
  <2>1. CASE CommitDropFailed
    BY <2>1 DEF CommitDropFailed, Known, SnapInv, Types, WorkerRecords
  <2>2. CASE FinishRedirect \/ CommitFailed
    BY <2>2, FinishRedirectKeeps, CommitFailedKeeps DEF Known, Advances
  <2> QED
    BY <2>1, <2>2
<1>4. \A r : ~DoneBy(r)'
  BY <1>3 DEF DoneBy
<1>5. CASE FinishRedirect
  <2>1. Next1 = i /\ worker.pc = "finish" /\ st = "ok"
    BY <1>2, <1>5 DEF Inside
  <2>2. \A r : DoneBy(r) <=> r = cow[i].r
    BY <2>1 DEF DoneBy
  <2> QED
    BY <1>1, <1>2, <1>4, <2>1, <2>2, FinishShows
<1>6. CASE ~FinishRedirect
  <2>1. worker.pc # "finish"
    BY <1>6 DEF CommitDropFailed, CommitFailed
  <2>2. \A r : ~DoneBy(r)
    BY <2>1 DEF DoneBy
  <2>3. st = "error"
    BY <1>2, <1>6
  <2> QED
    BY <1>1, <1>2, <1>4, <2>2, <2>3, FinishShows
<1> QED
  BY <1>5, <1>6

\* The old row goes to the newest snapshot.
LEMMA ExceptionShows ==
  ASSUME Known, Known', ApplyException
  PROVE  DeviceStep
<1>1. /\ UNCHANGED <<origin, snaps, disk, req, disc>> /\ worker.pc = "apply"
      /\ AllImages /\ worker'.pc = "half"
  BY ApplyExceptionReads, ApplyExceptionKeeps DEF ApplyException, Applying, control, users, Known
<1>2. Images' = Images
  BY <1>1, ImagesStand DEF AllImages, InChain
<1>3. IO' = IO
  BY <1>1, StillAlike, NoIoChanges DEF DoneBy
<1>4. Store' = Store
  BY <1>1, StoreStands
<1> QED
  BY <1>1, <1>2, <1>3, <1>4 DEF DeviceStep, Discarding

LEMMA MarkDone ==
  ASSUME NEW x, NEW L, NEW w, NEW v,
         x = [op |-> "write", L |-> L, whole |-> w, val |-> v, done |-> FALSE]
  PROVE  [x EXCEPT !.done = TRUE] =
           [op |-> "write", L |-> L, whole |-> w, val |-> v, done |-> TRUE]
<1> DEFINE y == [x EXCEPT !.done = TRUE]
<1>1. x \in [op : {"write"}, L : {L}, whole : {w}, val : {v}, done : {FALSE}]
  OBVIOUS
<1>2. y \in [op : {"write"}, L : {L}, whole : {w}, val : {v}, done : {TRUE}]
  BY <1>1
<1> HIDE DEF y
<1>3. y = [op |-> "write", L |-> L, whole |-> w, val |-> v, done |-> TRUE]
  BY <1>2
<1> QED
  BY <1>3 DEF y

\* The origin's new row: the write takes effect.
LEMMA OriginShows ==
  ASSUME Known, Known', ApplyOrigin
  PROVE  DeviceStep
<1>1. /\ worker.pc = "half" /\ Next1 # Command
      /\ origin' = [origin EXCEPT ![cow[Next1].L] = cow[Next1].newP]
      /\ UNCHANGED <<snaps, exc, cow, disk, disc>>
      /\ req' = Observed(req)
      /\ worker'.pc = "finish" /\ worker'.batch = worker.batch /\ AllImages
  BY ApplyOriginKeeps, ApplyOriginReads DEF ApplyOrigin, control, copies, Known
<1>2. PICK i \in CowIds : i = Next1 /\ cow[i].pc = "pend" /\ In(i, worker.batch)
  BY <1>1, BatchHead DEF Known, SnapInv, WorkerShape
<1>3. PICK L \in Origin : L = cow[i].L
  BY <1>2, CopyRow DEF HasRows, Known
<1>4. PICK b \in Requests : b = cow[i].r
  BY <1>2 DEF Known, SnapInv, CowShape
<1>5. req[b].op = "write" /\ req[b].L = L /\ cow[i].ok
  BY <1>1, <1>2, <1>3, <1>4 DEF Known, DeviceInv, UseShape, RequestShape, RecordShape
<1>6. disk[cow[i].newP] = Written(disk[origin[L]], req[b])
  <2>1. origin[L] = cow[i].oldP
    BY <1>1, <1>2, <1>3 DEF Known, OwnInv, CopyShape, HasRows
  <2> QED
    BY <1>1, <1>2, <1>4, <1>5, <2>1 DEF Known, DeviceInv, BufShape
<1>7. \A s \in Requests : AlikeBio(req'[s], req[s])
  BY <1>1, ObservedAlike DEF AlikeBios, Known, SnapInv, Types
<1>8. \A r : ~DoneBy(r) /\ (DoneBy(r)' <=> r = b)
  BY <1>1, <1>2, <1>4 DEF DoneBy, Next1
<1>9. /\ IO' = [IO EXCEPT ![b] = IoOf(req'[b], DoneBy(b)')]
      /\ IO[b] = IoOf(req[b], DoneBy(b))
  BY <1>7, <1>8, OneIoChanges
<1>10. DoneBy(b) = FALSE /\ DoneBy(b)' = TRUE
  BY <1>8 DEF DoneBy
<1>11. /\ IO[b] = [op |-> "write", L |-> L, whole |-> req[b].whole, val |-> req[b].val, done |-> FALSE]
       /\ IO' = [IO EXCEPT ![b] = [op |-> "write", L |-> L, whole |-> req[b].whole,
                                   val |-> req[b].val, done |-> TRUE]]
  <2>1. AlikeBio(req'[b], req[b])
    BY <1>7
  <2> QED
    BY <1>5, <1>9, <1>10, <2>1 DEF IoOf, AlikeBio
<1>12. IO' = [IO EXCEPT ![b].done = TRUE]
  <2> DEFINE y == [IO[b] EXCEPT !.done = TRUE]
  <2>1. y = [op |-> "write", L |-> L, whole |-> req[b].whole, val |-> req[b].val, done |-> TRUE]
    BY <1>11, MarkDone
  <2> HIDE DEF y
  <2>2. IO' = [IO EXCEPT ![b] = y]
    BY <1>11, <2>1
  <2> QED
    BY <2>2 DEF y
<1>13. Images' = Images
  BY <1>1, ImagesStand DEF AllImages, InChain
<1>14. Store' = [Store EXCEPT ![L] = Written(Store[L], IO[b])]
  <2>1. \A M \in Origin : origin'[M] = IF M = L THEN cow[i].newP ELSE origin[M]
    BY <1>1, <1>2, <1>3 DEF Known, SnapInv, Types
  <2>2. \A M \in Origin : disk'[origin'[M]] = IF M = L THEN Written(disk[origin[L]], req[b])
                                              ELSE disk[origin[M]]
    BY <1>1, <1>6, <2>1
  <2>3. Written(Store[L], IO[b]) = Written(disk[origin[L]], req[b])
    BY <1>11 DEF Written, Store
  <2> QED
    BY <2>2, <2>3 DEF Store
<1>15. IO[b].op = "write" /\ ~IO[b].done /\ IO[b].L = L
  BY <1>11
<1>16. Discarding' = Discarding
  BY <1>1 DEF Discarding
<1>17. Device!TakesEffect(b)
  BY <1>13, <1>14, <1>15, <1>16 DEF Device!TakesEffect, Written
<1>18. Device!Effect(b)
  BY <1>12, <1>17 DEF Device!Effect
<1> QED
  BY <1>18 DEF DeviceStep, Device!Next

\* The image of the origin as it is.
LEMMA CreateShows ==
  ASSUME Known, Known', ApplyCreate
  PROVE  DeviceStep
<1>1. /\ snaps' = Append(snaps, cmd.g) /\ worker.pc = "apply"
      /\ exc' = [exc EXCEPT ![cmd.g] = [L \in Origin |-> None]]
      /\ UNCHANGED <<origin, disk, req, disc>>
      /\ AllImages /\ CommandDone /\ cmd.g \in Slots /\ ~InChain(cmd.g)
  BY ApplyCreateReads, ApplyCreateKeeps DEF ApplyCreate, Applying, users, Known
<1>2. PICK h \in Slots : h = cmd.g
  BY <1>1
<1>3. Maps(origin, snaps, exc) /\ \A g : InChain(g) <=> In(g, snaps)
  BY ChainTypes DEF Maps, Known
<1>4. \A g : InChain(g)' <=> InChain(g) \/ g = h
  <2>1. \A g : In(g, snaps') <=> In(g, snaps) \/ g = h
    BY <1>1, <1>2, <1>3, InAppend DEF Maps
  <2> QED
    BY <1>3, <2>1 DEF InChain, In
<1>5. ASSUME NEW M \in Origin PROVE Lookup(h, M)' = origin[M]
  <2>1. PICK t \in Seq(Slots) : t = snaps'
    BY <1>1, <1>2, <1>3, AppendProperties DEF Maps
  <2>2. /\ DOMAIN t = 1..(Len(snaps) + 1) /\ t[Len(snaps) + 1] = h /\ Len(snaps) \in Nat
        /\ Distinct(t)
    BY <1>1, <1>2, <1>3, <2>1, AppendProperties, LenProperties, InAppend DEF Maps
  <2>3. PICK p \in DOMAIN t : p = Len(snaps) + 1 /\ t[p] = h
    BY <2>2
  <2>4. \A m \in DOMAIN t : m >= p => exc'[t[m]][M] = None
    <3>1. exc'[h][M] = None
      BY <1>1, <1>2, <1>3 DEF Maps, Copies
    <3>2. \A m \in DOMAIN t : m >= p => m = p
      BY <2>2, <2>3
    <3> QED
      BY <2>3, <3>1, <3>2
  <2>5. LookupIn(origin', t, exc', t[p], M) = origin'[M]
    BY <2>2, <2>4, LookupOrigin
  <2> QED
    BY <1>1, <2>1, <2>3, <2>5, LookupDef
<1>6. Store' = Store
  BY <1>1, StoreStands
<1>7. IO' = IO
  <2>1. worker'.pc # "finish"
    BY <1>1 DEF CommandDone, Advances
  <2> QED
    BY <1>1, <2>1, StillAlike, NoIoChanges DEF DoneBy
<1>8. /\ DOMAIN Images = {g \in Slots : InChain(g)}
      /\ DOMAIN Images' = DOMAIN Images \cup {h}
      /\ h \notin DOMAIN Images
  BY <1>1, <1>2, <1>4 DEF Images
<1>9. Images' = [g \in DOMAIN Images \cup {h} |-> IF g = h THEN Store ELSE Images[g]]
  <2>1. Images' = [g \in {x \in Slots : InChain(x)'} |-> [L \in Origin |-> disk'[Lookup(g, L)']]]
    BY DEF Images
  <2>2. {x \in Slots : InChain(x)'} = DOMAIN Images \cup {h}
    BY <1>4, <1>8
  <2>3. ASSUME NEW g \in DOMAIN Images \cup {h}
        PROVE  [L \in Origin |-> disk'[Lookup(g, L)']] = IF g = h THEN Store ELSE Images[g]
    <3>1. CASE g = h
      BY <1>1, <1>5, <3>1 DEF Store
    <3>2. CASE g # h
      <4>1. g \in Slots /\ InChain(g)
        BY <1>8, <3>2
      <4>2. Images[g] = [L \in Origin |-> disk[Lookup(g, L)]]
        BY <4>1 DEF Images
      <4> QED
        BY <1>1, <3>2, <4>1, <4>2 DEF AllImages
    <3> QED
      BY <3>1, <3>2
  <2> QED
    BY <2>1, <2>2, <2>3
<1>10. Device!Create(h)
  BY <1>1, <1>6, <1>7, <1>8, <1>9 DEF Device!Create, Discarding
<1> QED
  BY <1>10 DEF DeviceStep, Device!Next

LEMMA HandOverShows ==
  ASSUME Known, Known', ApplyDestroyRows
  PROVE  DeviceStep
<1>1. /\ UNCHANGED <<origin, snaps, disk, req, disc>> /\ worker.pc = "apply"
      /\ AllImages /\ worker'.pc = "half"
  BY ApplyDestroyRowsReads, ApplyDestroyRowsKeeps DEF ApplyDestroyRows, Applying, users, Known
<1>2. Images' = Images
  BY <1>1, ImagesStand DEF AllImages, InChain
<1>3. IO' = IO
  BY <1>1, StillAlike, NoIoChanges DEF DoneBy
<1>4. Store' = Store
  BY <1>1, StoreStands
<1> QED
  BY <1>1, <1>2, <1>3, <1>4 DEF DeviceStep, Discarding

LEMMA DestroyShows ==
  ASSUME Known, Known', ApplyDestroyLink
  PROVE  DeviceStep
<1>1. /\ snaps' = Without(snaps, Place(cmd.g)) /\ worker.pc = "half"
      /\ UNCHANGED <<origin, disk, req, disc>>
      /\ SameImages /\ CommandDone /\ cmd.g \in Slots /\ InChain(cmd.g)
  BY ApplyDestroyLinkReads, ApplyDestroyLinkKeeps DEF ApplyDestroyLink, users, Known
<1>2. PICK h \in Slots : h = cmd.g
  BY <1>1
<1>3. Maps(origin, snaps, exc) /\ \A g : InChain(g) <=> In(g, snaps)
  BY ChainTypes DEF Maps, Known
<1>4. \A g : InChain(g)' <=> InChain(g) /\ g # h
  <2>1. Place(h) \in DOMAIN snaps /\ snaps[Place(h)] = h
    BY <1>1, <1>2, PlaceInChain
  <2>2. \A g : In(g, snaps') <=> In(g, snaps) /\ g # h
    BY <1>1, <1>2, <1>3, <2>1, InWithout DEF Maps
  <2> QED
    BY <1>3, <2>2 DEF InChain, In
<1>5. Store' = Store
  BY <1>1, StoreStands
<1>6. cmd.pc = "commit"
  BY <1>1, BatchHead DEF CommandDone, Known, SnapInv
<1>7. IO' = IO
  <2>1. worker'.pc # "finish"
    BY <1>1 DEF CommandDone, Advances
  <2> QED
    BY <1>1, <2>1, StillAlike, NoIoChanges DEF DoneBy
<1>8. DOMAIN Images = {g \in Slots : InChain(g)} /\ h \in DOMAIN Images
  BY <1>1, <1>2 DEF Images
<1>9. Images' = [g \in DOMAIN Images \ {h} |-> Images[g]]
  <2>1. Images' = [g \in {x \in Slots : InChain(x)'} |-> [L \in Origin |-> disk'[Lookup(g, L)']]]
    BY DEF Images
  <2>2. {x \in Slots : InChain(x)'} = DOMAIN Images \ {h}
    BY <1>4, <1>8
  <2>3. ASSUME NEW g \in DOMAIN Images \ {h}
        PROVE  [L \in Origin |-> disk'[Lookup(g, L)']] = Images[g]
    <3>1. g \in Slots /\ InChain(g) /\ LeftAlone(g)
      BY <1>2, <1>8 DEF LeftAlone
    <3>2. Images[g] = [L \in Origin |-> disk[Lookup(g, L)]]
      BY <3>1 DEF Images
    <3> QED
      BY <1>1, <3>1, <3>2 DEF SameImages
  <2> QED
    BY <2>1, <2>2, <2>3
<1>10. Device!Destroy(h)
  BY <1>1, <1>5, <1>7, <1>8, <1>9 DEF Device!Destroy, Discarding
<1> QED
  BY <1>10 DEF DeviceStep, Device!Next

\* Steps that no user sees.
LEMMA QuietShows ==
  ASSUME Known, Known',
         \/ \E a \in Agents : CowGone(a)
         \/ CommitTake \/ CommitRecord \/ (CommitFailed /\ Next1 = Command)
         \/ Create \/ Destroy \/ Commands
         \/ UNCHANGED vars
  PROVE  DeviceStep
<1>1. UNCHANGED <<origin, snaps, exc, cow, disk, req, disc>>
  BY QuietSteps, UnholdDevice, CommitFailedCommand
     DEF Commands, vars, maps, copies, users
<1>2. worker' = worker \/ (worker.pc # "finish" /\ worker'.pc # "finish")
  <2>1. CASE CommitTake
    BY <2>1 DEF CommitTake, Known, SnapInv, Types, WorkerRecords
  <2>2. CASE CommitRecord
    <3>1. worker.pc = "build" /\ worker \in WorkerRecords
      BY <2>2 DEF CommitRecord, Known, SnapInv, Types
    <3>2. \/ worker' = IdleWorker
          \/ \E out \in {"ok", "undo", "keep"} :
               worker' = [worker EXCEPT !.pc = "apply", !.out = out]
      BY <2>2 DEF CommitRecord
    <3>3. CASE worker' = IdleWorker
      BY <3>1, <3>3 DEF IdleWorker
    <3>4. ASSUME NEW out \in {"ok", "undo", "keep"},
                 worker' = [worker EXCEPT !.pc = "apply", !.out = out]
          PROVE  worker'.pc = "apply"
      BY <3>1, <3>4 DEF WorkerRecords
    <3> QED
      BY <3>1, <3>2, <3>3, <3>4
  <2>3. CASE CommitFailed
    BY <2>3, CommitFailedKeeps DEF CommitFailed, Advances, Known
  <2>4. CASE \/ \E a \in Agents : CowGone(a)
             \/ Create \/ Destroy \/ Commands
             \/ UNCHANGED vars
    BY <2>4 DEF CowGone, Create, Destroy, StartCommand, Commands, Suspend, SubmitCommand, Resume,
                Unhold, EndCommand, vars, workers
  <2> QED
    BY <2>1, <2>2, <2>3, <2>4
<1>3. \A r : DoneBy(r)' <=> DoneBy(r)
  BY <1>1, <1>2 DEF DoneBy, Next1
<1>4. IO' = IO
  BY <1>1, <1>3, StillAlike, NoIoChanges
<1>5. UNCHANGED <<Store, Images, Discarding>>
  BY <1>1, NothingMoves DEF Discarding
<1> QED
  BY <1>4, <1>5 DEF DeviceStep

LEMMA StepShows == Known /\ Known' /\ [Next]_vars => DeviceStep
<1> SUFFICES ASSUME Known, Known', [Next]_vars PROVE DeviceStep
  OBVIOUS
<1>1. CASE Commit
  BY <1>1, EndShows, QuietShows, ExceptionShows, OriginShows, CreateShows, HandOverShows, DestroyShows
     DEF Commit
<1>2. CASE UserStep
  BY <1>2, UserShows
<1>3. ASSUME NEW i \in CowIds, CowAlloc(i) \/ CowRead(i) \/ CowWrite(i) PROVE DeviceStep
  BY <1>3, CopyShows
<1>4. CASE \/ \E a \in Agents : CowGone(a)
           \/ Create \/ Destroy \/ Commands
           \/ UNCHANGED vars
  BY <1>4, QuietShows
<1> QED
  BY <1>1, <1>2, <1>3, <1>4, StepCases

\* Without snapshots there is no image.
LEMMA EmptyImages ==
  ASSUME snaps = <<>>
  PROVE  Images = <<>>
<1>1. DOMAIN Images = {}
  BY DEF Images, InChain
<1>2. Images = [g \in {} |-> Images[g]]
  BY <1>1 DEF Images
<1>3. Images \in Seq({})
  <2>1. 1..0 = {}
    OBVIOUS
  <2>2. Images \in [1..0 -> {}]
    BY <1>2, <2>1
  <2> QED
    BY <2>2, SeqDef
<1>4. Len(Images) = 0
  BY <1>1, <1>3, LenProperties
<1> QED
  BY <1>3, <1>4, EmptySeq

LEMMA InitShows == Init => Device!Init
<1> SUFFICES ASSUME Init PROVE Device!Init
  OBVIOUS
<1>1. Known
  BY InitSnapInv, InitOwnInv, InitReadInv, InitDevice DEF Known
<1>2. Store \in [Origin -> Int \X Int]
  <2>1. disk \in [Physical -> Pairs] /\ origin \in [Origin -> Physical]
    BY <1>1 DEF Known, SnapInv, Types
  <2> QED
    BY <2>1 DEF Store, Pairs
<1>3. Images = <<>>
  BY EmptyImages DEF Init
<1>4. IO \in [Requests -> Device!NoWrite]
  <2>1. \A r \in Requests : IO[r] = [op |-> "none", st |-> "none"]
    BY DEF Init, IdleRequest, IO
  <2>2. IO = [r \in Requests |-> IO[r]]
    BY DEF IO
  <2> QED
    BY <2>1, <2>2 DEF Device!NoWrite
<1>5. Discarding = {}
  BY DEF Init, IdleDiscard, Discarding
<1> QED
  BY <1>2, <1>3, <1>4, <1>5 DEF Device!Init

\* The origin is a store of rows in which every write takes effect once, if it
\* succeeds and not otherwise, and every snapshot is an unchanging image of the
\* whole origin at one moment: no redirect, move or free of a row shows, for any
\* number of bios, rows, snapshots and copies.
THEOREM SnapshotsAreImages == Spec => IsSnapDevice
<1>1. Known /\ Known' /\ [Next]_vars => [Device!Next]_(Device!vars)
  BY StepShows DEF DeviceStep, Device!vars
<1> QED
  BY <1>1, KnownHolds, InitShows, PTL DEF Spec, IsSnapDevice, Device!Spec

=============================================================================
