--------------------------- MODULE RaidkmRowProofs ---------------------------
(***************************************************************************)
(* The row layer, for any row, any number of requests and any bounds.      *)
(*                                                                         *)
(* QuiesceInv is why the three things that quiesce waits for are enough:   *)
(* whoever may touch a member is known to one of them from before it last  *)
(* looked at conf->quiesce until after its last bio.                       *)
(*                                                                         *)
(* LockInv says who has the row and its stripes, and what the superblocks  *)
(* record; it needs no more than the code.                                 *)
(*                                                                         *)
(* ContentInv says that there are data that the members, the cached pages, *)
(* the pass and the readers agree on, but for the blocks that a write has  *)
(* under way: while a stripe is written there are the old data and the     *)
(* new.  It holds as long as the array is Careful: the code relies on what *)
(* Careful says, and three findings are about what happens without.        *)
(***************************************************************************)
EXTENDS RaidkmRow, TLAPS, FiniteSetTheorems, WellFoundedInduction

RequestFields ==
  {"kind", "stage", "todo", "at", "blk", "val", "wait", "waited", "retry", "out",
   "failed", "missing", "src", "got", "page", "gen0", "may", "answer"}
PassFields ==
  {"kind", "stage", "target", "members", "claimed", "got", "out", "ok", "left", "tries"}
StripeFields == {"held", "owner", "mark", "uptodate", "page"}

\* In the stripe cache with a stripe in hand; between row_writes' two ends; with
\* bios out or yet to be counted out.
Holding == {"attach", "handle", "land", "note", "ack"}
Fenced == {"lock", "walk", "recheck", "rowland", "sbwait", "rowend"}
Busy == Holding \cup {"rowland", "sbwait", "rowend"}
Writers == {"land", "note", "ack", "prep", "fence"} \cup Fenced
Reading == {"pick", "gen", "count", "confirm", "quiesced", "reading"}

FunctionOn(f, S) == f = [x \in S |-> f[x]]

Shapes ==
  /\ FunctionOn(req, Requests) /\ \A q \in Requests : DOMAIN req[q] = RequestFields
  /\ FunctionOn(sh, Stripes) /\ \A s \in Stripes : DOMAIN sh[s] = StripeFields
  /\ DOMAIN pass = PassFields
  /\ DOMAIN bucket = {"inflight", "gen"}

\* Request q, and who counts it: its stripe, active_aligned_reads, row_writes.
Counted(q) ==
  /\ req[q].todo \subseteq Stripes
  /\ req[q].stage # "idle" => req[q].todo # {}
  /\ req[q].kind = "read" => \E s \in Stripes : req[q].todo = {s}
  /\ req[q].stage \in Writers => req[q].kind = "write"
  /\ req[q].stage \in Reading => req[q].kind = "read"
  /\ req[q].stage \in Holding => req[q].at \in req[q].todo /\ q \in sh[req[q].at].held
  /\ req[q].retry \in BOOLEAN
  /\ req[q].retry => /\ req[q].kind = "read"
                      /\ \/ req[q].stage \in {"get", "attach", "handle"} /\ q \in aligned
                         \/ req[q].stage = "end"
  /\ req[q].stage \in {"confirm", "reading"} => q \in aligned
  /\ req[q].stage \in Fenced => q \in rowWrites

\* The pass holds what it claimed, and a repair works on the row under a claim only.
PassHolds ==
  /\ pass.claimed \subseteq Stripes
  /\ \A s \in pass.claimed : Sync \in sh[s].held
  /\ pass.stage \in {"fence", "pick"} => pass.claimed = {}
  /\ pass.stage = "claim" => pass.claimed # Stripes
  /\ pass.kind = "repair" /\ pass.stage \in {"recheck", "read", "write"}
       => pass.claimed = Stripes

\* The bucket counts the writers that have bios out.
InFlight == {q \in Requests : req[q].stage \in {"land", "rowland"}}
BucketCounts == IsFiniteSet(InFlight) /\ bucket.inflight = Cardinality(InFlight)

Quiet ==
  quiesce = "on" =>
    /\ aligned = {}
    /\ \A q \in Requests : req[q].stage \notin Busy
    /\ pass.kind = "repair" => pass.stage \notin {"read", "write"}

QuiesceInv ==
  /\ Shapes
  /\ \A q \in Requests : Counted(q)
  /\ PassHolds
  /\ BucketCounts
  /\ Quiet

-----------------------------------------------------------------------------
(* Steps of one request. *)

Alike(x, y) ==
  /\ DOMAIN y = DOMAIN x
  /\ y.stage = x.stage /\ y.at = x.at /\ y.todo = x.todo
  /\ y.kind = x.kind /\ y.retry = x.retry

\* A step of r, or of nobody if r is no request, leaves the others counted.
StepOf(r) ==
  /\ FunctionOn(req', Requests)
  /\ \A q \in Requests \ {r} : Alike(req[q], req'[q])
  /\ FunctionOn(sh', Stripes) /\ \A s \in Stripes : DOMAIN sh'[s] = StripeFields
  /\ \A s \in Stripes : sh[s].held \ {r} \subseteq sh'[s].held
  /\ aligned \ {r} \subseteq aligned' /\ aligned' \subseteq aligned \cup {r}
  /\ rowWrites \ {r} \subseteq rowWrites'
  /\ quiesce' = quiesce
  /\ DOMAIN bucket' = DOMAIN bucket
  /\ DOMAIN pass' = PassFields /\ pass'.stage = pass.stage /\ pass'.kind = pass.kind
  /\ pass'.claimed = pass.claimed

LEMMA StepKeeps ==
  ASSUME NEW r \in Requests, QuiesceInv, StepOf(r),
         DOMAIN req'[r] = RequestFields, Counted(r)', BucketCounts',
         quiesce = "on" => r \notin aligned' /\ req'[r].stage \notin Busy
  PROVE  QuiesceInv'
<1>1. Shapes'
  <2>1. \A q \in Requests : DOMAIN req'[q] = RequestFields
    BY DEF QuiesceInv, Shapes, StepOf, Alike
  <2> QED
    BY <2>1 DEF QuiesceInv, Shapes, StepOf
<1>2. ASSUME NEW q \in Requests PROVE Counted(q)'
  <2>1. CASE q = r
    BY <2>1
  <2>2. CASE q # r
    <3>1. Alike(req[q], req'[q])
      BY <2>2 DEF StepOf
    <3>2. \A s \in Stripes : q \in sh[s].held => q \in sh'[s].held
      BY <2>2 DEF StepOf
    <3>3. (q \in aligned => q \in aligned') /\ (q \in rowWrites => q \in rowWrites')
      BY <2>2 DEF StepOf
    <3> QED
      BY <3>1, <3>2, <3>3 DEF QuiesceInv, Counted, Alike
  <2> QED
    BY <2>1, <2>2
<1>3. PassHolds'
  <2>1. \A s \in Stripes : Sync \in sh[s].held => Sync \in sh'[s].held
    BY RowAssumption DEF StepOf
  <2> QED
    BY <2>1 DEF QuiesceInv, PassHolds, StepOf
<1>4. Quiet'
  BY DEF QuiesceInv, Quiet, StepOf, Alike
<1> QED
  BY <1>1, <1>2, <1>3, <1>4 DEF QuiesceInv

\* A request that has bios out neither before nor after leaves the bucket alone.
LEMMA SameCount ==
  ASSUME NEW r \in Requests, QuiesceInv, StepOf(r), bucket' = bucket,
         req[r].stage \in {"land", "rowland"} <=> req'[r].stage \in {"land", "rowland"}
  PROVE  BucketCounts'
<1>1. InFlight' = InFlight
  BY DEF StepOf, Alike, InFlight
<1> QED
  BY <1>1 DEF QuiesceInv, BucketCounts

LEMMA OneMore ==
  ASSUME NEW r \in Requests, QuiesceInv, StepOf(r), CountIn,
         req[r].stage \notin {"land", "rowland"}, req'[r].stage \in {"land", "rowland"}
  PROVE  BucketCounts'
<1>1. InFlight' = InFlight \cup {r} /\ r \notin InFlight
  BY DEF StepOf, Alike, InFlight
<1>2. bucket'.inflight = bucket.inflight + 1
  BY DEF CountIn
<1> QED
  BY <1>1, <1>2, FS_AddElement DEF QuiesceInv, BucketCounts

LEMMA OneLess ==
  ASSUME NEW r \in Requests, QuiesceInv, StepOf(r),
         bucket' = [bucket EXCEPT !.inflight = @ - 1],
         req[r].stage \in {"land", "rowland"}, req'[r].stage \notin {"land", "rowland"}
  PROVE  BucketCounts'
<1>1. InFlight' = InFlight \ {r} /\ r \in InFlight
  BY DEF StepOf, Alike, InFlight
<1>2. bucket'.inflight = bucket.inflight - 1
  BY DEF QuiesceInv, Shapes
<1> QED
  BY <1>1, <1>2, FS_RemoveElement DEF QuiesceInv, BucketCounts

LEMMA FirstExists ==
  ASSUME NEW S \in SUBSET Stripes, S # {}
  PROVE  FirstOf(S) \in S
<1>1. S \subseteq Nat
  BY RowAssumption
<1>2. PICK s \in S : \A t \in S : ~(<<t, s>> \in OpToRel(<, Nat))
  BY <1>1, NatLessThanWellFounded, WFMin
<1>3. \A t \in S : ~(t < s)
  BY <1>1, <1>2 DEF OpToRel
<1>4. \A t \in S : s <= t
  BY <1>1, <1>3
<1> QED
  BY <1>4 DEF FirstOf

LEMMA GetWaitsKeeps ==
  ASSUME NEW r \in Requests, QuiesceInv, GetWaits(r)
  PROVE  QuiesceInv'
<1>1. /\ FunctionOn(req', Requests)
      /\ \A q \in Requests : Alike(req[q], req'[q])
  BY DEF GetWaits, QuiesceInv, Shapes, Alike, FunctionOn, RequestFields
<1>2. StepOf(r)
  BY <1>1 DEF GetWaits, QuiesceInv, Shapes, StepOf
<1>3. DOMAIN req'[r] = RequestFields
  BY <1>1 DEF QuiesceInv, Shapes, Alike
<1>4. Counted(r)'
  BY <1>1 DEF GetWaits, QuiesceInv, Counted, Alike
<1>5. BucketCounts'
  BY <1>1, <1>2, SameCount DEF GetWaits, Alike
<1>6. quiesce = "on" => r \notin aligned' /\ req'[r].stage \notin Busy
  BY <1>1 DEF GetWaits, QuiesceInv, Quiet, Alike
<1> QED
  BY <1>2, <1>3, <1>4, <1>5, <1>6, StepKeeps

LEMMA GetKeeps ==
  ASSUME NEW r \in Requests, QuiesceInv, Get(r)
  PROVE  QuiesceInv'
<1> DEFINE s == FirstOf(req[r].todo)
<1>1. s \in req[r].todo /\ s \in Stripes
  BY FirstExists DEF Get, QuiesceInv, Counted
<1>2. FunctionOn(req', Requests) /\ \A q \in Requests \ {r} : req'[q] = req[q]
  BY DEF Get, QuiesceInv, Shapes, FunctionOn
<1>3. /\ req'[r].stage = "attach" /\ req'[r].at = s /\ req'[r].todo = req[r].todo
      /\ req'[r].kind = req[r].kind /\ req'[r].retry = req[r].retry
      /\ DOMAIN req'[r] = RequestFields
  BY DEF Get, QuiesceInv, Shapes, FunctionOn, RequestFields
<1> HIDE DEF s
<1>4. sh' = [sh EXCEPT ![s].held = @ \cup {r}]
  BY DEF Get, s
<1>5. /\ FunctionOn(sh', Stripes) /\ \A t \in Stripes : DOMAIN sh'[t] = StripeFields
      /\ \A t \in Stripes : sh[t].held \ {r} \subseteq sh'[t].held
      /\ r \in sh'[s].held
  BY <1>1, <1>4 DEF QuiesceInv, Shapes, FunctionOn, StripeFields
<1>6. StepOf(r)
  BY <1>2, <1>5 DEF Get, locks, QuiesceInv, Shapes, StepOf, Alike
<1>7. Counted(r)'
  BY <1>1, <1>3, <1>5 DEF Get, QuiesceInv, Counted, Writers, Reading, Holding, Fenced
<1>8. BucketCounts'
  BY <1>3, <1>6, SameCount DEF Get
<1>9. quiesce = "on" => r \notin aligned' /\ req'[r].stage \notin Busy
  BY DEF Get, QuiesceInv, Quiet, Counted
<1> QED
  BY <1>3, <1>6, <1>7, <1>8, <1>9, StepKeeps

LEMMA BounceKeeps ==
  ASSUME NEW r \in Requests, QuiesceInv, Bounce(r)
  PROVE  QuiesceInv'
<1> DEFINE s == req[r].at
<1>1. s \in req[r].todo /\ s \in Stripes
  BY DEF Bounce, QuiesceInv, Counted, Holding
<1>2. FunctionOn(req', Requests) /\ \A q \in Requests \ {r} : req'[q] = req[q]
  BY DEF Bounce, QuiesceInv, Shapes, FunctionOn
<1>3. /\ req'[r].stage = "get" /\ req'[r].todo = req[r].todo
      /\ req'[r].kind = req[r].kind /\ req'[r].retry = req[r].retry
      /\ DOMAIN req'[r] = RequestFields
  BY DEF Bounce, QuiesceInv, Shapes, FunctionOn, RequestFields
<1>4. sh' = [sh EXCEPT ![s].held = @ \ {r}]
  BY DEF Bounce
<1> HIDE DEF s
<1>5. /\ FunctionOn(sh', Stripes) /\ \A t \in Stripes : DOMAIN sh'[t] = StripeFields
      /\ \A t \in Stripes : sh[t].held \ {r} \subseteq sh'[t].held
  BY <1>1, <1>4 DEF QuiesceInv, Shapes, FunctionOn, StripeFields
<1>6. StepOf(r)
  BY <1>2, <1>5 DEF Bounce, locks, QuiesceInv, Shapes, StepOf, Alike
<1>7. Counted(r)'
  BY <1>3 DEF Bounce, locks, QuiesceInv, Counted, Writers, Reading, Holding, Fenced
<1>8. BucketCounts'
  BY <1>3, <1>6, SameCount DEF Bounce, locks
<1>9. quiesce = "on" => r \notin aligned' /\ req'[r].stage \notin Busy
  BY DEF Bounce, QuiesceInv, Quiet, Busy, Holding
<1> QED
  BY <1>3, <1>6, <1>7, <1>8, <1>9, StepKeeps

LEMMA AttachKeeps ==
  ASSUME NEW r \in Requests, QuiesceInv, Attach(r)
  PROVE  QuiesceInv'
<1>1. req[r].at \in req[r].todo /\ req[r].at \in Stripes
  BY DEF Attach, QuiesceInv, Counted, Holding
<1>2. FunctionOn(req', Requests) /\ \A q \in Requests \ {r} : req'[q] = req[q]
  BY DEF Attach, QuiesceInv, Shapes, FunctionOn
<1>3. /\ req'[r].stage = "handle" /\ req'[r].at = req[r].at /\ req'[r].todo = req[r].todo
      /\ req'[r].kind = req[r].kind /\ req'[r].retry = req[r].retry
      /\ DOMAIN req'[r] = RequestFields
  BY DEF Attach, QuiesceInv, Shapes, FunctionOn, RequestFields
<1>4. /\ FunctionOn(sh', Stripes) /\ \A t \in Stripes : DOMAIN sh'[t] = StripeFields
      /\ \A t \in Stripes : sh'[t].held = sh[t].held
  BY <1>1 DEF Attach, QuiesceInv, Shapes, FunctionOn, StripeFields
<1>5. StepOf(r)
  BY <1>2, <1>4 DEF Attach, locks, QuiesceInv, Shapes, StepOf, Alike
<1>6. Counted(r)'
  BY <1>1, <1>3, <1>4 DEF Attach, locks, QuiesceInv, Counted, Writers, Reading, Holding, Fenced
<1>7. BucketCounts'
  BY <1>3, <1>5, SameCount DEF Attach, locks
<1>8. quiesce = "on" => r \notin aligned' /\ req'[r].stage \notin Busy
  BY DEF Attach, QuiesceInv, Quiet, Busy, Holding
<1> QED
  BY <1>3, <1>5, <1>6, <1>7, <1>8, StepKeeps


LEMMA RowPrepKeeps ==
  ASSUME NEW r \in Requests, QuiesceInv, RowPrep(r)
  PROVE  QuiesceInv'
<1>1. FunctionOn(req', Requests) /\ \A q \in Requests \ {r} : req'[q] = req[q]
  BY DEF RowPrep, QuiesceInv, Shapes, FunctionOn
<1>2. /\ req'[r].todo = req[r].todo /\ req'[r].kind = req[r].kind
      /\ req'[r].retry = req[r].retry /\ req'[r].stage \in {"fence", "get"}
      /\ DOMAIN req'[r] = RequestFields
  BY DEF RowPrep, QuiesceInv, Shapes, FunctionOn, RequestFields
<1>3. StepOf(r)
  BY <1>1 DEF RowPrep, locks, QuiesceInv, Shapes, StepOf, Alike
<1>4. Counted(r)'
  BY <1>2 DEF RowPrep, QuiesceInv, Counted, Writers, Reading, Holding, Fenced
<1>5. BucketCounts'
  BY <1>2, <1>3, SameCount DEF RowPrep, locks
<1>6. quiesce = "on" => r \notin aligned' /\ req'[r].stage \notin Busy
  BY <1>2 DEF RowPrep, locks, QuiesceInv, Quiet, Busy, Holding
<1> QED
  BY <1>2, <1>3, <1>4, <1>5, <1>6, StepKeeps

LEMMA RowFenceKeeps ==
  ASSUME NEW r \in Requests, QuiesceInv, RowFence(r)
  PROVE  QuiesceInv'
<1>1. StepOf(r)
  BY DEF RowFence, devices, locks, history, QuiesceInv, Shapes, StepOf, Alike, FunctionOn
<1>2. DOMAIN req'[r] = RequestFields
  BY DEF RowFence, devices, locks, history, QuiesceInv, Shapes, FunctionOn, NoRequest, RequestFields
<1>3. Counted(r)'
  BY DEF RowFence, devices, locks, history, QuiesceInv, Shapes, FunctionOn, Counted, NoRequest, RequestFields, StripeFields, Holding, Fenced, Writers, Reading
<1>4. BucketCounts'
  BY <1>1, SameCount DEF RowFence, devices, locks, history, QuiesceInv, Shapes, FunctionOn, NoRequest, RequestFields
<1>5. quiesce = "on" => r \notin aligned' /\ req'[r].stage \notin Busy
  BY DEF RowFence, devices, locks, history, QuiesceInv, Quiet, Shapes, FunctionOn, Counted, NoRequest, RequestFields, Busy, Holding, Fenced
<1> QED
  BY <1>1, <1>2, <1>3, <1>4, <1>5, StepKeeps

LEMMA RowSettledKeeps ==
  ASSUME NEW r \in Requests, QuiesceInv, RowSettled(r)
  PROVE  QuiesceInv'
<1>1. StepOf(r)
  BY DEF RowSettled, devices, locks, history, QuiesceInv, Shapes, StepOf, Alike, FunctionOn
<1>2. DOMAIN req'[r] = RequestFields
  BY DEF RowSettled, devices, locks, history, QuiesceInv, Shapes, FunctionOn, NoRequest, RequestFields
<1>3. Counted(r)'
  BY DEF RowSettled, devices, locks, history, QuiesceInv, Shapes, FunctionOn, Counted, NoRequest, RequestFields, StripeFields, Holding, Fenced, Writers, Reading
<1>4. BucketCounts'
  BY <1>1, SameCount DEF RowSettled, devices, locks, history, QuiesceInv, Shapes, FunctionOn, NoRequest, RequestFields
<1>5. quiesce = "on" => r \notin aligned' /\ req'[r].stage \notin Busy
  BY DEF RowSettled, devices, locks, history, QuiesceInv, Quiet, Shapes, FunctionOn, Counted, NoRequest, RequestFields, Busy, Holding, Fenced
<1> QED
  BY <1>1, <1>2, <1>3, <1>4, <1>5, StepKeeps

LEMMA RowEndKeeps ==
  ASSUME NEW r \in Requests, QuiesceInv, RowEnd(r)
  PROVE  QuiesceInv'
<1>1. StepOf(r)
  BY DEF RowEnd, devices, locks, history, QuiesceInv, Shapes, StepOf, Alike, FunctionOn
<1>2. DOMAIN req'[r] = RequestFields
  BY DEF RowEnd, devices, locks, history, QuiesceInv, Shapes, FunctionOn, NoRequest, RequestFields
<1>3. Counted(r)'
  BY DEF RowEnd, devices, locks, history, QuiesceInv, Shapes, FunctionOn, Counted, NoRequest, RequestFields, StripeFields, Holding, Fenced, Writers, Reading
<1>4. BucketCounts'
  BY <1>1, SameCount DEF RowEnd, devices, locks, history, QuiesceInv, Shapes, FunctionOn, NoRequest, RequestFields
<1>5. quiesce = "on" => r \notin aligned' /\ req'[r].stage \notin Busy
  BY DEF RowEnd, devices, locks, history, QuiesceInv, Quiet, Shapes, FunctionOn, Counted, NoRequest, RequestFields, Busy, Holding, Fenced
<1> QED
  BY <1>1, <1>2, <1>3, <1>4, <1>5, StepKeeps

LEMMA ReadPickKeeps ==
  ASSUME NEW r \in Requests, QuiesceInv, ReadPick(r)
  PROVE  QuiesceInv'
<1>1. StepOf(r)
  BY DEF ReadPick, devices, locks, history, ToStripe, QuiesceInv, Shapes, StepOf, Alike, FunctionOn
<1>2. DOMAIN req'[r] = RequestFields
  BY DEF ReadPick, devices, locks, history, ToStripe, QuiesceInv, Shapes, FunctionOn, NoRequest, RequestFields
<1>3. Counted(r)'
  BY DEF ReadPick, devices, locks, history, ToStripe, QuiesceInv, Shapes, FunctionOn, Counted, NoRequest, RequestFields, StripeFields, Holding, Fenced, Writers, Reading
<1>4. BucketCounts'
  BY <1>1, SameCount DEF ReadPick, devices, locks, history, ToStripe, QuiesceInv, Shapes, FunctionOn, NoRequest, RequestFields
<1>5. quiesce = "on" => r \notin aligned' /\ req'[r].stage \notin Busy
  BY DEF ReadPick, devices, locks, history, ToStripe, QuiesceInv, Quiet, Shapes, FunctionOn, Counted, NoRequest, RequestFields, Busy, Holding, Fenced
<1> QED
  BY <1>1, <1>2, <1>3, <1>4, <1>5, StepKeeps

LEMMA ReadGenKeeps ==
  ASSUME NEW r \in Requests, QuiesceInv, ReadGen(r)
  PROVE  QuiesceInv'
<1>1. StepOf(r)
  BY DEF ReadGen, devices, locks, history, ToStripe, QuiesceInv, Shapes, StepOf, Alike, FunctionOn
<1>2. DOMAIN req'[r] = RequestFields
  BY DEF ReadGen, devices, locks, history, ToStripe, QuiesceInv, Shapes, FunctionOn, NoRequest, RequestFields
<1>3. Counted(r)'
  BY DEF ReadGen, devices, locks, history, ToStripe, QuiesceInv, Shapes, FunctionOn, Counted, NoRequest, RequestFields, StripeFields, Holding, Fenced, Writers, Reading
<1>4. BucketCounts'
  BY <1>1, SameCount DEF ReadGen, devices, locks, history, ToStripe, QuiesceInv, Shapes, FunctionOn, NoRequest, RequestFields
<1>5. quiesce = "on" => r \notin aligned' /\ req'[r].stage \notin Busy
  BY DEF ReadGen, devices, locks, history, ToStripe, QuiesceInv, Quiet, Shapes, FunctionOn, Counted, NoRequest, RequestFields, Busy, Holding, Fenced
<1> QED
  BY <1>1, <1>2, <1>3, <1>4, <1>5, StepKeeps

LEMMA ReadCountKeeps ==
  ASSUME NEW r \in Requests, QuiesceInv, ReadCount(r)
  PROVE  QuiesceInv'
<1>1. StepOf(r)
  BY DEF ReadCount, devices, locks, history, QuiesceInv, Shapes, StepOf, Alike, FunctionOn
<1>2. DOMAIN req'[r] = RequestFields
  BY DEF ReadCount, devices, locks, history, QuiesceInv, Shapes, FunctionOn, NoRequest, RequestFields
<1>3. Counted(r)'
  BY DEF ReadCount, devices, locks, history, QuiesceInv, Shapes, FunctionOn, Counted, NoRequest, RequestFields, StripeFields, Holding, Fenced, Writers, Reading
<1>4. BucketCounts'
  BY <1>1, SameCount DEF ReadCount, devices, locks, history, QuiesceInv, Shapes, FunctionOn, NoRequest, RequestFields
<1>5. quiesce = "on" => r \notin aligned' /\ req'[r].stage \notin Busy
  BY DEF ReadCount, devices, locks, history, QuiesceInv, Quiet, Shapes, FunctionOn, Counted, NoRequest, RequestFields, Busy, Holding, Fenced
<1> QED
  BY <1>1, <1>2, <1>3, <1>4, <1>5, StepKeeps

LEMMA ReadConfirmKeeps ==
  ASSUME NEW r \in Requests, QuiesceInv, ReadConfirm(r)
  PROVE  QuiesceInv'
<1>1. StepOf(r)
  BY DEF ReadConfirm, devices, locks, history, QuiesceInv, Shapes, StepOf, Alike, FunctionOn
<1>2. DOMAIN req'[r] = RequestFields
  BY DEF ReadConfirm, devices, locks, history, QuiesceInv, Shapes, FunctionOn, NoRequest, RequestFields
<1>3. Counted(r)'
  BY DEF ReadConfirm, devices, locks, history, QuiesceInv, Shapes, FunctionOn, Counted, NoRequest, RequestFields, StripeFields, Holding, Fenced, Writers, Reading
<1>4. BucketCounts'
  BY <1>1, SameCount DEF ReadConfirm, devices, locks, history, QuiesceInv, Shapes, FunctionOn, NoRequest, RequestFields
<1>5. quiesce = "on" => r \notin aligned' /\ req'[r].stage \notin Busy
  BY DEF ReadConfirm, devices, locks, history, QuiesceInv, Quiet, Shapes, FunctionOn, Counted, NoRequest, RequestFields, Busy, Holding, Fenced
<1> QED
  BY <1>1, <1>2, <1>3, <1>4, <1>5, StepKeeps

LEMMA ReadWaitsKeeps ==
  ASSUME NEW r \in Requests, QuiesceInv, ReadWaits(r)
  PROVE  QuiesceInv'
<1>1. StepOf(r)
  BY DEF ReadWaits, devices, locks, history, QuiesceInv, Shapes, StepOf, Alike, FunctionOn
<1>2. DOMAIN req'[r] = RequestFields
  BY DEF ReadWaits, devices, locks, history, QuiesceInv, Shapes, FunctionOn, NoRequest, RequestFields
<1>3. Counted(r)'
  BY DEF ReadWaits, devices, locks, history, QuiesceInv, Shapes, FunctionOn, Counted, NoRequest, RequestFields, StripeFields, Holding, Fenced, Writers, Reading
<1>4. BucketCounts'
  BY <1>1, SameCount DEF ReadWaits, devices, locks, history, QuiesceInv, Shapes, FunctionOn, NoRequest, RequestFields
<1>5. quiesce = "on" => r \notin aligned' /\ req'[r].stage \notin Busy
  BY DEF ReadWaits, devices, locks, history, QuiesceInv, Quiet, Shapes, FunctionOn, Counted, NoRequest, RequestFields, Busy, Holding, Fenced
<1> QED
  BY <1>1, <1>2, <1>3, <1>4, <1>5, StepKeeps

LEMMA ReadEndKeeps ==
  ASSUME NEW r \in Requests, QuiesceInv, ReadEnd(r)
  PROVE  QuiesceInv'
<1>1. StepOf(r)
  BY DEF ReadEnd, devices, locks, history, QuiesceInv, Shapes, StepOf, Alike, FunctionOn
<1>2. DOMAIN req'[r] = RequestFields
  BY DEF ReadEnd, devices, locks, history, QuiesceInv, Shapes, FunctionOn, NoRequest, RequestFields
<1>3. Counted(r)'
  BY DEF ReadEnd, devices, locks, history, QuiesceInv, Shapes, FunctionOn, Counted, NoRequest, RequestFields, StripeFields, Holding, Fenced, Writers, Reading
<1>4. BucketCounts'
  BY <1>1, SameCount DEF ReadEnd, devices, locks, history, QuiesceInv, Shapes, FunctionOn, NoRequest, RequestFields
<1>5. quiesce = "on" => r \notin aligned' /\ req'[r].stage \notin Busy
  BY DEF ReadEnd, devices, locks, history, QuiesceInv, Quiet, Shapes, FunctionOn, Counted, NoRequest, RequestFields, Busy, Holding, Fenced
<1> QED
  BY <1>1, <1>2, <1>3, <1>4, <1>5, StepKeeps
LEMMA RowLandKeeps ==
  ASSUME NEW r \in Requests, NEW i \in Disks, QuiesceInv, RowLand(r, i)
  PROVE  QuiesceInv'
<1>1. /\ FunctionOn(req', Requests)
      /\ \A q \in Requests : Alike(req[q], req'[q])
  BY DEF RowLand, QuiesceInv, Shapes, Alike, FunctionOn, RequestFields
<1>2. StepOf(r)
  BY <1>1 DEF RowLand, locks, QuiesceInv, Shapes, StepOf
<1>3. DOMAIN req'[r] = RequestFields
  BY <1>1 DEF QuiesceInv, Shapes, Alike
<1>4. Counted(r)'
  BY <1>1 DEF RowLand, locks, QuiesceInv, Counted, Alike
<1>5. BucketCounts'
  BY <1>1, <1>2, SameCount DEF RowLand, locks, Alike
<1>6. quiesce = "on" => r \notin aligned' /\ req'[r].stage \notin Busy
  BY <1>1 DEF RowLand, locks, QuiesceInv, Quiet, Alike
<1> QED
  BY <1>2, <1>3, <1>4, <1>5, <1>6, StepKeeps

LEMMA ReadMemberKeeps ==
  ASSUME NEW r \in Requests, NEW i \in Disks, QuiesceInv, ReadMember(r, i)
  PROVE  QuiesceInv'
<1>1. /\ FunctionOn(req', Requests)
      /\ \A q \in Requests : Alike(req[q], req'[q])
  <2>1. PICK g : req' = [req EXCEPT ![r].got = g]
    BY DEF ReadMember
  <2> QED
    BY <2>1 DEF QuiesceInv, Shapes, Alike, FunctionOn, RequestFields
<1>2. StepOf(r)
  BY <1>1 DEF ReadMember, locks, QuiesceInv, Shapes, StepOf
<1>3. DOMAIN req'[r] = RequestFields
  BY <1>1 DEF QuiesceInv, Shapes, Alike
<1>4. Counted(r)'
  BY <1>1 DEF ReadMember, locks, QuiesceInv, Counted, Alike
<1>5. BucketCounts'
  BY <1>1, <1>2, SameCount DEF ReadMember, locks, Alike
<1>6. quiesce = "on" => r \notin aligned' /\ req'[r].stage \notin Busy
  BY <1>1 DEF ReadMember, locks, QuiesceInv, Quiet, Alike
<1> QED
  BY <1>2, <1>3, <1>4, <1>5, <1>6, StepKeeps

LEMMA ReadWorkKeeps ==
  ASSUME NEW r \in Requests, QuiesceInv, ReadWork(r)
  PROVE  QuiesceInv'
<1>1. FunctionOn(req', Requests) /\ \A q \in Requests \ {r} : req'[q] = req[q]
  BY DEF ReadWork, QuiesceInv, Shapes, FunctionOn
<1>2. /\ req'[r].todo = req[r].todo /\ req'[r].kind = req[r].kind
      /\ DOMAIN req'[r] = RequestFields
      /\ \/ req'[r].stage = "end" /\ req'[r].retry = req[r].retry
         \/ /\ req'[r].stage = "get" /\ req'[r].retry /\ req'[r].retry \in BOOLEAN
            /\ aligned' = aligned
  <2> PICK failed \in BOOLEAN :
         IF ~failed /\ Undisturbed(r)
           THEN req' = [req EXCEPT ![r].stage = "end",
                          ![r].answer = [d \in req[r].blk |-> Solve(req[r].got, req[r].src)[d]]]
           ELSE /\ req' = [req EXCEPT ![r].stage = "get", ![r].retry = TRUE]
                /\ aligned' = aligned
    BY DEF ReadWork
  <2>1. CASE ~failed /\ Undisturbed(r)
    <3>1. PICK a : req' = [req EXCEPT ![r].stage = "end", ![r].answer = a]
      BY <2>1
    <3> QED
      BY <3>1 DEF QuiesceInv, Shapes, FunctionOn, RequestFields
  <2>2. CASE failed \/ ~Undisturbed(r)
    <3>1. /\ req' = [req EXCEPT ![r].stage = "get", ![r].retry = TRUE]
          /\ aligned' = aligned
      BY <2>2
    <3> QED
      BY <3>1 DEF QuiesceInv, Shapes, FunctionOn, RequestFields
  <2> QED
    BY <2>1, <2>2
<1>3. StepOf(r)
  BY <1>1 DEF ReadWork, QuiesceInv, Shapes, StepOf, Alike
<1>4. Counted(r)'
  BY <1>2 DEF ReadWork, QuiesceInv, Counted, Writers, Reading, Holding, Fenced
<1>5. BucketCounts'
  BY <1>2, <1>3, SameCount DEF ReadWork
<1>6. quiesce = "on" => r \notin aligned' /\ req'[r].stage \notin Busy
  BY DEF ReadWork, QuiesceInv, Quiet, Counted
<1> QED
  BY <1>2, <1>3, <1>4, <1>5, <1>6, StepKeeps


\* Requests that are woken, or whose reads may return one value more, are where
\* they were.
LEMMA WokenAlike ==
  ASSUME QuiesceInv, NEW s
  PROVE  FunctionOn(Woken(s), Requests) /\ \A q \in Requests : Alike(req[q], Woken(s)[q])
BY DEF QuiesceInv, Shapes, Woken, Alike, FunctionOn, RequestFields

LEMMA RewokenAlike ==
  ASSUME QuiesceInv
  PROVE  FunctionOn(Rewoken, Requests) /\ \A q \in Requests : Alike(req[q], Rewoken[q])
BY DEF QuiesceInv, Shapes, Rewoken, Alike, FunctionOn, RequestFields

LEMMA MayAlsoAlike ==
  ASSUME QuiesceInv, NEW S, NEW D, NEW v
  PROVE  /\ FunctionOn(MayAlso(S, D, v), Requests)
         /\ \A q \in Requests : Alike(req[q], MayAlso(S, D, v)[q])
<1>1. FunctionOn(MayAlso(S, D, v), Requests)
  BY DEF MayAlso, FunctionOn
<1>2. ASSUME NEW q \in Requests PROVE Alike(req[q], MayAlso(S, D, v)[q])
  <2>1. \/ MayAlso(S, D, v)[q] = req[q]
        \/ \E m : MayAlso(S, D, v)[q] = [req[q] EXCEPT !.may = m]
    BY DEF MayAlso
  <2> QED
    BY <2>1 DEF QuiesceInv, Shapes, Alike, RequestFields
<1> QED
  BY <1>1, <1>2

\* A stripe that is let go, and the request that goes on to its next stripe.
LEMMA Releases ==
  ASSUME NEW r \in Requests, QuiesceInv, ReleaseStripe(r), req[r].at \in Stripes
  PROVE  /\ FunctionOn(sh', Stripes) /\ \A t \in Stripes : DOMAIN sh'[t] = StripeFields
         /\ \A t \in Stripes : sh[t].held \ {r} \subseteq sh'[t].held
BY DEF ReleaseStripe, QuiesceInv, Shapes, FunctionOn, StripeFields

LEMMA GoesOn ==
  ASSUME NEW r \in Requests, QuiesceInv, req' = Done(r), req[r].at \in req[r].todo
  PROVE  /\ FunctionOn(req', Requests)
         /\ \A q \in Requests \ {r} : Alike(req[q], req'[q])
         /\ DOMAIN req'[r] = RequestFields
         /\ \/ /\ req'[r].stage = "get" /\ req'[r].kind = req[r].kind
               /\ req'[r].retry = req[r].retry
               /\ req'[r].todo = req[r].todo \ {req[r].at} /\ req'[r].todo # {}
            \/ /\ req'[r].stage = "end" /\ req'[r].kind = req[r].kind
               /\ req'[r].retry = req[r].retry /\ req'[r].todo = req[r].todo
            \/ req'[r] = NoRequest
<1> DEFINE s == req[r].at
           left == req[r].todo \ {s}
<1>1. PICK y : /\ req' = [Woken(s) EXCEPT ![r] = y]
               /\ y = (IF left # {} THEN [req[r] EXCEPT !.stage = "get", !.todo = left]
                       ELSE IF req[r].answer # <<>> THEN [req[r] EXCEPT !.stage = "end"]
                       ELSE NoRequest)
  BY DEF Done
<1>2. /\ FunctionOn(req', Requests) /\ req'[r] = y
      /\ \A q \in Requests \ {r} : Alike(req[q], req'[q])
  BY <1>1, WokenAlike DEF FunctionOn
<1>3. DOMAIN req[r] = RequestFields
  BY DEF QuiesceInv, Shapes
<1>4. CASE left # {}
  <2>1. y = [req[r] EXCEPT !.stage = "get", !.todo = left]
    BY <1>1, <1>4
  <2> QED
    BY <1>2, <1>3, <1>4, <2>1 DEF RequestFields
<1>5. CASE left = {} /\ req[r].answer # <<>>
  <2>1. y = [req[r] EXCEPT !.stage = "end"]
    BY <1>1, <1>5
  <2> QED
    BY <1>2, <1>3, <2>1 DEF RequestFields
<1>6. CASE left = {} /\ req[r].answer = <<>>
  <2>1. y = NoRequest
    BY <1>1, <1>6
  <2> QED
    BY <1>2, <2>1 DEF RequestFields, NoRequest
<1> QED
  BY <1>4, <1>5, <1>6

\* What goes on from a stripe is counted where it has gone to.
LEMMA GoneOn ==
  ASSUME NEW r \in Requests, QuiesceInv, req' = Done(r), req[r].at \in req[r].todo,
         req[r].stage \in {"handle", "ack"}
  PROVE  Counted(r)' /\ req'[r].stage \notin Busy \cup {"land", "rowland"}
<1>1. /\ \/ /\ req'[r].stage = "get" /\ req'[r].kind = req[r].kind
            /\ req'[r].retry = req[r].retry
            /\ req'[r].todo = req[r].todo \ {req[r].at} /\ req'[r].todo # {}
         \/ /\ req'[r].stage = "end" /\ req'[r].kind = req[r].kind
            /\ req'[r].retry = req[r].retry /\ req'[r].todo = req[r].todo
         \/ req'[r] = NoRequest
  BY GoesOn
<1>2. req'[r].stage = "get" => req[r].kind # "read" /\ ~req[r].retry
  BY <1>1 DEF QuiesceInv, Counted, NoRequest
<1>3. Counted(r)'
  <2>1. CASE req'[r] = NoRequest
    BY <2>1 DEF Counted, NoRequest, Writers, Reading, Holding, Fenced
  <2>2. CASE req'[r].stage = "get" /\ req'[r].retry = req[r].retry
    BY <1>1, <1>2, <2>2 DEF QuiesceInv, Counted, NoRequest, Writers, Reading, Holding, Fenced
  <2>3. CASE req'[r].stage = "end" /\ req'[r].retry = req[r].retry
    BY <1>1, <2>3 DEF QuiesceInv, Counted, NoRequest, Writers, Reading, Holding, Fenced
  <2> QED
    BY <1>1, <2>1, <2>2, <2>3
<1>4. req'[r].stage \in {"get", "end", "idle"}
  BY <1>1 DEF NoRequest
<1> QED
  BY <1>3, <1>4 DEF Busy, Holding

LEMMA HandleFailedKeeps ==
  ASSUME NEW r \in Requests, QuiesceInv, HandleFailed(r)
  PROVE  QuiesceInv'
<1>1. /\ req[r].at \in req[r].todo /\ req[r].at \in Stripes
      /\ req' = Done(r) /\ req[r].stage = "handle" /\ ReleaseStripe(r)
  BY DEF HandleFailed, QuiesceInv, Counted, Holding
<1>2. StepOf(r)
  BY <1>1, GoesOn, Releases DEF HandleFailed, QuiesceInv, Shapes, StepOf
<1>3. DOMAIN req'[r] = RequestFields
  BY <1>1, GoesOn
<1>4. Counted(r)' /\ req'[r].stage \notin Busy \cup {"land", "rowland"}
  BY <1>1, GoneOn
<1>5. BucketCounts'
  BY <1>1, <1>2, <1>4, SameCount DEF HandleFailed
<1>6. quiesce = "on" => r \notin aligned' /\ req'[r].stage \notin Busy
  BY <1>4 DEF HandleFailed
<1> QED
  BY <1>2, <1>3, <1>4, <1>5, <1>6, StepKeeps

LEMMA AckKeeps ==
  ASSUME NEW r \in Requests, QuiesceInv, Ack(r)
  PROVE  QuiesceInv'
<1>1. /\ req[r].at \in req[r].todo /\ req[r].at \in Stripes
      /\ req' = Done(r) /\ req[r].stage = "ack" /\ ReleaseStripe(r)
  BY DEF Ack, QuiesceInv, Counted, Holding
<1>2. StepOf(r)
  BY <1>1, GoesOn, Releases DEF Ack, locks, QuiesceInv, Shapes, StepOf
<1>3. DOMAIN req'[r] = RequestFields
  BY <1>1, GoesOn
<1>4. Counted(r)' /\ req'[r].stage \notin Busy \cup {"land", "rowland"}
  BY <1>1, GoneOn
<1>5. BucketCounts'
  BY <1>1, <1>2, <1>4, SameCount DEF Ack, locks
<1>6. quiesce = "on" => r \notin aligned' /\ req'[r].stage \notin Busy
  BY <1>4 DEF Ack, locks, QuiesceInv, Quiet
<1> QED
  BY <1>2, <1>3, <1>4, <1>5, <1>6, StepKeeps

LEMMA HandleReadKeeps ==
  ASSUME NEW r \in Requests, QuiesceInv, HandleRead(r)
  PROVE  QuiesceInv'
<1> DEFINE s == req[r].at
<1>1. s \in req[r].todo /\ s \in Stripes /\ req[r].stage = "handle"
  BY DEF HandleRead, QuiesceInv, Counted, Holding
<1>2. PICK a : req' = [Woken(s) EXCEPT ![r] = [req[r] EXCEPT !.stage = "end", !.answer = a]]
  BY DEF HandleRead
<1>3. PICK u, p : sh' = [sh EXCEPT ![s].held = @ \ {r}, ![s].owner = None,
                                   ![s].uptodate = u, ![s].page = p]
  BY DEF HandleRead
<1> HIDE DEF s
<1>4. /\ FunctionOn(req', Requests) /\ \A q \in Requests \ {r} : Alike(req[q], req'[q])
      /\ req'[r] = [req[r] EXCEPT !.stage = "end", !.answer = a]
  BY <1>2, WokenAlike DEF FunctionOn
<1>5. /\ req'[r].stage = "end" /\ req'[r].todo = req[r].todo
      /\ req'[r].kind = req[r].kind /\ req'[r].retry = req[r].retry
      /\ DOMAIN req'[r] = RequestFields
  BY <1>4 DEF QuiesceInv, Shapes, RequestFields
<1>6. /\ FunctionOn(sh', Stripes) /\ \A t \in Stripes : DOMAIN sh'[t] = StripeFields
      /\ \A t \in Stripes : sh[t].held \ {r} \subseteq sh'[t].held
  BY <1>1, <1>3 DEF QuiesceInv, Shapes, FunctionOn, StripeFields
<1>7. StepOf(r)
  BY <1>4, <1>6 DEF HandleRead, QuiesceInv, Shapes, StepOf
<1>8. Counted(r)'
  BY <1>1, <1>5 DEF QuiesceInv, Counted, Writers, Reading, Holding, Fenced
<1>9. BucketCounts'
  BY <1>1, <1>5, <1>7, SameCount DEF HandleRead
<1>10. quiesce = "on" => r \notin aligned' /\ req'[r].stage \notin Busy
  BY <1>5 DEF HandleRead, Busy, Holding
<1> QED
  BY <1>5, <1>7, <1>8, <1>9, <1>10, StepKeeps

LEMMA HandleWriteKeeps ==
  ASSUME NEW r \in Requests, QuiesceInv, HandleWrite(r)
  PROVE  QuiesceInv'
<1> DEFINE s == req[r].at
<1>1. s \in req[r].todo /\ s \in Stripes /\ req[r].stage = "handle" /\ req[r].kind = "write"
  BY DEF HandleWrite, QuiesceInv, Counted, Holding
<1> DEFINE new == [d \in Data |-> IF d \in req[r].blk THEN req[r].val ELSE Contents(s)[d]]
           Rmw(p) == (Page(s)[p] + Encode(p, new) - Encode(p, Contents(s))) % Q
           Fill(rmw) == IF rmw THEN req[r].blk \union Parity ELSE Disks
           Image(rmw) == [i \in Disks |-> IF i \in Data THEN new[i]
                                          ELSE IF rmw /\ i \in Known(s) THEN Rmw(i)
                                          ELSE Encode(i, new)]
           o == {i \in req[r].blk \union Parity : Present(i) /\ <<s, i>> \notin bad}
<1>2. PICK rmw \in BOOLEAN :
        /\ sh' = [sh EXCEPT ![s].uptodate = @ \union Fill(rmw),
                            ![s].page = [i \in Disks |-> IF i \in Fill(rmw) THEN Image(rmw)[i]
                                                         ELSE @[i]]]
        /\ req' = [MayAlso({s}, req[r].blk, req[r].val) EXCEPT ![r] =
                     [req[r] EXCEPT !.stage = "land", !.out = o, !.failed = {},
                                    !.page = Image(rmw)]]
  BY DEF HandleWrite
<1> DEFINE page == Image(rmw)
<1> HIDE DEF Fill, Image, o, page
<1>3. req' = [MayAlso({s}, req[r].blk, req[r].val) EXCEPT ![r] =
                [req[r] EXCEPT !.stage = "land", !.out = o, !.failed = {}, !.page = page]]
  BY <1>2 DEF page
<1>4. /\ FunctionOn(req', Requests) /\ \A q \in Requests \ {r} : Alike(req[q], req'[q])
      /\ req'[r] = [req[r] EXCEPT !.stage = "land", !.out = o, !.failed = {}, !.page = page]
  BY <1>3, MayAlsoAlike DEF FunctionOn
<1>5. /\ req'[r].stage = "land" /\ req'[r].at = req[r].at /\ req'[r].todo = req[r].todo
      /\ req'[r].kind = req[r].kind /\ req'[r].retry = req[r].retry
      /\ DOMAIN req'[r] = RequestFields
  BY <1>4 DEF QuiesceInv, Shapes, RequestFields
<1>6. /\ FunctionOn(sh', Stripes) /\ \A t \in Stripes : DOMAIN sh'[t] = StripeFields
      /\ \A t \in Stripes : sh'[t].held = sh[t].held
  BY <1>1, <1>2 DEF QuiesceInv, Shapes, FunctionOn, StripeFields
<1>7. CountIn
  BY DEF HandleWrite
<1>8. StepOf(r)
  BY <1>4, <1>6, <1>7 DEF HandleWrite, CountIn, QuiesceInv, Shapes, StepOf
<1>9. Counted(r)'
  BY <1>1, <1>5, <1>6 DEF HandleWrite, QuiesceInv, Counted, Writers, Reading, Holding, Fenced
<1>10. BucketCounts'
  BY <1>1, <1>5, <1>7, <1>8, OneMore
<1>11. quiesce = "on" => r \notin aligned' /\ req'[r].stage \notin Busy
  BY <1>1 DEF QuiesceInv, Quiet, Busy, Holding
<1> QED
  BY <1>5, <1>8, <1>9, <1>10, <1>11, StepKeeps

LEMMA LandKeeps ==
  ASSUME NEW r \in Requests, NEW i \in Disks, QuiesceInv, Land(r, i)
  PROVE  QuiesceInv'
<1> DEFINE left == req[r].out \ {i}
           next == IF left = {} THEN "note" ELSE "land"
<1>1. req[r].stage = "land" /\ req[r].at \in req[r].todo /\ r \in sh[req[r].at].held
  BY DEF Land, QuiesceInv, Counted, Holding
<1>2. \/ req' = [req EXCEPT ![r].out = left, ![r].stage = next]
      \/ \E f : req' = [req EXCEPT ![r].out = left, ![r].failed = f, ![r].stage = next]
  BY DEF Land
<1>3. bucket' = IF left = {} THEN [bucket EXCEPT !.inflight = @ - 1] ELSE bucket
  BY DEF Land
<1> HIDE DEF next
<1>4. FunctionOn(req', Requests) /\ \A q \in Requests \ {r} : req'[q] = req[q]
  BY <1>2 DEF QuiesceInv, Shapes, FunctionOn
<1>5. /\ req'[r].stage = next /\ req'[r].at = req[r].at /\ req'[r].todo = req[r].todo
      /\ req'[r].kind = req[r].kind /\ req'[r].retry = req[r].retry
      /\ DOMAIN req'[r] = RequestFields
  <2>1. CASE req' = [req EXCEPT ![r].out = left, ![r].stage = next]
    BY <2>1 DEF QuiesceInv, Shapes, FunctionOn, RequestFields
  <2>2. CASE \E f : req' = [req EXCEPT ![r].out = left, ![r].failed = f, ![r].stage = next]
    BY <2>2 DEF QuiesceInv, Shapes, FunctionOn, RequestFields
  <2> QED
    BY <1>2, <2>1, <2>2
<1>6. next \in {"note", "land"} /\ (next = "note" <=> left = {})
  BY DEF next
<1>7. StepOf(r)
  <2>1. DOMAIN bucket' = DOMAIN bucket
    BY <1>3
  <2> QED
    BY <1>4, <2>1 DEF Land, QuiesceInv, Shapes, StepOf, Alike
<1>8. Counted(r)'
  BY <1>1, <1>5, <1>6 DEF Land, QuiesceInv, Counted, Writers, Reading, Holding, Fenced
<1>9. BucketCounts'
  <2>1. CASE left = {}
    BY <1>1, <1>3, <1>5, <1>6, <1>7, <2>1, OneLess
  <2>2. CASE left # {}
    BY <1>1, <1>3, <1>5, <1>6, <1>7, <2>2, SameCount
  <2> QED
    BY <2>1, <2>2
<1>10. quiesce = "on" => r \notin aligned' /\ req'[r].stage \notin Busy
  BY <1>1 DEF QuiesceInv, Quiet, Busy, Holding
<1> QED
  BY <1>5, <1>7, <1>8, <1>9, <1>10, StepKeeps

\* Members that are punished stop the pass, and that is all.
LEMMA PunishedPass ==
  ASSUME QuiesceInv, NEW S, NEW F, Punish(S, F)
  PROVE  /\ DOMAIN pass' = PassFields /\ pass'.stage = pass.stage
         /\ pass'.kind = pass.kind /\ pass'.claimed = pass.claimed
<1>1. pass' = pass \/ pass' = [pass EXCEPT !.ok = FALSE]
  BY DEF Punish
<1> QED
  BY <1>1 DEF QuiesceInv, Shapes, PassFields

LEMMA NoteKeeps ==
  ASSUME NEW r \in Requests, QuiesceInv, Note(r)
  PROVE  QuiesceInv'
<1>1. /\ req[r].stage = "note" /\ req' = [req EXCEPT ![r].stage = "ack"]
      /\ Punish({req[r].at}, req[r].failed)
      /\ UNCHANGED <<sh, bucket, rowWrites, aligned, quiesce>>
  BY DEF Note, locks
<1>2. FunctionOn(req', Requests) /\ \A q \in Requests \ {r} : req'[q] = req[q]
  BY <1>1 DEF QuiesceInv, Shapes, FunctionOn
<1>3. /\ req'[r].stage = "ack" /\ req'[r].at = req[r].at /\ req'[r].todo = req[r].todo
      /\ req'[r].kind = req[r].kind /\ req'[r].retry = req[r].retry
      /\ DOMAIN req'[r] = RequestFields
  BY <1>1 DEF QuiesceInv, Shapes, FunctionOn, RequestFields
<1>4. StepOf(r)
  BY <1>1, <1>2, PunishedPass DEF QuiesceInv, Shapes, StepOf, Alike
<1>5. Counted(r)'
  BY <1>1, <1>3 DEF QuiesceInv, Counted, Writers, Reading, Holding, Fenced
<1>6. BucketCounts'
  BY <1>1, <1>3, <1>4, SameCount
<1>7. quiesce = "on" => r \notin aligned' /\ req'[r].stage \notin Busy
  BY <1>1 DEF QuiesceInv, Quiet, Busy, Holding
<1> QED
  BY <1>3, <1>4, <1>5, <1>6, <1>7, StepKeeps

\* raidkm_row_write_unprep: the request is the stripe cache's, and not row_writes' any more.
LEMMA Unprepared ==
  ASSUME NEW r \in Requests, QuiesceInv, Unprep(r), req[r].stage \in {"lock", "walk", "recheck"},
         UNCHANGED <<bucket, aligned, quiesce, pass>>
  PROVE  QuiesceInv'
<1>1. PICK f : /\ req' = [f EXCEPT ![r].stage = "get"] /\ FunctionOn(f, Requests)
               /\ \A q \in Requests : Alike(req[q], f[q])
  <2>1. CASE wlock.by = r
    BY <2>1, RewokenAlike DEF Unprep
  <2>2. CASE wlock.by # r
    BY <2>2 DEF Unprep, QuiesceInv, Shapes, Alike
  <2> QED
    BY <2>1, <2>2
<1>2. FunctionOn(req', Requests) /\ \A q \in Requests \ {r} : Alike(req[q], req'[q])
  BY <1>1 DEF FunctionOn
<1>3. /\ req'[r].stage = "get" /\ req'[r].todo = req[r].todo
      /\ req'[r].kind = req[r].kind /\ req'[r].retry = req[r].retry
      /\ DOMAIN req'[r] = RequestFields
  BY <1>1 DEF QuiesceInv, Shapes, FunctionOn, Alike, RequestFields
<1>4. StepOf(r)
  BY <1>2 DEF Unprep, QuiesceInv, Shapes, StepOf
<1>5. Counted(r)'
  BY <1>3 DEF QuiesceInv, Counted, Writers, Reading, Holding, Fenced
<1>6. BucketCounts'
  BY <1>3, <1>4, SameCount
<1>7. quiesce = "on" => r \notin aligned' /\ req'[r].stage \notin Busy
  BY <1>3 DEF QuiesceInv, Quiet, Busy, Holding
<1> QED
  BY <1>3, <1>4, <1>5, <1>6, <1>7, StepKeeps

LEMMA RowLockKeeps ==
  ASSUME NEW r \in Requests, QuiesceInv, RowLock(r)
  PROVE  QuiesceInv'
<1>1. req[r].stage = "lock" /\ UNCHANGED <<bucket, aligned, quiesce, pass>>
  BY DEF RowLock
<1>2. CASE Running \/ Locked \/ wlock.grace
  BY <1>1, <1>2, Unprepared DEF RowLock
<1>3. CASE ~(Running \/ Locked \/ wlock.grace)
  <2> DEFINE s == FirstOf(Stripes)
  <2>1. /\ req' = [req EXCEPT ![r].stage = "walk", ![r].at = s]
        /\ UNCHANGED <<sh, rowWrites>>
    BY <1>3 DEF RowLock
  <2> HIDE DEF s
  <2>2. FunctionOn(req', Requests) /\ \A q \in Requests \ {r} : req'[q] = req[q]
    BY <2>1 DEF QuiesceInv, Shapes, FunctionOn
  <2>3. /\ req'[r].stage = "walk" /\ req'[r].todo = req[r].todo
        /\ req'[r].kind = req[r].kind /\ req'[r].retry = req[r].retry
        /\ DOMAIN req'[r] = RequestFields
    BY <2>1 DEF QuiesceInv, Shapes, FunctionOn, RequestFields
  <2>4. StepOf(r)
    BY <1>1, <2>1, <2>2 DEF QuiesceInv, Shapes, StepOf, Alike
  <2>5. Counted(r)'
    BY <1>1, <2>1, <2>3 DEF QuiesceInv, Counted, Writers, Reading, Holding, Fenced
  <2>6. BucketCounts'
    BY <1>1, <2>3, <2>4, SameCount
  <2>7. quiesce = "on" => r \notin aligned' /\ req'[r].stage \notin Busy
    BY <1>1, <2>3 DEF QuiesceInv, Quiet, Busy, Holding
  <2> QED
    BY <2>3, <2>4, <2>5, <2>6, <2>7, StepKeeps
<1> QED
  BY <1>2, <1>3

LEMMA RowWalkKeeps ==
  ASSUME NEW r \in Requests, QuiesceInv, RowWalk(r)
  PROVE  QuiesceInv'
<1> DEFINE s == req[r].at
           left == {t \in Stripes : t > s}
<1>1. req[r].stage = "walk" /\ UNCHANGED <<bucket, aligned, quiesce, pass>>
  BY DEF RowWalk
<1>2. CASE sh[s].held # {} \/ sh[s].mark # "none"
  BY <1>1, <1>2, Unprepared DEF RowWalk
<1>3. CASE ~(sh[s].held # {} \/ sh[s].mark # "none")
  <2>1. /\ sh' = [sh EXCEPT ![s].uptodate = {}]
        /\ req' = IF left = {} THEN [req EXCEPT ![r].stage = "recheck"]
                               ELSE [req EXCEPT ![r].at = FirstOf(left)]
        /\ rowWrites' = rowWrites
    BY <1>3 DEF RowWalk
  <2>2. \/ req' = [req EXCEPT ![r].stage = "recheck"]
        \/ \E t : req' = [req EXCEPT ![r].at = t]
    BY <2>1
  <2> HIDE DEF s, left
  <2>3. FunctionOn(req', Requests) /\ \A q \in Requests \ {r} : req'[q] = req[q]
    BY <2>2 DEF QuiesceInv, Shapes, FunctionOn
  <2>4. /\ req'[r].stage \in {"walk", "recheck"} /\ req'[r].todo = req[r].todo
        /\ req'[r].kind = req[r].kind /\ req'[r].retry = req[r].retry
        /\ DOMAIN req'[r] = RequestFields
    <3>1. CASE req' = [req EXCEPT ![r].stage = "recheck"]
      BY <3>1 DEF QuiesceInv, Shapes, FunctionOn, RequestFields
    <3>2. CASE \E t : req' = [req EXCEPT ![r].at = t]
      BY <1>1, <3>2 DEF QuiesceInv, Shapes, FunctionOn, RequestFields
    <3> QED
      BY <2>2, <3>1, <3>2
  <2>5. /\ FunctionOn(sh', Stripes) /\ \A t \in Stripes : DOMAIN sh'[t] = StripeFields
        /\ \A t \in Stripes : sh'[t].held = sh[t].held
    BY <2>1 DEF QuiesceInv, Shapes, FunctionOn, StripeFields
  <2>6. StepOf(r)
    BY <1>1, <2>1, <2>3, <2>5 DEF QuiesceInv, Shapes, StepOf, Alike
  <2>7. Counted(r)'
    BY <1>1, <2>1, <2>4 DEF QuiesceInv, Counted, Writers, Reading, Holding, Fenced
  <2>8. BucketCounts'
    BY <1>1, <2>4, <2>6, SameCount
  <2>9. quiesce = "on" => r \notin aligned' /\ req'[r].stage \notin Busy
    BY <1>1, <2>4 DEF QuiesceInv, Quiet, Busy, Holding
  <2> QED
    BY <2>4, <2>6, <2>7, <2>8, <2>9, StepKeeps
<1> QED
  BY <1>2, <1>3

\* The last look at conf->quiesce: the row write is in row_writes by then, so a
\* quiesce that starts after it waits for the bios.
LEMMA RowGoKeeps ==
  ASSUME NEW r \in Requests, QuiesceInv, RowGo(r)
  PROVE  QuiesceInv'
<1>1. req[r].stage = "recheck" /\ UNCHANGED <<aligned, quiesce, pass>>
  BY DEF RowGo
<1>2. CASE quiesce # "off"
  BY <1>1, <1>2, Unprepared DEF RowGo
<1>3. CASE quiesce = "off"
  <2> DEFINE out == Disks \ req[r].missing
             page == Codeword([d \in Data |-> req[r].val])
             f == MayAlso(Stripes, Data, req[r].val)
  <2>1. /\ req' = [f EXCEPT ![r] = [req[r] EXCEPT !.stage = "rowland", !.out = out,
                                                  !.page = page]]
        /\ CountIn /\ UNCHANGED <<sh, rowWrites>>
    BY <1>3 DEF RowGo
  <2>2. FunctionOn(f, Requests) /\ \A q \in Requests : Alike(req[q], f[q])
    BY MayAlsoAlike
  <2> HIDE DEF out, page, f
  <2>3. /\ FunctionOn(req', Requests) /\ \A q \in Requests \ {r} : Alike(req[q], req'[q])
        /\ req'[r] = [req[r] EXCEPT !.stage = "rowland", !.out = out, !.page = page]
    BY <2>1, <2>2 DEF FunctionOn
  <2>4. /\ req'[r].stage = "rowland" /\ req'[r].todo = req[r].todo
        /\ req'[r].kind = req[r].kind /\ req'[r].retry = req[r].retry
        /\ DOMAIN req'[r] = RequestFields
    BY <2>3 DEF QuiesceInv, Shapes, RequestFields
  <2>5. StepOf(r)
    BY <1>1, <2>1, <2>3 DEF CountIn, QuiesceInv, Shapes, StepOf
  <2>6. Counted(r)'
    BY <1>1, <2>1, <2>4 DEF QuiesceInv, Counted, Writers, Reading, Holding, Fenced
  <2>7. BucketCounts'
    BY <1>1, <2>1, <2>4, <2>5, OneMore
  <2>8. quiesce # "on"
    BY <1>3
  <2> QED
    BY <2>4, <2>5, <2>6, <2>7, <2>8, StepKeeps
<1> QED
  BY <1>2, <1>3

LEMMA RowDoneKeeps ==
  ASSUME NEW r \in Requests, QuiesceInv, RowDone(r)
  PROVE  QuiesceInv'
<1> DEFINE next == IF req[r].failed \union req[r].missing # {} THEN "sbwait" ELSE "rowend"
<1>1. /\ req[r].stage = "rowland" /\ req' = [Rewoken EXCEPT ![r].stage = next]
      /\ Punish(Stripes, req[r].failed)
      /\ bucket' = [bucket EXCEPT !.inflight = @ - 1]
      /\ UNCHANGED <<sh, rowWrites, aligned, quiesce>>
  BY DEF RowDone
<1>2. next \in {"sbwait", "rowend"}
  OBVIOUS
<1> HIDE DEF next
<1>3. FunctionOn(req', Requests) /\ \A q \in Requests \ {r} : Alike(req[q], req'[q])
  BY <1>1, RewokenAlike DEF FunctionOn
<1>4. /\ req'[r].stage = next /\ req'[r].todo = req[r].todo
      /\ req'[r].kind = req[r].kind /\ req'[r].retry = req[r].retry
      /\ DOMAIN req'[r] = RequestFields
  BY <1>1, RewokenAlike DEF QuiesceInv, Shapes, FunctionOn, Alike, RequestFields
<1>5. StepOf(r)
  <2>1. DOMAIN bucket' = DOMAIN bucket
    BY <1>1
  <2> QED
    BY <1>1, <1>3, <2>1, PunishedPass DEF QuiesceInv, Shapes, StepOf
<1>6. Counted(r)'
  BY <1>1, <1>2, <1>4 DEF QuiesceInv, Counted, Writers, Reading, Holding, Fenced
<1>7. BucketCounts'
  BY <1>1, <1>2, <1>4, <1>5, OneLess
<1>8. quiesce = "on" => r \notin aligned' /\ req'[r].stage \notin Busy
  BY <1>1 DEF QuiesceInv, Quiet, Busy, Holding
<1> QED
  BY <1>4, <1>5, <1>6, <1>7, <1>8, StepKeeps

LEMMA SubmitKeeps ==
  ASSUME NEW r \in Requests, QuiesceInv, Submit(r)
  PROVE  QuiesceInv'
<1>1. req[r].stage = "idle" /\ UNCHANGED <<sh, bucket, rowWrites, aligned, quiesce, pass>>
  BY DEF Submit, locks
<1>2. PICK y : /\ req' = [req EXCEPT ![r] = y]
               /\ \/ \E s \in Stripes, d \in Data :
                       y = [NoRequest EXCEPT !.kind = "write", !.stage = "get", !.todo = {s},
                                             !.blk = {d}, !.val = Value]
                  \/ y = [NoRequest EXCEPT !.kind = "write", !.stage = "prep",
                                           !.todo = Stripes, !.blk = Data, !.val = Value]
                  \/ \E s \in Stripes, D \in {{d} : d \in Data} \union {Data} :
                       y = [NoRequest EXCEPT !.kind = "read", !.stage = "pick", !.todo = {s},
                                             !.blk = D, !.may = cands[s]]
  BY DEF Submit
<1>3. /\ DOMAIN y = RequestFields /\ y.retry = FALSE /\ y.todo \subseteq Stripes
      /\ y.todo # {}
      /\ \/ y.kind = "write" /\ y.stage \in {"get", "prep"}
         \/ y.kind = "read" /\ y.stage = "pick" /\ \E s \in Stripes : y.todo = {s}
  <2>1. CASE \E s \in Stripes : \E b, v : y = [NoRequest EXCEPT !.kind = "write", !.stage = "get",
                                             !.todo = {s}, !.blk = b, !.val = v]
    BY <2>1 DEF NoRequest, RequestFields
  <2>2. CASE \E b, v : y = [NoRequest EXCEPT !.kind = "write", !.stage = "prep",
                              !.todo = Stripes, !.blk = b, !.val = v]
    BY <2>2, RowAssumption DEF NoRequest, RequestFields
  <2>3. CASE \E s \in Stripes : \E b, m : y = [NoRequest EXCEPT !.kind = "read", !.stage = "pick",
                                             !.todo = {s}, !.blk = b, !.may = m]
    BY <2>3 DEF NoRequest, RequestFields
  <2> QED
    BY <1>2, <2>1, <2>2, <2>3
<1>4. /\ FunctionOn(req', Requests) /\ \A q \in Requests \ {r} : req'[q] = req[q]
      /\ req'[r] = y
  BY <1>2 DEF QuiesceInv, Shapes, FunctionOn
<1>5. StepOf(r)
  BY <1>1, <1>4 DEF QuiesceInv, Shapes, StepOf, Alike
<1>6. Counted(r)'
  BY <1>3, <1>4 DEF Counted, Writers, Reading, Holding, Fenced
<1>7. BucketCounts'
  BY <1>1, <1>3, <1>4, <1>5, SameCount
<1>8. quiesce = "on" => r \notin aligned' /\ req'[r].stage \notin Busy
  BY <1>1, <1>3, <1>4 DEF QuiesceInv, Quiet, Busy, Holding
<1> QED
  BY <1>3, <1>4, <1>5, <1>6, <1>7, <1>8, StepKeeps

-----------------------------------------------------------------------------
(* Steps of the pass and of the array. *)

LEMMA PassStep ==
  ASSUME QuiesceInv, UNCHANGED <<bucket, aligned, rowWrites, quiesce>>,
         FunctionOn(req', Requests), \A q \in Requests : Alike(req[q], req'[q]),
         FunctionOn(sh', Stripes), \A s \in Stripes : DOMAIN sh'[s] = StripeFields,
         \A s \in Stripes : sh[s].held \ {Sync} \subseteq sh'[s].held,
         DOMAIN pass' = PassFields, PassHolds',
         quiesce = "on" /\ pass'.kind = "repair" => pass'.stage \notin {"read", "write"}
  PROVE  QuiesceInv'
<1>1. Shapes'
  BY DEF QuiesceInv, Shapes, Alike
<1>2. ASSUME NEW q \in Requests PROVE Counted(q)'
  <2>1. Alike(req[q], req'[q]) /\ \A s \in Stripes : q \in sh[s].held => q \in sh'[s].held
    BY RowAssumption
  <2> QED
    BY <2>1 DEF QuiesceInv, Counted, Alike
<1>3. BucketCounts'
  <2>1. InFlight' = InFlight
    BY DEF InFlight, Alike
  <2> QED
    BY <2>1 DEF QuiesceInv, BucketCounts
<1>4. Quiet'
  BY DEF QuiesceInv, Quiet, Alike
<1> QED
  BY <1>1, <1>2, <1>3, <1>4 DEF QuiesceInv

\* A step that moves neither a request nor a stripe.
LEMMA PassAlone ==
  ASSUME QuiesceInv, UNCHANGED <<sh, req, bucket, aligned, rowWrites, quiesce>>,
         DOMAIN pass' = PassFields, PassHolds',
         quiesce = "on" /\ pass'.kind = "repair" => pass'.stage \notin {"read", "write"}
  PROVE  QuiesceInv'
<1>1. /\ FunctionOn(req', Requests) /\ \A q \in Requests : Alike(req[q], req'[q])
      /\ FunctionOn(sh', Stripes) /\ \A s \in Stripes : DOMAIN sh'[s] = StripeFields
      /\ \A s \in Stripes : sh[s].held \ {Sync} \subseteq sh'[s].held
  BY DEF QuiesceInv, Shapes, Alike
<1> QED
  BY <1>1, PassStep

\* A step that leaves the pass where it is and what it claimed.
LEMMA PassStays ==
  ASSUME QuiesceInv, UNCHANGED <<sh, req, bucket, aligned, rowWrites, quiesce>>,
         DOMAIN pass' = PassFields, pass'.kind = pass.kind, pass'.stage = pass.stage,
         pass'.claimed = pass.claimed
  PROVE  QuiesceInv'
<1>1. PassHolds'
  BY DEF QuiesceInv, PassHolds
<1>2. quiesce = "on" /\ pass'.kind = "repair" => pass'.stage \notin {"read", "write"}
  BY DEF QuiesceInv, Quiet
<1> QED
  BY <1>1, <1>2, PassAlone

LEMMA Released ==
  ASSUME QuiesceInv, Release
  PROVE  /\ FunctionOn(req', Requests) /\ \A q \in Requests : Alike(req[q], req'[q])
         /\ FunctionOn(sh', Stripes) /\ \A s \in Stripes : DOMAIN sh'[s] = StripeFields
         /\ \A s \in Stripes : sh[s].held \ {Sync} \subseteq sh'[s].held
<1>1. FunctionOn(req', Requests) /\ \A q \in Requests : Alike(req[q], req'[q])
  BY DEF Release, QuiesceInv, Shapes, Alike, FunctionOn, RequestFields
<1>2. /\ FunctionOn(sh', Stripes) /\ \A s \in Stripes : DOMAIN sh'[s] = StripeFields
      /\ \A s \in Stripes : sh[s].held \ {Sync} \subseteq sh'[s].held
  BY DEF Release, QuiesceInv, Shapes, FunctionOn, StripeFields
<1> QED
  BY <1>1, <1>2

LEMMA PassingKeeps ==
  ASSUME QuiesceInv, Passing
  PROVE  QuiesceInv'
<1>1. DOMAIN pass = PassFields
  BY DEF QuiesceInv, Shapes
<1>2. CASE PassFence
  <2>1. /\ pass' = [pass EXCEPT !.stage = "pick"] /\ pass.stage = "fence"
        /\ UNCHANGED <<sh, req, bucket, aligned, rowWrites, quiesce>>
    BY <1>2 DEF PassFence, locks
  <2>2. /\ DOMAIN pass' = PassFields /\ pass'.stage = "pick" /\ pass'.kind = pass.kind
        /\ pass'.claimed = pass.claimed
    BY <1>1, <2>1 DEF PassFields
  <2>3. PassHolds'
    BY <2>1, <2>2 DEF QuiesceInv, PassHolds
  <2> QED
    BY <2>1, <2>2, <2>3, PassAlone
<1>3. CASE PassPick
  <2>1. /\ pass.stage = "pick" /\ quiesce = "off"
        /\ UNCHANGED <<sh, req, bucket, aligned, rowWrites, quiesce>>
        /\ \/ pass' = [pass EXCEPT !.stage = "end"]
           \/ pass' = [pass EXCEPT !.stage = "claim", !.members = Sources, !.got = <<>>]
           \/ pass' = [pass EXCEPT !.stage = "stripes"]
    BY <1>3 DEF PassPick, locks
  <2>2. /\ DOMAIN pass' = PassFields /\ pass'.stage \in {"end", "claim", "stripes"}
        /\ pass'.claimed = pass.claimed
    BY <1>1, <2>1 DEF PassFields
  <2>3. PassHolds'
    BY <2>1, <2>2, RowAssumption DEF QuiesceInv, PassHolds
  <2> QED
    BY <2>1, <2>2, <2>3, PassAlone
<1>4. CASE PassClaim
  <2> DEFINE s == FirstOf(Stripes \ pass.claimed)
             claimed == pass.claimed \union {s}
             next == IF claimed # Stripes THEN "claim"
                     ELSE IF pass.kind = "repair" THEN "recheck" ELSE "read"
             given == Locked \/ sh[s].owner # None \/ sh[s].mark # "none"
  <2>1. /\ pass.stage = "claim" /\ UNCHANGED <<bucket, aligned, rowWrites, quiesce>>
        /\ given => Release /\ pass' = [pass EXCEPT !.stage = "pick", !.claimed = {}, !.tries = @ + 1]
        /\ ~given => /\ \E m : sh' = [sh EXCEPT ![s].held = @ \union {Sync}, ![s].mark = m]
                     /\ pass' = [pass EXCEPT !.claimed = claimed, !.stage = next]
                     /\ req' = req
    BY <1>4 DEF PassClaim, locks
  <2>2. s \in Stripes
    <3>1. pass.claimed \subseteq Stripes /\ pass.claimed # Stripes
      BY <2>1 DEF QuiesceInv, PassHolds
    <3>2. Stripes \ pass.claimed \in SUBSET Stripes /\ Stripes \ pass.claimed # {}
      BY <3>1
    <3> QED
      BY <3>2, FirstExists
  <2>3. CASE given
    <3>1. PICK t : pass' = [pass EXCEPT !.stage = "pick", !.claimed = {}, !.tries = t]
      BY <2>1, <2>3
    <3>2. DOMAIN pass' = PassFields /\ pass'.stage = "pick" /\ pass'.claimed = {}
      BY <1>1, <3>1 DEF PassFields
    <3>3. PassHolds'
      BY <3>2, RowAssumption DEF PassHolds
    <3> QED
      BY <2>1, <2>3, <3>2, <3>3, Released, PassStep
  <2>4. CASE ~given
    <3>1. PICK m : sh' = [sh EXCEPT ![s].held = @ \union {Sync}, ![s].mark = m]
      BY <2>1, <2>4
    <3>2. pass' = [pass EXCEPT !.claimed = claimed, !.stage = next] /\ req' = req
      BY <2>1, <2>4
    <3> HIDE DEF claimed
    <3>3. \/ next = "claim" /\ claimed # Stripes
          \/ next = "recheck" /\ claimed = Stripes /\ pass.kind = "repair"
          \/ next = "read" /\ claimed = Stripes /\ pass.kind # "repair"
      OBVIOUS
    <3> HIDE DEF s, next, given
    <3>4. /\ DOMAIN pass' = PassFields /\ pass'.stage = next /\ pass'.claimed = claimed
          /\ pass'.kind = pass.kind
      BY <1>1, <3>2 DEF PassFields
    <3>5. /\ FunctionOn(sh', Stripes) /\ \A t \in Stripes : DOMAIN sh'[t] = StripeFields
          /\ \A t \in Stripes : sh[t].held \subseteq sh'[t].held
          /\ Sync \in sh'[s].held
      BY <2>2, <3>1 DEF QuiesceInv, Shapes, FunctionOn, StripeFields
    <3>6. PassHolds'
      BY <2>2, <3>3, <3>4, <3>5 DEF claimed, QuiesceInv, PassHolds
    <3>7. /\ FunctionOn(req', Requests) /\ \A q \in Requests : Alike(req[q], req'[q])
      BY <3>2 DEF QuiesceInv, Shapes, Alike
    <3> QED
      BY <2>1, <3>3, <3>4, <3>5, <3>6, <3>7, PassStep
  <2> QED
    BY <2>3, <2>4
<1>5. CASE PassRecheck
  <2>1. pass.stage = "recheck" /\ UNCHANGED <<bucket, aligned, rowWrites, quiesce>>
    BY <1>5 DEF PassRecheck, locks
  <2>2. CASE quiesce = "off"
    <3>1. pass' = [pass EXCEPT !.stage = "read"] /\ UNCHANGED <<sh, req>>
      BY <1>5, <2>2 DEF PassRecheck
    <3>2. /\ DOMAIN pass' = PassFields /\ pass'.stage = "read" /\ pass'.kind = pass.kind
          /\ pass'.claimed = pass.claimed
      BY <1>1, <3>1 DEF PassFields
    <3>3. PassHolds'
      BY <2>1, <3>1, <3>2 DEF QuiesceInv, PassHolds
    <3> QED
      BY <2>1, <2>2, <3>1, <3>2, <3>3, PassAlone
  <2>3. CASE quiesce # "off"
    <3>1. PICK t : pass' = [pass EXCEPT !.stage = "pick", !.claimed = {}, !.tries = t]
      BY <1>5, <2>3 DEF PassRecheck
    <3>2. DOMAIN pass' = PassFields /\ pass'.stage = "pick" /\ pass'.claimed = {}
      BY <1>1, <3>1 DEF PassFields
    <3>3. PassHolds'
      BY <3>2, RowAssumption DEF PassHolds
    <3>4. Release
      BY <1>5, <2>3 DEF PassRecheck
    <3> QED
      BY <2>1, <3>2, <3>3, <3>4, Released, PassStep
  <2> QED
    BY <2>2, <2>3
<1>6. CASE \E i \in Disks : PassRead(i) \/ PassWrite(i)
  <2>1. /\ \E g : pass' = [pass EXCEPT !.got = g] \/ pass' = [pass EXCEPT !.out = g]
        /\ UNCHANGED <<sh, req, bucket, aligned, rowWrites, quiesce>>
    BY <1>6 DEF PassRead, PassWrite, locks
  <2>2. /\ DOMAIN pass' = PassFields /\ pass'.stage = pass.stage /\ pass'.kind = pass.kind
        /\ pass'.claimed = pass.claimed
    BY <1>1, <2>1 DEF PassFields
  <2> QED
    BY <2>1, <2>2, PassStays
<1>7. CASE PassCompute
  <2>1. PICK g, o : /\ pass' = [pass EXCEPT !.stage = "write", !.got = g, !.out = o]
                    /\ sh' = IF pass.kind = "repair"
                               THEN [s \in Stripes |-> [sh[s] EXCEPT !.uptodate = @ \ o]] ELSE sh
    BY <1>7 DEF PassCompute
  <2>2. pass.stage = "read" /\ UNCHANGED <<req, bucket, aligned, rowWrites, quiesce>>
    BY <1>7 DEF PassCompute, locks
  <2>3. /\ DOMAIN pass' = PassFields /\ pass'.stage = "write" /\ pass'.kind = pass.kind
        /\ pass'.claimed = pass.claimed
    BY <1>1, <2>1 DEF PassFields
  <2>4. /\ FunctionOn(sh', Stripes) /\ \A t \in Stripes : DOMAIN sh'[t] = StripeFields
        /\ \A t \in Stripes : sh'[t].held = sh[t].held
    BY <2>1 DEF QuiesceInv, Shapes, FunctionOn, StripeFields
  <2>5. PassHolds'
    BY <2>2, <2>3, <2>4 DEF QuiesceInv, PassHolds
  <2>6. FunctionOn(req', Requests) /\ \A q \in Requests : Alike(req[q], req'[q])
    BY <2>2 DEF QuiesceInv, Shapes, Alike
  <2>7. quiesce = "on" => pass.kind # "repair"
    BY <2>2 DEF QuiesceInv, Quiet
  <2> QED
    BY <2>2, <2>3, <2>4, <2>5, <2>6, <2>7, PassStep
<1>8. CASE PassDone
  <2>1. /\ Release /\ pass' = [pass EXCEPT !.stage = "end", !.claimed = {}]
        /\ UNCHANGED <<bucket, aligned, rowWrites, quiesce>>
    BY <1>8 DEF PassDone, Passed, locks
  <2>2. DOMAIN pass' = PassFields /\ pass'.stage = "end" /\ pass'.claimed = {}
    BY <1>1, <2>1 DEF PassFields
  <2>3. PassHolds'
    BY <2>2 DEF PassHolds
  <2> QED
    BY <2>1, <2>2, <2>3, Released, PassStep
<1>9. CASE \E s \in Stripes : PassStripe(s)
  <2> PICK s \in Stripes : PassStripe(s)
    BY <1>9
  <2>1. /\ sh' = [sh EXCEPT ![s].uptodate = Disks, ![s].page = Codeword(Contents(s))]
        /\ pass' = [pass EXCEPT !.left = pass.left \ {s}]
        /\ UNCHANGED <<req, bucket, aligned, rowWrites, quiesce>>
    BY DEF PassStripe, locks
  <2>2. /\ DOMAIN pass' = PassFields /\ pass'.stage = pass.stage /\ pass'.kind = pass.kind
        /\ pass'.claimed = pass.claimed
    BY <1>1, <2>1 DEF PassFields
  <2>3. /\ FunctionOn(sh', Stripes) /\ \A t \in Stripes : DOMAIN sh'[t] = StripeFields
        /\ \A t \in Stripes : sh'[t].held = sh[t].held
    BY <2>1 DEF QuiesceInv, Shapes, FunctionOn, StripeFields
  <2>4. PassHolds'
    BY <2>2, <2>3 DEF QuiesceInv, PassHolds
  <2>5. FunctionOn(req', Requests) /\ \A q \in Requests : Alike(req[q], req'[q])
    BY <2>1 DEF QuiesceInv, Shapes, Alike
  <2>6. quiesce = "on" /\ pass'.kind = "repair" => pass'.stage \notin {"read", "write"}
    BY <2>2 DEF QuiesceInv, Quiet
  <2> QED
    BY <2>1, <2>2, <2>3, <2>4, <2>5, <2>6, PassStep
<1>10. CASE PassByStripes
  <2>1. /\ UNCHANGED <<sh, req, bucket, aligned, rowWrites, quiesce>>
        /\ pass.stage = "stripes"
        /\ \/ pass' = [pass EXCEPT !.stage = "end", !.claimed = {}]
           \/ pass' = [pass EXCEPT !.stage = "end"]
    BY <1>10 DEF PassByStripes, Passed, locks
  <2>2. /\ DOMAIN pass' = PassFields /\ pass'.stage = "end"
        /\ pass'.claimed \subseteq pass.claimed
    BY <1>1, <2>1 DEF PassFields
  <2>3. PassHolds'
    BY <2>1, <2>2 DEF QuiesceInv, PassHolds
  <2> QED
    BY <2>1, <2>2, <2>3, PassAlone
<1>11. CASE PassEnd
  <2>1. pass' = NoPass /\ UNCHANGED <<sh, req, bucket, aligned, rowWrites, quiesce>>
    BY <1>11 DEF PassEnd, locks
  <2>2. DOMAIN pass' = PassFields /\ PassHolds' /\ pass'.stage = "idle"
    BY <2>1 DEF NoPass, PassFields, PassHolds
  <2> QED
    BY <2>1, <2>2, PassAlone
<1>12. CASE PassFails
  <2>1. /\ Release /\ pass' = [pass EXCEPT !.stage = "stripes", !.claimed = {}]
        /\ UNCHANGED <<bucket, aligned, rowWrites, quiesce>>
    BY <1>12 DEF PassFails, locks
  <2>2. DOMAIN pass' = PassFields /\ pass'.stage = "stripes" /\ pass'.claimed = {}
    BY <1>1, <2>1 DEF PassFields
  <2>3. PassHolds'
    BY <2>2 DEF PassHolds
  <2> QED
    BY <2>1, <2>2, <2>3, Released, PassStep
<1> QED
  BY <1>2, <1>3, <1>4, <1>5, <1>6, <1>7, <1>8, <1>9, <1>10, <1>11, <1>12 DEF Passing

LEMMA StartPassKeeps ==
  ASSUME QuiesceInv, StartPass
  PROVE  QuiesceInv'
<1>1. UNCHANGED <<sh, req, bucket, aligned, rowWrites, quiesce>>
  BY DEF StartPass, locks
<1>2. PICK k, l, t : pass' = [NoPass EXCEPT !.kind = k, !.stage = "fence", !.left = l, !.target = t]
  BY DEF StartPass
<1>3. DOMAIN pass' = PassFields /\ PassHolds' /\ pass'.stage = "fence"
  BY <1>2, RowAssumption DEF NoPass, PassFields, PassHolds
<1> QED
  BY <1>1, <1>3, PassAlone

\* What quiesce waits for is everybody: whoever holds a stripe, whoever is counted,
\* and a repair, which holds the stripes it claimed.
LEMMA DrainedIsQuiet ==
  ASSUME QuiesceInv, QuiesceDrained
  PROVE  QuiesceInv'
<1>1. UNCHANGED <<sh, req, bucket, aligned, rowWrites, pass>>
  BY DEF QuiesceDrained, locks
<1>2. aligned = {} /\ \A q \in Requests : req[q].stage \notin Busy
  BY DEF QuiesceDrained, QuiesceInv, Counted, Busy, Fenced
<1>3. pass.kind = "repair" => pass.stage \notin {"read", "write"}
  BY RowAssumption DEF QuiesceDrained, QuiesceInv, PassHolds
<1>4. Shapes' /\ PassHolds' /\ BucketCounts' /\ \A q \in Requests : Counted(q)'
  BY <1>1 DEF QuiesceInv, Shapes, PassHolds, BucketCounts, InFlight, Counted
<1>5. Quiet'
  BY <1>1, <1>2, <1>3 DEF Quiet
<1> QED
  BY <1>4, <1>5 DEF QuiesceInv

LEMMA ArrayKeeps ==
  ASSUME QuiesceInv,
         QuiesceStart \/ QuiesceEnd \/ WriteSuperblock \/ \E i \in Disks : LoseMember(i)
  PROVE  QuiesceInv'
<1>1. CASE QuiesceStart \/ QuiesceEnd
  <2>1. UNCHANGED <<sh, req, bucket, aligned, rowWrites, pass>> /\ quiesce' # "on"
    BY <1>1 DEF QuiesceStart, QuiesceEnd, locks
  <2> QED
    BY <2>1 DEF QuiesceInv, Shapes, PassHolds, BucketCounts, InFlight, Counted, Quiet
<1>2. CASE WriteSuperblock
  <2>1. UNCHANGED <<sh, req, bucket, aligned, rowWrites, quiesce, pass>>
    BY <1>2 DEF WriteSuperblock, locks
  <2> QED
    BY <2>1, PassStays DEF QuiesceInv, Shapes
<1>3. CASE \E i \in Disks : LoseMember(i)
  <2>1. /\ UNCHANGED <<sh, req, bucket, aligned, rowWrites, quiesce>>
        /\ pass' = [pass EXCEPT !.ok = FALSE]
    BY <1>3 DEF LoseMember, locks
  <2>2. /\ DOMAIN pass' = PassFields /\ pass'.stage = pass.stage /\ pass'.kind = pass.kind
        /\ pass'.claimed = pass.claimed
    BY <2>1 DEF QuiesceInv, Shapes, PassFields
  <2> QED
    BY <2>1, <2>2, PassStays
<1> QED
  BY <1>1, <1>2, <1>3

-----------------------------------------------------------------------------

LEMMA RequestKeeps ==
  ASSUME NEW r \in Requests, QuiesceInv, Submit(r) \/ Serve(r)
  PROVE  QuiesceInv'
<1>1. CASE StripeCache(r)
  BY <1>1, GetWaitsKeeps, GetKeeps, BounceKeeps, AttachKeeps, HandleFailedKeeps,
     HandleReadKeeps, HandleWriteKeeps, LandKeeps, NoteKeeps, AckKeeps DEF StripeCache
<1>2. CASE RowWrite(r)
  BY <1>2, RowPrepKeeps, RowFenceKeeps, RowLockKeeps, RowWalkKeeps, RowGoKeeps,
     RowLandKeeps, RowDoneKeeps, RowSettledKeeps, RowEndKeeps DEF RowWrite
<1>3. CASE RowRead(r)
  BY <1>3, ReadPickKeeps, ReadGenKeeps, ReadCountKeeps, ReadConfirmKeeps, ReadWaitsKeeps,
     ReadMemberKeeps, ReadWorkKeeps, ReadEndKeeps DEF RowRead
<1> QED
  BY <1>1, <1>2, <1>3, SubmitKeeps DEF Serve

\* Everybody on the row is known to what quiesce waits for, throughout
\* (raidkm_row_write_prep, raidkm_row_aligned_get, raidkm_row_claim_row).
THEOREM QuiesceInvHolds == Spec => []QuiesceInv
<1>1. Init => QuiesceInv
  <2> SUFFICES ASSUME Init PROVE QuiesceInv
    OBVIOUS
  <2>1. /\ FunctionOn(req, Requests) /\ \A q \in Requests : req[q] = NoRequest
        /\ pass = NoPass /\ aligned = {} /\ quiesce = "off"
        /\ DOMAIN bucket = {"inflight", "gen"} /\ bucket.inflight = 0
    BY DEF Init, FunctionOn
  <2>2. FunctionOn(sh, Stripes) /\ \A s \in Stripes : DOMAIN sh[s] = StripeFields
    BY DEF Init, FunctionOn, StripeFields
  <2>3. Shapes
    BY <2>1, <2>2 DEF Shapes, NoRequest, NoPass, RequestFields, PassFields
  <2>4. \A q \in Requests : Counted(q)
    <3>1. \A q \in Requests : /\ req[q].stage = "idle" /\ req[q].kind = "none"
                              /\ req[q].todo = {} /\ req[q].retry = FALSE
      BY <2>1 DEF NoRequest
    <3> QED
      BY <3>1 DEF Counted, Writers, Reading, Holding, Fenced
  <2>5. PassHolds
    BY <2>1 DEF PassHolds, NoPass
  <2>6. InFlight = {}
    BY <2>1 DEF InFlight, NoRequest
  <2>7. BucketCounts
    BY <2>1, <2>6, FS_EmptySet DEF BucketCounts
  <2>8. Quiet
    BY <2>1 DEF Quiet
  <2> QED
    BY <2>3, <2>4, <2>5, <2>7, <2>8 DEF QuiesceInv
<1>2. QuiesceInv /\ [Next]_vars => QuiesceInv'
  <2> SUFFICES ASSUME QuiesceInv, [Next]_vars PROVE QuiesceInv'
    OBVIOUS
  <2>1. CASE UNCHANGED vars
    <3>1. UNCHANGED <<sh, req, bucket, aligned, rowWrites, quiesce, pass>>
      BY <2>1 DEF vars, locks
    <3> QED
      BY <3>1, PassStays DEF QuiesceInv, Shapes
  <2>2. CASE Next
    BY <2>2, RequestKeeps, StartPassKeeps, PassingKeeps, DrainedIsQuiet, ArrayKeeps
       DEF Next, Quiescing
  <2> QED
    BY <2>1, <2>2
<1> QED
  BY <1>1, <1>2, PTL DEF Spec

\* A quiesced array has no row read, no row write and no repair in progress, and no
\* stripe of the row is written.
THEOREM QuiesceWaitsForAll == Spec => []QuiescedIsQuiet
<1>1. QuiesceInv => QuiescedIsQuiet
  <2> SUFFICES ASSUME QuiesceInv, quiesce = "on" PROVE QuiescedIsQuiet
    BY DEF QuiescedIsQuiet
  <2>1. /\ aligned = {} /\ \A q \in Requests : req[q].stage \notin Busy
        /\ pass.kind = "repair" => pass.stage \notin {"read", "write"}
    BY DEF QuiesceInv, Quiet
  <2>2. InFlight = {}
    BY <2>1 DEF InFlight, Busy, Holding
  <2>3. bucket.inflight = 0
    BY <2>2, FS_EmptySet DEF QuiesceInv, BucketCounts
  <2>4. \A q \in Requests : req[q].stage # "reading"
    BY <2>1 DEF QuiesceInv, Counted
  <2> QED
    BY <2>1, <2>3, <2>4 DEF QuiescedIsQuiet, Busy, Holding
<1> QED
  BY <1>1, QuiesceInvHolds, PTL

-----------------------------------------------------------------------------
(* The locks and the contents of the row. *)

\* What the code relies on and does not ensure: no member is lost, or gets a bad block,
\* while the parity may be wrong; between a pass's look at its members and its claim of
\* the row; and between a read's look at its members and at the generation.
Careful ==
  /\ dirty => \A s \in Stripes, i \in Disks : Usable(s, i)
  /\ pass.stage = "claim" => \A s \in Stripes, i \in pass.members : Usable(s, i)
  /\ \A r \in Requests : req[r].stage = "gen" /\ bucket.inflight = 0 =>
       \A s \in req[r].todo, i \in req[r].src :
         /\ Usable(s, i)
         /\ \A q \in Requests : req[q].stage = "note" /\ req[q].at = s => i \notin req[q].failed

Hands == {"handle", "land", "note", "ack"}
Owning == {"walk", "recheck", "rowland"}
Prepared == {"fence", "lock", "walk", "recheck"}
RowStages == {"prep", "rowland", "sbwait", "rowend"} \cup Prepared
InRow == {"count", "confirm", "quiesced", "reading"}

-----------------------------------------------------------------------------
(* The shapes of the state, and the bounds. *)

Form(x) ==
  /\ x.kind \in {"none", "write", "read"}
  /\ x.stage = "idle" <=> x.kind = "none"
  /\ x.blk \subseteq Data /\ x.val \in Block /\ x.gen0 \in Nat
  /\ x.out \subseteq Disks /\ x.failed \subseteq Disks /\ x.missing \subseteq Disks
  /\ x.out \cap x.failed = {}
  /\ x.stage \in {"note", "ack"} => x.out = {}
  /\ x.stage \in RowStages => x.todo = Stripes /\ x.blk = Data
  /\ x.stage \in Prepared \cup {"prep"} => x.failed = {}
  /\ x.stage # "end" => x.answer = <<>>
  /\ x.stage = "end" => x.kind = "read"

Shaped ==
  /\ DOMAIN disk = Stripes /\ \A s \in Stripes : DOMAIN disk[s] = Disks
  /\ DOMAIN member = Disks /\ DOMAIN onSb = {"member", "bad"}
  /\ DOMAIN wlock = {"by", "wanted", "grace"} /\ bucket.gen \in Nat

Bounded ==
  /\ budget \in BudgetBounds /\ wrote \in Nat /\ dirty \in BOOLEAN
  /\ IF budget.forever THEN 1 < Q /\ budget.read = 0 /\ \A q \in Requests : req[q].kind # "read"
                       ELSE wrote + budget.write + budget.rowwrite < Q
  /\ dirty => budget.start = "torn"
  /\ budget.pass = "recover" \/ pass.kind = "recover" => budget.start # "torn"

PassForm ==
  /\ pass.kind \in {"none", "recover", "repair"}
  /\ pass.kind = "none" => pass.stage = "idle"
  /\ pass.stage \in {"recheck", "read", "write"} => pass.claimed = Stripes
  /\ pass.stage \in {"fence", "pick", "claim", "recheck", "read", "write"} => pass.left = Stripes

-----------------------------------------------------------------------------
(* Who has the row, and its stripes. *)

Clean(s) == sh[s].held = {} /\ sh[s].mark = "none" /\ sh[s].uptodate = {}

Owner(q) ==
  /\ req[q].stage \in Hands => sh[req[q].at].owner = q
  /\ req[q].stage \in Owning => wlock.by = q
  /\ req[q].stage \in {"recheck", "rowland"} => \A s \in Stripes : Clean(s)
  /\ req[q].stage = "walk" =>
       req[q].at \in Stripes /\ \A s \in Stripes : s < req[q].at => Clean(s)

Marks == \A s \in pass.claimed : sh[s].mark = IF pass.kind = "repair" THEN "all" ELSE "writes"
Bounced(q) ==
  req[q].stage \in Hands /\ req[q].at \in pass.claimed => req[q].kind = "read" /\ pass.kind # "repair"

\* What the superblocks record, and what a row write knows to be gone.
Recorded(s, i) == onSb.member[i] = "insync" /\ <<s, i>> \notin onSb.bad
Recording == ~pending => \A s \in Stripes, i \in Disks : Recorded(s, i) => Usable(s, i)
Missed(q) == req[q].stage \in Prepared => \A i \in req[q].missing : member[i] = "faulty"

RequestOk(q) == Form(req[q]) /\ Owner(q) /\ Bounced(q) /\ Missed(q)

LockInv ==
  /\ Shaped /\ Bounded /\ PassForm /\ Marks /\ Recording
  /\ \A q \in Requests : RequestOk(q)

-----------------------------------------------------------------------------
(* What the members and the cache hold. *)

\* Request q is writing stripe s; the members that have not got its block; those
\* that the superblocks have yet to say so of.
Writes(q, s) ==
  \/ req[q].stage \in {"land", "note"} /\ req[q].at = s
  \/ req[q].stage = "rowland"
Unwritten(s, i) == \E q \in Requests : Writes(q, s) /\ i \in req[q].out \cup req[q].failed
Excused(s, i) == \E q \in Requests :
  \/ req[q].stage = "ack" /\ req[q].at = s /\ i \in req[q].failed
  \/ req[q].stage = "rowland" /\ i \in req[q].missing
  \/ req[q].stage = "sbwait" /\ i \in req[q].failed \cup req[q].missing

\* The member's block counts: it may be read now, or a pass has just written it; or a
\* crash would read it.
Valid(s, i) ==
  \/ Usable(s, i)
  \/ /\ pass.kind = "recover" /\ pass.stage = "stripes" /\ i = pass.target /\ s \notin pass.left
     /\ member[i] # "faulty" /\ <<s, i>> \notin bad
Kept(s, i) == Valid(s, i) \/ (Recorded(s, i) /\ ~Excused(s, i))

\* Its parity is not in doubt after a crash, or no more.
Mended(s) ==
  /\ pass.kind = "repair" /\ pass.ok
  /\ (pass.stage = "stripes" /\ s \notin pass.left) \/ pass.stage = "end"
Plain(s, i) == i \in Data \/ ~dirty \/ s # 0 \/ Mended(s)

\* Stripe s holds data c; while it is written, a member has the block of c or of o.
StripeOk(s, o, c) ==
  /\ \A d \in Data : cands[s][d] = {o[d], c[d]}
  /\ (\A q \in Requests : ~Writes(q, s)) => o = c
  /\ \A q \in Requests : Writes(q, s) =>
       /\ req[q].page = Codeword(c)
       /\ \A d \in Data : c[d] = IF d \in req[q].blk THEN req[q].val ELSE o[d]
  /\ \A i \in Disks : Kept(s, i) /\ Plain(s, i) =>
       disk[s][i] = Codeword(IF Unwritten(s, i) THEN o ELSE c)[i]
  /\ sh[s].uptodate \subseteq Disks
  /\ \A i \in sh[s].uptodate :
       sh[s].page[i] = IF Plain(s, i) \/ Unwritten(s, i) THEN Codeword(c)[i] ELSE disk[s][i]

\* The members a pass writes.
Written == IF pass.kind = "repair" THEN Parity ELSE Disks \cap {pass.target}

PassOk(c) ==
  /\ pass.stage \in {"claim", "recheck", "read"} =>
       /\ pass.members \subseteq Disks
       /\ IF pass.kind = "repair" THEN pass.members = Disks ELSE Cardinality(pass.members) = K
  /\ pass.stage \in {"claim", "recheck"} => DOMAIN pass.got = {}
  /\ pass.stage = "read" =>
       /\ DOMAIN pass.got \subseteq pass.members
       /\ \A i \in DOMAIN pass.got, s \in Stripes : pass.got[i][s] = disk[s][i]
  /\ pass.stage \in {"recheck", "read"} =>
       \A s \in Stripes, i \in pass.members : Plain(s, i) => disk[s][i] = Codeword(c[s])[i]
  /\ pass.stage = "write" =>
       /\ \A s \in Stripes : pass.got[s] = Codeword(c[s])
       /\ \A s \in Stripes, i \in Written \ pass.out : disk[s][i] = Codeword(c[s])[i]
       /\ pass.kind = "repair" => \A s \in Stripes : pass.out \cap sh[s].uptodate = {}
       /\ pass.out \cap Disks \subseteq Written

\* A reader may answer what the blocks may hold; once it has the generation, its sources
\* hold the stripe's data, and were read so, as long as the generation stands.
ReadOk(r, c) ==
  /\ req[r].kind = "read" =>
       \A s \in req[r].todo, d \in Data : cands[s][d] \subseteq req[r].may[d]
  /\ req[r].stage \in InRow \cup {"gen"} =>
       Cardinality(req[r].src) = K /\ req[r].src \subseteq Disks /\ ~dirty
  /\ req[r].stage \in {"pick", "gen", "count", "confirm", "quiesced"} => DOMAIN req[r].got = {}
  /\ req[r].stage \in InRow =>
       /\ req[r].gen0 <= bucket.gen /\ DOMAIN req[r].got \subseteq req[r].src
       /\ req[r].gen0 = bucket.gen =>
            /\ InFlight = {}
            /\ \A s \in req[r].todo, i \in req[r].src :
                 /\ disk[s][i] = Codeword(c[s])[i]
                 /\ i \in DOMAIN req[r].got => req[r].got[i] = Codeword(c[s])[i]
  /\ req[r].stage = "end" =>
       \A d \in DOMAIN req[r].answer : d \in Data /\ req[r].answer[d] \in req[r].may[d]

Holds(o, c) ==
  /\ \A s \in Stripes : StripeOk(s, o[s], c[s])
  /\ PassOk(c)
  /\ \A r \in Requests : ReadOk(r, c)

ContentInv == \E o, c \in [Stripes -> [Data -> Block]] : Holds(o, c)

-----------------------------------------------------------------------------
(* Requests that a step leaves as they are, but for some fields. *)

Same(x, y, F) == DOMAIN y = RequestFields /\ \A f \in RequestFields \ F : y[f] = x[f]

LEMMA SameIs ==
  ASSUME NEW x, NEW y, NEW F, Same(x, y, F)
  PROVE  /\ "kind" \notin F => y.kind = x.kind
         /\ "stage" \notin F => y.stage = x.stage
         /\ "todo" \notin F => y.todo = x.todo
         /\ "at" \notin F => y.at = x.at
         /\ "blk" \notin F => y.blk = x.blk
         /\ "val" \notin F => y.val = x.val
         /\ "out" \notin F => y.out = x.out
         /\ "failed" \notin F => y.failed = x.failed
         /\ "missing" \notin F => y.missing = x.missing
         /\ "src" \notin F => y.src = x.src
         /\ "got" \notin F => y.got = x.got
         /\ "page" \notin F => y.page = x.page
         /\ "gen0" \notin F => y.gen0 = x.gen0
         /\ "may" \notin F => y.may = x.may
         /\ "answer" \notin F => y.answer = x.answer
  BY DEF Same, RequestFields

\* What a step does to the requests that are not its own: it wakes them, or lets them
\* answer what is being written.
Twin(x, y) ==
  /\ Same(x, y, {"wait", "may"})
  /\ \A d \in Data : x.may[d] \subseteq y.may[d]
Others(r) == FunctionOn(req', Requests) /\ \A q \in Requests \ {r} : Twin(req[q], req'[q])

LEMMA TwinIs ==
  ASSUME NEW x, NEW y, Twin(x, y)
  PROVE  /\ y.kind = x.kind /\ y.stage = x.stage /\ y.todo = x.todo /\ y.at = x.at
         /\ y.blk = x.blk /\ y.val = x.val /\ y.out = x.out /\ y.failed = x.failed
         /\ y.missing = x.missing /\ y.src = x.src /\ y.got = x.got /\ y.page = x.page
         /\ y.gen0 = x.gen0 /\ y.answer = x.answer
         /\ \A d \in Data : x.may[d] \subseteq y.may[d]
<1>1. Same(x, y, {"wait", "may"})
  BY DEF Twin
<1>2. \A d \in Data : x.may[d] \subseteq y.may[d]
  BY DEF Twin
<1> QED
  BY <1>1, <1>2, SameIs

LEMMA TwinForm ==
  ASSUME NEW x, NEW y, Twin(x, y), Form(x)
  PROVE  Form(y)
BY TwinIs DEF Form

\* Some steps of a request concern that request only.
LEMMA OnlyOne ==
  ASSUME NEW r \in Requests, Shapes, FunctionOn(req', Requests),
         \A q \in Requests \ {r} : req'[q] = req[q]
  PROVE  Others(r)
BY DEF Others, Twin, Same, Shapes

LEMMA WokenOthers ==
  ASSUME NEW r \in Requests, Shapes, NEW s, NEW x, req' = [Woken(s) EXCEPT ![r] = x]
  PROVE  Others(r) /\ req'[r] = x
<1>1. FunctionOn(req', Requests) /\ req'[r] = x
  BY DEF Woken, FunctionOn
<1>2. ASSUME NEW q \in Requests \ {r} PROVE Twin(req[q], req'[q])
  <2>1. req'[q] = req[q] \/ req'[q] = [req[q] EXCEPT !.wait = "no"]
    BY DEF Woken
  <2>2. DOMAIN req[q] = RequestFields
    BY DEF Shapes
  <2> QED
    BY <2>1, <2>2 DEF Twin, Same, RequestFields
<1> QED
  BY <1>1, <1>2 DEF Others

LEMMA RewokenOthers ==
  ASSUME NEW r \in Requests, Shapes, NEW x, req' = [Rewoken EXCEPT ![r].stage = x]
  PROVE  Others(r) /\ Same(req[r], req'[r], {"wait", "stage"}) /\ req'[r].stage = x
<1>1. FunctionOn(req', Requests)
  BY DEF Rewoken, FunctionOn
<1>2. ASSUME NEW q \in Requests \ {r} PROVE Twin(req[q], req'[q])
  <2>1. req'[q] = req[q] \/ req'[q] = [req[q] EXCEPT !.wait = "no"]
    BY DEF Rewoken
  <2>2. DOMAIN req[q] = RequestFields
    BY DEF Shapes
  <2> QED
    BY <2>1, <2>2 DEF Twin, Same, RequestFields
<1>3. Same(req[r], req'[r], {"wait", "stage"}) /\ req'[r].stage = x
  <2>1. \/ req'[r] = [req[r] EXCEPT !.stage = x]
        \/ req'[r] = [[req[r] EXCEPT !.wait = "no"] EXCEPT !.stage = x]
    BY DEF Rewoken
  <2>2. DOMAIN req[r] = RequestFields
    BY DEF Shapes
  <2> QED
    BY <2>1, <2>2 DEF Same, RequestFields
<1> QED
  BY <1>1, <1>2, <1>3 DEF Others

LEMMA MayAlsoOthers ==
  ASSUME NEW r \in Requests, Shapes, NEW S, NEW D, NEW v, NEW x,
         req' = [MayAlso(S, D, v) EXCEPT ![r] = x]
  PROVE  /\ Others(r) /\ req'[r] = x
         /\ \A q \in Requests \ {r} : req[q].kind = "read" /\ req[q].todo \subseteq S =>
              \A d \in D \cap Data : v \in req'[q].may[d]
<1>1. FunctionOn(req', Requests) /\ req'[r] = x
  BY DEF MayAlso, FunctionOn
<1>2. ASSUME NEW q \in Requests \ {r}
      PROVE  /\ Twin(req[q], req'[q])
             /\ req[q].kind = "read" /\ req[q].todo \subseteq S => \A d \in D \cap Data : v \in req'[q].may[d]
  <2> DEFINE m == [d \in Data |-> IF d \in D THEN req[q].may[d] \union {v} ELSE req[q].may[d]]
  <2>1. req'[q] = IF req[q].kind = "read" /\ req[q].todo \subseteq S
                    THEN [req[q] EXCEPT !.may = m] ELSE req[q]
    BY DEF MayAlso
  <2>2. DOMAIN req[q] = RequestFields
    BY DEF Shapes
  <2>3. /\ \A d \in Data : req[q].may[d] \subseteq m[d]
        /\ \A d \in D \cap Data : v \in m[d]
    OBVIOUS
  <2> HIDE DEF m
  <2> QED
    BY <2>1, <2>2, <2>3 DEF Twin, Same, RequestFields
<1> QED
  BY <1>1, <1>2 DEF Others

-----------------------------------------------------------------------------
(* Who has the row: steps. *)

\* Between a step's requests that are not its own, and the rest of the state.
LEMMA LockStep ==
  ASSUME NEW r, LockInv, Others(r),
         Shaped', Bounded', PassForm', Marks', Recording',
         \A s \in Stripes : sh'[s].owner = sh[s].owner \/ sh[s].owner \in {r, None},
         wlock'.by = wlock.by \/ wlock.by \in {r, None},
         wlock.by \in Requests \ {r} => \A s \in Stripes : Clean(s) => Clean(s)',
         \A i \in Disks : member[i] = "faulty" => member'[i] = "faulty",
         \A s \in pass'.claimed : s \in pass.claimed \/ sh[s].owner = None,
         pass'.kind = pass.kind \/ pass'.claimed = {},
         \A q \in Requests \ {r} : req[q].stage \in Hands => req[q].at \in Stripes,
         r \in Requests => RequestOk(r)'
  PROVE  LockInv'
<1>1. ASSUME NEW q \in Requests \ {r} PROVE RequestOk(q)'
  <2> DEFINE x == req[q]  y == req'[q]
  <2>1. Twin(x, y) /\ RequestOk(q) /\ q # None
    BY RowAssumption DEF Others, LockInv
  <2>2. Form(y)
    BY <2>1, TwinForm DEF RequestOk
  <2>3. y.kind = x.kind /\ y.stage = x.stage /\ y.at = x.at /\ y.missing = x.missing
    BY <2>1, TwinIs
  <2>4. Owner(q)'
    <3>1. x.stage \in Hands => sh'[x.at].owner = q
      BY <2>1 DEF RequestOk, Owner
    <3>2. x.stage \in Owning => wlock.by = q /\ wlock'.by = q
      BY <2>1 DEF RequestOk, Owner
    <3> QED
      BY <2>1, <2>3, <3>1, <3>2 DEF RequestOk, Owner, Owning
  <2>5. Bounced(q)'
    <3>1. x.stage \in Hands => sh[x.at].owner = q
      BY <2>1 DEF RequestOk, Owner
    <3>2. x.stage \in Hands /\ x.at \in pass'.claimed => x.at \in pass.claimed /\ pass'.kind = pass.kind
      BY <2>1, <3>1
    <3> QED
      BY <2>1, <2>3, <3>2 DEF RequestOk, Bounced
  <2>6. Missed(q)'
    BY <2>1, <2>2, <2>3 DEF RequestOk, Missed, Form
  <2> QED
    BY <2>2, <2>4, <2>5, <2>6 DEF RequestOk
<1> QED
  BY <1>1 DEF LockInv

\* A step that changes no member and no pass.
LEMMA LockAlone ==
  ASSUME NEW r \in Requests, QuiesceInv, LockInv, Others(r),
         UNCHANGED <<disk, member, bad, onSb, pending, pass, dirty, wrote>>,
         budget' = budget \/ \E n \in Nat : budget' = [budget EXCEPT !.wfaults = n],
         DOMAIN wlock' = DOMAIN wlock, bucket'.gen \in Nat,
         req'[r].kind \in {"none", req[r].kind},
         \A s \in Stripes : sh'[s].mark = sh[s].mark,
         \A s \in Stripes : sh'[s].owner = sh[s].owner \/ sh[s].owner \in {r, None},
         wlock'.by = wlock.by \/ wlock.by \in {r, None},
         wlock.by \in Requests \ {r} => \A s \in Stripes : Clean(s) => Clean(s)',
         RequestOk(r)'
  PROVE  LockInv'
<1>1. Shaped /\ Bounded /\ PassForm /\ Marks /\ Recording
  BY DEF LockInv
<1>2. Shaped' /\ PassForm'
  BY <1>1 DEF Shaped, PassForm
<1>3. Bounded'
  <2>1. \A q \in Requests : req[q].kind # "read" => req'[q].kind # "read"
    BY TwinIs DEF Others
  <2>2. /\ budget' \in BudgetBounds /\ budget'.forever = budget.forever
        /\ budget'.read = budget.read /\ budget'.write = budget.write
        /\ budget'.rowwrite = budget.rowwrite /\ budget'.start = budget.start
        /\ budget'.pass = budget.pass
    BY <1>1 DEF Bounded, BudgetBounds
  <2> QED
    BY <1>1, <2>1, <2>2 DEF Bounded
<1>4. Marks'
  BY <1>1 DEF Marks, QuiesceInv, PassHolds
<1>5. Recording'
  BY <1>1 DEF Recording, Recorded, Usable
<1>6. \A q \in Requests \ {r} : req[q].stage \in Hands => req[q].at \in Stripes
  BY DEF QuiesceInv, Counted, Holding, Hands
<1> QED
  BY <1>2, <1>3, <1>4, <1>5, <1>6, LockStep

\* Stripes and the row lock as they were.
LEMMA LockStays ==
  ASSUME NEW r \in Requests, QuiesceInv, LockInv, Others(r),
         UNCHANGED <<disk, member, bad, onSb, pending, sh, wlock, pass, dirty, wrote>>,
         budget' = budget \/ \E n \in Nat : budget' = [budget EXCEPT !.wfaults = n],
         bucket'.gen \in Nat, req'[r].kind \in {"none", req[r].kind},
         RequestOk(r)'
  PROVE  LockInv'
<1>1. \A s \in Stripes : Clean(s) => Clean(s)'
  BY DEF Clean
<1> QED
  BY <1>1, LockAlone

\* A request that neither has a stripe or the row in hand nor is a row write's.
Passive == {"get", "attach", "pick", "gen", "count", "confirm", "quiesced", "reading"}
Soft == {"stage", "todo", "wait", "waited", "retry", "at", "src", "got", "gen0", "may"}

LEMMA PassiveOk ==
  ASSUME NEW r \in Requests, RequestOk(r), Same(req[r], req'[r], Soft), req'[r].gen0 \in Nat,
         req[r].stage \notin {"end", "idle"}, req'[r].stage \in Passive
  PROVE  RequestOk(r)'
<1>1. /\ req'[r].kind = req[r].kind /\ req'[r].blk = req[r].blk /\ req'[r].val = req[r].val
      /\ req'[r].out = req[r].out /\ req'[r].failed = req[r].failed
      /\ req'[r].missing = req[r].missing /\ req'[r].answer = req[r].answer
  BY SameIs DEF Soft
<1>2. Form(req'[r])
  BY <1>1 DEF RequestOk, Form, Passive, RowStages, Prepared
<1>3. Owner(r)' /\ Bounced(r)' /\ Missed(r)'
  BY DEF Owner, Bounced, Missed, Passive, Hands, Owning, Prepared
<1> QED
  BY <1>2, <1>3 DEF RequestOk

LEMMA StageOnly ==
  ASSUME NEW r \in Requests, Shapes, NEW x, req' = [req EXCEPT ![r].stage = x]
  PROVE  Others(r) /\ Same(req[r], req'[r], {"stage"}) /\ req'[r].stage = x
<1>1. FunctionOn(req', Requests) /\ \A q \in Requests \ {r} : req'[q] = req[q]
  BY DEF Shapes, FunctionOn
<1>2. req'[r] = [req[r] EXCEPT !.stage = x] /\ DOMAIN req[r] = RequestFields
  BY DEF Shapes, FunctionOn
<1>3. Same(req[r], req'[r], {"stage"}) /\ req'[r].stage = x
  BY <1>2 DEF Same, RequestFields
<1> QED
  BY <1>1, <1>3, OnlyOne

\* The same record but for some fields, and for more of them.
LEMMA SameMore ==
  ASSUME NEW x, NEW y, NEW F, NEW G, Same(x, y, F), F \subseteq G
  PROVE  Same(x, y, G)
BY DEF Same

LEMMA RequestParts ==
  ASSUME NEW r \in Requests, QuiesceInv, LockInv
  PROVE  /\ Shapes /\ Counted(r) /\ RequestOk(r) /\ Form(req[r])
         /\ DOMAIN req[r] = RequestFields /\ bucket.gen \in Nat
BY DEF QuiesceInv, Shapes, LockInv, RequestOk, Shaped

LEMMA GetWaitsDoes ==
  ASSUME NEW r \in Requests, Shapes, GetWaits(r)
  PROVE  Others(r) /\ Same(req[r], req'[r], {"wait", "waited"})
<1>1. FunctionOn(req', Requests) /\ \A q \in Requests \ {r} : req'[q] = req[q]
  BY DEF GetWaits, Shapes, FunctionOn
<1>2. Same(req[r], req'[r], {"wait", "waited"})
  BY DEF GetWaits, Shapes, Same, FunctionOn, RequestFields
<1> QED
  BY <1>1, <1>2, OnlyOne

LEMMA GetWaitsLocks ==
  ASSUME NEW r \in Requests, QuiesceInv, LockInv, GetWaits(r)
  PROVE  LockInv'
<1>1. Others(r) /\ Same(req[r], req'[r], {"wait", "waited"})
  BY GetWaitsDoes, RequestParts
<1>2. /\ req'[r].kind = req[r].kind /\ req'[r].stage = req[r].stage
      /\ req'[r].gen0 = req[r].gen0 /\ req[r].stage = "get"
  BY <1>1, SameIs DEF GetWaits
<1>3. RequestOk(r)'
  BY <1>1, <1>2, PassiveOk, RequestParts, SameMore DEF Form, Soft, Passive
<1>4. /\ UNCHANGED <<disk, member, bad, onSb, pending, sh, bucket, pass, dirty, wrote, budget>>
      /\ wlock' = wlock \/ wlock' = [wlock EXCEPT !.wanted = TRUE]
  BY DEF GetWaits, devices, history
<1>5. DOMAIN wlock' = DOMAIN wlock /\ wlock'.by = wlock.by
  BY <1>4 DEF LockInv, Shaped
<1>6. \A s \in Stripes : Clean(s) => Clean(s)'
  BY <1>4 DEF Clean
<1> QED
  BY <1>1, <1>2, <1>3, <1>4, <1>5, <1>6, LockAlone, RequestParts

LEMMA GetDoes ==
  ASSUME NEW r \in Requests, QuiesceInv, Get(r)
  PROVE  /\ Others(r) /\ Same(req[r], req'[r], {"stage", "at", "waited"})
         /\ req'[r].stage = "attach" /\ req'[r].at \in req[r].todo /\ req'[r].at \in Stripes
         /\ \A s \in Stripes : /\ sh'[s].owner = sh[s].owner /\ sh'[s].mark = sh[s].mark
                               /\ sh'[s].uptodate = sh[s].uptodate /\ sh'[s].page = sh[s].page
<1> DEFINE s == FirstOf(req[r].todo)
<1>1. s \in req[r].todo /\ s \in Stripes
  BY FirstExists DEF Get, QuiesceInv, Counted
<1>2. FunctionOn(req', Requests) /\ \A q \in Requests \ {r} : req'[q] = req[q]
  BY DEF Get, QuiesceInv, Shapes, FunctionOn
<1>3. /\ Same(req[r], req'[r], {"stage", "at", "waited"})
      /\ req'[r].stage = "attach" /\ req'[r].at = s
  BY DEF Get, QuiesceInv, Shapes, Same, FunctionOn, RequestFields
<1> HIDE DEF s
<1>4. sh' = [sh EXCEPT ![s].held = @ \cup {r}]
  BY DEF Get, s
<1>5. \A t \in Stripes : /\ sh'[t].owner = sh[t].owner /\ sh'[t].mark = sh[t].mark
                         /\ sh'[t].uptodate = sh[t].uptodate /\ sh'[t].page = sh[t].page
  BY <1>1, <1>4 DEF QuiesceInv, Shapes, FunctionOn, StripeFields
<1> QED
  BY <1>1, <1>2, <1>3, <1>5, OnlyOne DEF QuiesceInv

LEMMA GetLocks ==
  ASSUME NEW r \in Requests, QuiesceInv, LockInv, Get(r)
  PROVE  LockInv'
<1>1. /\ Others(r) /\ Same(req[r], req'[r], {"stage", "at", "waited"}) /\ req'[r].stage = "attach"
      /\ \A s \in Stripes : sh'[s].owner = sh[s].owner /\ sh'[s].mark = sh[s].mark
  BY GetDoes
<1>2. req'[r].kind = req[r].kind /\ req'[r].gen0 = req[r].gen0 /\ req[r].stage = "get"
  BY <1>1, SameIs DEF Get
<1>3. RequestOk(r)'
  BY <1>1, <1>2, PassiveOk, RequestParts, SameMore DEF Form, Soft, Passive
<1>4. /\ UNCHANGED <<disk, member, bad, onSb, pending, bucket, pass, dirty, wrote, budget>>
      /\ wlock' = wlock \/ wlock' = [wlock EXCEPT !.grace = FALSE]
      /\ wlock.by = None
  BY DEF Get, Locked, devices, history
<1>5. DOMAIN wlock' = DOMAIN wlock /\ wlock'.by = wlock.by
  BY <1>4 DEF LockInv, Shaped
<1> QED
  BY <1>1, <1>2, <1>3, <1>4, <1>5, RowAssumption, LockAlone, RequestParts

LEMMA BounceDoes ==
  ASSUME NEW r \in Requests, QuiesceInv, Bounce(r)
  PROVE  /\ Others(r) /\ Same(req[r], req'[r], {"stage", "wait"}) /\ req'[r].stage = "get"
         /\ \A s \in Stripes : /\ sh'[s].owner = sh[s].owner /\ sh'[s].mark = sh[s].mark
                               /\ sh'[s].uptodate = sh[s].uptodate /\ sh'[s].page = sh[s].page
                               /\ sh'[s].held \subseteq sh[s].held
<1> DEFINE s == req[r].at
<1>1. s \in Stripes
  BY DEF Bounce, QuiesceInv, Counted, Holding
<1>2. FunctionOn(req', Requests) /\ \A q \in Requests \ {r} : req'[q] = req[q]
  BY DEF Bounce, QuiesceInv, Shapes, FunctionOn
<1>3. Same(req[r], req'[r], {"stage", "wait"}) /\ req'[r].stage = "get"
  BY DEF Bounce, QuiesceInv, Shapes, Same, FunctionOn, RequestFields
<1>4. sh' = [sh EXCEPT ![s].held = @ \ {r}]
  BY DEF Bounce
<1> HIDE DEF s
<1>5. \A t \in Stripes : /\ sh'[t].owner = sh[t].owner /\ sh'[t].mark = sh[t].mark
                         /\ sh'[t].uptodate = sh[t].uptodate /\ sh'[t].page = sh[t].page
                         /\ sh'[t].held \subseteq sh[t].held
  BY <1>1, <1>4 DEF QuiesceInv, Shapes, FunctionOn, StripeFields
<1> QED
  BY <1>2, <1>3, <1>5, OnlyOne DEF QuiesceInv

LEMMA BounceLocks ==
  ASSUME NEW r \in Requests, QuiesceInv, LockInv, Bounce(r)
  PROVE  LockInv'
<1>1. /\ Others(r) /\ Same(req[r], req'[r], {"stage", "wait"}) /\ req'[r].stage = "get"
      /\ \A s \in Stripes : /\ sh'[s].owner = sh[s].owner /\ sh'[s].mark = sh[s].mark
                            /\ Clean(s) => Clean(s)'
  BY BounceDoes DEF Clean
<1>2. req'[r].kind = req[r].kind /\ req'[r].gen0 = req[r].gen0 /\ req[r].stage = "attach"
  BY <1>1, SameIs DEF Bounce
<1>3. RequestOk(r)'
  BY <1>1, <1>2, PassiveOk, RequestParts, SameMore DEF Form, Soft, Passive
<1>4. UNCHANGED <<disk, member, bad, onSb, pending, bucket, wlock, pass, dirty, wrote, budget>>
  BY DEF Bounce, devices, locks, history
<1> QED
  BY <1>1, <1>2, <1>3, <1>4, LockAlone, RequestParts

LEMMA AttachDoes ==
  ASSUME NEW r \in Requests, QuiesceInv, Attach(r)
  PROVE  /\ Others(r) /\ Same(req[r], req'[r], {"stage"}) /\ req'[r].stage = "handle"
         /\ req[r].at \in Stripes /\ sh[req[r].at].owner = None /\ sh'[req[r].at].owner = r
         /\ \A s \in Stripes : /\ sh'[s].owner = IF s = req[r].at THEN r ELSE sh[s].owner
                               /\ sh'[s].mark = sh[s].mark /\ sh'[s].held = sh[s].held
                               /\ sh'[s].uptodate = sh[s].uptodate /\ sh'[s].page = sh[s].page
<1> DEFINE s == req[r].at
<1>1. s \in Stripes
  BY DEF Attach, QuiesceInv, Counted, Holding
<1>2. Others(r) /\ Same(req[r], req'[r], {"stage"}) /\ req'[r].stage = "handle"
  BY StageOnly DEF Attach, QuiesceInv
<1>3. sh' = [sh EXCEPT ![s].owner = r] /\ sh[s].owner = None
  BY DEF Attach, Overlaps
<1> HIDE DEF s
<1>4. \A t \in Stripes : /\ sh'[t].owner = IF t = s THEN r ELSE sh[t].owner
                         /\ sh'[t].mark = sh[t].mark /\ sh'[t].held = sh[t].held
                         /\ sh'[t].uptodate = sh[t].uptodate /\ sh'[t].page = sh[t].page
  BY <1>1, <1>3 DEF QuiesceInv, Shapes, FunctionOn, StripeFields
<1> QED
  BY <1>1, <1>2, <1>3, <1>4 DEF s

LEMMA AttachLocks ==
  ASSUME NEW r \in Requests, QuiesceInv, LockInv, Attach(r)
  PROVE  LockInv'
<1>1. /\ Others(r) /\ Same(req[r], req'[r], {"stage"}) /\ req'[r].stage = "handle"
      /\ req[r].at \in Stripes /\ sh[req[r].at].owner = None /\ sh'[req[r].at].owner = r
      /\ \A s \in Stripes : /\ sh'[s].owner = sh[s].owner \/ sh[s].owner = None
                            /\ sh'[s].mark = sh[s].mark
                            /\ Clean(s) => Clean(s)'
  BY AttachDoes DEF Clean
<1>2. /\ req'[r].kind = req[r].kind /\ req'[r].at = req[r].at /\ req'[r].blk = req[r].blk
      /\ req'[r].val = req[r].val /\ req'[r].gen0 = req[r].gen0 /\ req'[r].out = req[r].out
      /\ req'[r].failed = req[r].failed /\ req'[r].missing = req[r].missing
      /\ req'[r].answer = req[r].answer /\ req[r].stage = "attach"
  BY <1>1, SameIs DEF Attach
<1>3. UNCHANGED <<disk, member, bad, onSb, pending, bucket, wlock, pass, dirty, wrote, budget>>
  BY DEF Attach, devices, locks, history
<1>4. RequestOk(r)'
  <2>1. Form(req'[r])
    BY <1>1, <1>2, RequestParts DEF Form, RowStages, Prepared
  <2>2. Bounced(r)'
    <3>1. req[r].at \in pass.claimed =>
            sh[req[r].at].mark = IF pass.kind = "repair" THEN "all" ELSE "writes"
      BY DEF LockInv, Marks
    <3>2. sh[req[r].at].mark # "all" /\ (sh[req[r].at].mark = "writes" => req[r].kind # "write")
      BY DEF Attach, Overlaps
    <3>3. req[r].kind \in {"read", "write"}
      BY RequestParts DEF Attach, Form, Counted
    <3> QED
      BY <1>2, <1>3, <3>1, <3>2, <3>3 DEF Bounced
  <2> QED
    BY <1>1, <1>2, <2>1, <2>2 DEF RequestOk, Owner, Missed, Owning, Prepared
<1> QED
  BY <1>1, <1>2, <1>3, <1>4, LockAlone, RequestParts

LEMMA PassiveLocks ==
  ASSUME NEW r \in Requests, QuiesceInv, LockInv, Others(r),
         Same(req[r], req'[r], Soft), req'[r].gen0 \in Nat,
         req[r].stage \notin {"end", "idle"}, req'[r].stage \in Passive,
         UNCHANGED <<disk, member, bad, onSb, pending, sh, bucket, wlock, pass, dirty, wrote, budget>>
  PROVE  LockInv'
<1>1. req'[r].kind = req[r].kind
  BY SameIs DEF Soft
<1>2. RequestOk(r)'
  BY PassiveOk, RequestParts
<1> QED
  BY <1>1, <1>2, LockStays, RequestParts

LEMMA ReadPickDoes ==
  ASSUME NEW r \in Requests, Shapes, ReadPick(r)
  PROVE  /\ Others(r) /\ Same(req[r], req'[r], {"stage", "src"})
         /\ req'[r].stage \in {"gen", "get"}
<1>1. FunctionOn(req', Requests) /\ \A q \in Requests \ {r} : req'[q] = req[q]
  BY DEF ReadPick, ToStripe, Shapes, FunctionOn
<1>2. PICK x : \/ req'[r] = [req[r] EXCEPT !.src = x, !.stage = "gen"]
               \/ req'[r] = [req[r] EXCEPT !.stage = "get"]
  BY DEF ReadPick, ToStripe, Shapes, FunctionOn
<1>3. Same(req[r], req'[r], {"stage", "src"}) /\ req'[r].stage \in {"gen", "get"}
  BY <1>2 DEF Shapes, Same, RequestFields
<1> QED
  BY <1>1, <1>3, OnlyOne

LEMMA ReadGenDoes ==
  ASSUME NEW r \in Requests, Shapes, ReadGen(r)
  PROVE  /\ Others(r) /\ Same(req[r], req'[r], {"stage", "gen0"})
         /\ \/ bucket.inflight = 0 /\ req'[r].stage = "count" /\ req'[r].gen0 = bucket.gen
            \/ bucket.inflight # 0 /\ req'[r].stage = "get" /\ req'[r].gen0 = req[r].gen0
<1>1. FunctionOn(req', Requests) /\ \A q \in Requests \ {r} : req'[q] = req[q]
  BY DEF ReadGen, ToStripe, Shapes, FunctionOn
<1>2. CASE bucket.inflight = 0
  <2>1. req'[r] = [req[r] EXCEPT !.gen0 = bucket.gen, !.stage = "count"]
    BY <1>2 DEF ReadGen, Shapes, FunctionOn
  <2>2. /\ Same(req[r], req'[r], {"stage", "gen0"})
        /\ req'[r].stage = "count" /\ req'[r].gen0 = bucket.gen
    BY <2>1 DEF Shapes, Same, RequestFields
  <2> QED
    BY <1>1, <1>2, <2>2, OnlyOne
<1>3. CASE bucket.inflight # 0
  <2>1. req'[r] = [req[r] EXCEPT !.stage = "get"]
    BY <1>3 DEF ReadGen, ToStripe, Shapes, FunctionOn
  <2>2. /\ Same(req[r], req'[r], {"stage", "gen0"})
        /\ req'[r].stage = "get" /\ req'[r].gen0 = req[r].gen0
    BY <2>1 DEF Shapes, Same, RequestFields
  <2> QED
    BY <1>1, <1>3, <2>2, OnlyOne
<1> QED
  BY <1>2, <1>3

LEMMA ReadCountDoes ==
  ASSUME NEW r \in Requests, Shapes, ReadCount(r) \/ ReadConfirm(r) \/ ReadWaits(r)
  PROVE  /\ Others(r) /\ Same(req[r], req'[r], {"stage"})
         /\ req[r].stage \in {"count", "confirm", "quiesced"}
         /\ req'[r].stage \in {"confirm", "quiesced", "reading"}
<1>1. PICK x \in {"confirm", "quiesced", "reading"} : req' = [req EXCEPT ![r].stage = x]
  BY DEF ReadCount, ReadConfirm, ReadWaits
<1>2. req[r].stage \in {"count", "confirm", "quiesced"}
  BY DEF ReadCount, ReadConfirm, ReadWaits
<1> QED
  BY <1>1, <1>2, StageOnly

LEMMA ReadMemberDoes ==
  ASSUME NEW r \in Requests, NEW i \in Disks, QuiesceInv, ReadMember(r, i)
  PROVE  /\ Others(r) /\ Same(req[r], req'[r], {"got"}) /\ req[r].stage = "reading"
         /\ i \in req[r].src
         /\ \E s \in Stripes : req[r].todo = {s} /\ req'[r].got = Adding(req[r].got, i, disk[s][i])
<1>1. req[r].stage = "reading" /\ i \in req[r].src
  BY DEF ReadMember
<1>2. PICK s \in Stripes : req[r].todo = {s}
  BY <1>1 DEF QuiesceInv, Counted, Reading
<1>3. (CHOOSE t \in req[r].todo : TRUE) = s
  BY <1>2
<1> DEFINE g == Adding(req[r].got, i, disk[s][i])
<1>4. req' = [req EXCEPT ![r].got = g]
  BY <1>3 DEF ReadMember
<1> HIDE DEF g
<1>5. /\ FunctionOn(req', Requests) /\ \A q \in Requests \ {r} : req'[q] = req[q]
      /\ Same(req[r], req'[r], {"got"}) /\ req'[r].got = g
  BY <1>4 DEF QuiesceInv, Shapes, FunctionOn, Same, RequestFields
<1> QED
  BY <1>1, <1>2, <1>5, OnlyOne DEF g, QuiesceInv

LEMMA ReadsLock ==
  ASSUME NEW r \in Requests, QuiesceInv, LockInv,
         \/ ReadPick(r) \/ ReadGen(r) \/ ReadCount(r) \/ ReadConfirm(r) \/ ReadWaits(r)
         \/ \E i \in Disks : ReadMember(r, i)
  PROVE  LockInv'
<1>1. UNCHANGED <<disk, member, bad, onSb, pending, sh, bucket, wlock, pass, dirty, wrote, budget>>
  BY DEF ReadPick, ReadGen, ReadCount, ReadConfirm, ReadWaits, ReadMember, devices, locks, history
<1>2. req[r].gen0 \in Nat /\ bucket.gen \in Nat /\ Shapes
  BY RequestParts DEF Form
<1>3. /\ Others(r) /\ Same(req[r], req'[r], Soft) /\ req'[r].gen0 \in Nat
      /\ req[r].stage \notin {"end", "idle"} /\ req'[r].stage \in Passive
  <2>1. CASE ReadPick(r)
    <3>1. /\ Others(r) /\ Same(req[r], req'[r], {"stage", "src"}) /\ req[r].stage = "pick"
          /\ req'[r].stage \in {"gen", "get"}
      BY <1>2, <2>1, ReadPickDoes DEF ReadPick
    <3> QED
      BY <1>2, <3>1, SameIs, SameMore DEF Soft, Passive
  <2>2. CASE ReadGen(r)
    BY <1>2, <2>2, ReadGenDoes, SameIs, SameMore DEF ReadGen, Soft, Passive
  <2>3. CASE ReadCount(r) \/ ReadConfirm(r) \/ ReadWaits(r)
    BY <1>2, <2>3, ReadCountDoes, SameIs, SameMore DEF Soft, Passive
  <2>4. CASE \E i \in Disks : ReadMember(r, i)
    <3>1. /\ Others(r) /\ Same(req[r], req'[r], {"got"}) /\ req[r].stage = "reading"
      BY <2>4, ReadMemberDoes
    <3> QED
      BY <1>2, <3>1, SameIs, SameMore DEF Soft, Passive
  <2> QED
    BY <2>1, <2>2, <2>3, <2>4
<1> QED
  BY <1>1, <1>3, PassiveLocks

\* The record of no request.
LEMMA NoRequestIs ==
  /\ NoRequest.kind = "none" /\ NoRequest.stage = "idle" /\ NoRequest.todo = {} /\ NoRequest.at = 0
  /\ NoRequest.blk = {} /\ NoRequest.val = 0 /\ NoRequest.out = {} /\ NoRequest.failed = {}
  /\ NoRequest.missing = {} /\ NoRequest.gen0 = 0 /\ NoRequest.answer = <<>>
  /\ DOMAIN NoRequest = RequestFields /\ Form(NoRequest)
<1>1. /\ NoRequest.kind = "none" /\ NoRequest.stage = "idle" /\ NoRequest.todo = {} /\ NoRequest.at = 0
      /\ NoRequest.blk = {} /\ NoRequest.val = 0 /\ NoRequest.out = {} /\ NoRequest.failed = {}
      /\ NoRequest.missing = {} /\ NoRequest.gen0 = 0 /\ NoRequest.answer = <<>>
      /\ DOMAIN NoRequest = RequestFields
  BY DEF NoRequest, RequestFields
<1>2. 0 \in Block
  BY RowAssumption DEF Block
<1> QED
  BY <1>1, <1>2 DEF Form, RowStages, Prepared

LEMMA IdleOk ==
  ASSUME NEW r \in Requests, req'[r] = NoRequest
  PROVE  RequestOk(r)'
<1>1. req'[r].stage = "idle" /\ Form(req'[r])
  BY NoRequestIs
<1> QED
  BY <1>1 DEF RequestOk, Owner, Bounced, Missed, Hands, Owning, Prepared

LEMMA ReadWorkDoes ==
  ASSUME NEW r \in Requests, Shapes, ReadWork(r)
  PROVE  /\ Others(r) /\ req[r].stage = "reading"
         /\ \/ /\ Undisturbed(r) /\ Same(req[r], req'[r], {"stage", "answer"})
               /\ req'[r].stage = "end"
               /\ req'[r].answer = [d \in req[r].blk |-> Solve(req[r].got, req[r].src)[d]]
            \/ Same(req[r], req'[r], {"stage", "retry"}) /\ req'[r].stage = "get"
<1>1. FunctionOn(req', Requests) /\ \A q \in Requests \ {r} : req'[q] = req[q]
  BY DEF ReadWork, Shapes, FunctionOn
<1> DEFINE a == [d \in req[r].blk |-> Solve(req[r].got, req[r].src)[d]]
<1>2. \/ Undisturbed(r) /\ req'[r] = [req[r] EXCEPT !.stage = "end", !.answer = a]
      \/ req'[r] = [req[r] EXCEPT !.stage = "get", !.retry = TRUE]
  BY DEF ReadWork, Shapes, FunctionOn
<1> HIDE DEF a
<1>3. \/ /\ Undisturbed(r) /\ Same(req[r], req'[r], {"stage", "answer"})
         /\ req'[r].stage = "end" /\ req'[r].answer = a
      \/ Same(req[r], req'[r], {"stage", "retry"}) /\ req'[r].stage = "get"
  BY <1>2 DEF Shapes, Same, RequestFields
<1> QED
  BY <1>1, <1>3, OnlyOne DEF a, ReadWork

LEMMA ReadWorkLocks ==
  ASSUME NEW r \in Requests, QuiesceInv, LockInv, ReadWork(r) \/ ReadEnd(r)
  PROVE  LockInv'
<1>1. UNCHANGED <<disk, member, bad, onSb, pending, sh, bucket, wlock, pass, dirty, wrote, budget>>
  BY DEF ReadWork, ReadEnd, devices, locks, history
<1>2. Shapes /\ Form(req[r]) /\ bucket.gen \in Nat
  BY RequestParts
<1>3. CASE ReadEnd(r)
  <2>1. Others(r) /\ req'[r] = NoRequest
    BY <1>2, <1>3, OnlyOne DEF ReadEnd, Shapes, FunctionOn
  <2> QED
    BY <1>1, <1>2, <2>1, IdleOk, NoRequestIs, LockStays
<1>4. CASE ReadWork(r)
  <2>1. CASE req'[r].stage = "get"
    <3>1. Same(req[r], req'[r], {"stage", "retry"}) /\ Others(r) /\ req[r].stage = "reading"
      BY <1>2, <1>4, <2>1, ReadWorkDoes
    <3> QED
      BY <1>1, <1>2, <2>1, <3>1, SameIs, SameMore, PassiveLocks DEF Form, Soft, Passive
  <2>2. CASE req'[r].stage = "end"
    <3>1. Same(req[r], req'[r], {"stage", "answer"}) /\ Others(r) /\ req[r].stage = "reading"
      BY <1>2, <1>4, <2>2, ReadWorkDoes
    <3>2. req[r].kind = "read"
      BY <3>1 DEF QuiesceInv, Counted, Reading
    <3>3. Form(req'[r])
      BY <1>2, <2>2, <3>1, <3>2, SameIs DEF Form, RowStages, Prepared
    <3>4. RequestOk(r)'
      BY <2>2, <3>3 DEF RequestOk, Owner, Bounced, Missed, Hands, Owning, Prepared
    <3> QED
      BY <1>1, <1>2, <3>1, <3>4, SameIs, LockStays
  <2> QED
    BY <1>2, <1>4, <2>1, <2>2, ReadWorkDoes
<1> QED
  BY <1>3, <1>4

LEMMA FirstLeast ==
  ASSUME NEW S \in SUBSET Stripes, S # {}
  PROVE  FirstOf(S) \in S /\ \A t \in S : FirstOf(S) <= t
<1>1. S \subseteq Nat
  BY RowAssumption
<1>2. PICK s \in S : \A t \in S : ~(<<t, s>> \in OpToRel(<, Nat))
  BY <1>1, NatLessThanWellFounded, WFMin
<1>3. \A t \in S : ~(t < s)
  BY <1>1, <1>2 DEF OpToRel
<1>4. \A t \in S : s <= t
  BY <1>1, <1>3
<1> QED
  BY <1>4 DEF FirstOf

LEMMA RowPrepDoes ==
  ASSUME NEW r \in Requests, Shapes, RowPrep(r)
  PROVE  /\ Others(r) /\ Same(req[r], req'[r], {"stage", "missing"}) /\ req[r].stage = "prep"
         /\ req'[r].stage \in {"fence", "get"} /\ req'[r].missing = {i \in Disks : ~Present(i)}
<1> DEFINE gone == {i \in Disks : ~Present(i)}
<1>1. /\ FunctionOn(req', Requests) /\ \A q \in Requests \ {r} : req'[q] = req[q]
      /\ req[r].stage = "prep"
  BY DEF RowPrep, Shapes, FunctionOn
<1>2. PICK x \in {"fence", "get"} : req' = [req EXCEPT ![r].missing = gone, ![r].stage = x]
  BY DEF RowPrep
<1> HIDE DEF gone
<1>3. /\ Same(req[r], req'[r], {"stage", "missing"})
      /\ req'[r].stage = x /\ req'[r].missing = gone
  BY <1>2 DEF Shapes, FunctionOn, Same, RequestFields
<1> QED
  BY <1>1, <1>3, OnlyOne DEF gone

LEMMA RowPrepLocks ==
  ASSUME NEW r \in Requests, QuiesceInv, LockInv, RowPrep(r)
  PROVE  LockInv'
<1>1. UNCHANGED <<disk, member, bad, onSb, pending, sh, bucket, wlock, pass, dirty, wrote, budget>>
  BY DEF RowPrep, devices, locks, history
<1>2. /\ Others(r) /\ Same(req[r], req'[r], {"stage", "missing"}) /\ req[r].stage = "prep"
      /\ req'[r].stage \in {"fence", "get"} /\ req'[r].missing = {i \in Disks : ~Present(i)}
  BY RowPrepDoes, RequestParts
<1>3. /\ req'[r].kind = req[r].kind /\ req'[r].at = req[r].at /\ req'[r].blk = req[r].blk
      /\ req'[r].val = req[r].val /\ req'[r].gen0 = req[r].gen0 /\ req'[r].out = req[r].out
      /\ req'[r].failed = req[r].failed /\ req'[r].todo = req[r].todo
      /\ req'[r].answer = req[r].answer
  BY <1>2, SameIs
<1>4. Form(req'[r])
  BY <1>2, <1>3, RequestParts DEF Form, RowStages, Prepared
<1>5. RequestOk(r)'
  BY <1>1, <1>2, <1>4 DEF RequestOk, Owner, Bounced, Missed, Hands, Owning, Prepared, Present
<1> QED
  BY <1>1, <1>2, <1>3, <1>5, LockStays, RequestParts

LEMMA RowFenceLocks ==
  ASSUME NEW r \in Requests, QuiesceInv, LockInv, RowFence(r) \/ RowSettled(r)
  PROVE  LockInv'
<1>1. UNCHANGED <<disk, member, bad, onSb, pending, sh, bucket, wlock, pass, dirty, wrote, budget>>
  BY DEF RowFence, RowSettled, devices, locks, history
<1>2. /\ Others(r) /\ Same(req[r], req'[r], {"stage"})
      /\ \/ req[r].stage = "fence" /\ req'[r].stage = "lock"
         \/ req[r].stage = "sbwait" /\ req'[r].stage = "rowend"
  BY StageOnly, RequestParts DEF RowFence, RowSettled
<1>3. /\ req'[r].kind = req[r].kind /\ req'[r].at = req[r].at /\ req'[r].blk = req[r].blk
      /\ req'[r].val = req[r].val /\ req'[r].gen0 = req[r].gen0 /\ req'[r].out = req[r].out
      /\ req'[r].failed = req[r].failed /\ req'[r].todo = req[r].todo
      /\ req'[r].answer = req[r].answer /\ req'[r].missing = req[r].missing
  BY <1>2, SameIs
<1>4. Form(req'[r])
  BY <1>2, <1>3, RequestParts DEF Form, RowStages, Prepared
<1>5. RequestOk(r)'
  BY <1>1, <1>2, <1>3, <1>4, RequestParts DEF RequestOk, Owner, Bounced, Missed, Hands, Owning, Prepared
<1> QED
  BY <1>1, <1>2, <1>3, <1>5, LockStays, RequestParts

LEMMA RowEndLocks ==
  ASSUME NEW r \in Requests, QuiesceInv, LockInv, RowEnd(r)
  PROVE  LockInv'
<1>1. UNCHANGED <<disk, member, bad, onSb, pending, sh, bucket, wlock, pass, dirty, wrote, budget>>
  BY DEF RowEnd, devices, history
<1>2. Others(r) /\ req'[r] = NoRequest
  BY RequestParts, OnlyOne DEF RowEnd, Shapes, FunctionOn
<1> QED
  BY <1>1, <1>2, RequestParts, IdleOk, NoRequestIs, LockStays

\* Giving the row up.
LEMMA UnprepDoes ==
  ASSUME NEW r \in Requests, Shapes, Unprep(r)
  PROVE  /\ Others(r) /\ Same(req[r], req'[r], {"wait", "stage"}) /\ req'[r].stage = "get"
         /\ sh' = sh
         /\ wlock' = wlock \/ (wlock.by = r /\ Unlock)
<1>1. CASE wlock.by = r
  BY <1>1, RewokenOthers DEF Unprep
<1>2. CASE wlock.by # r
  <2>1. req' = [req EXCEPT ![r].stage = "get"] /\ sh' = sh /\ wlock' = wlock
    BY <1>2 DEF Unprep
  <2>2. Others(r) /\ Same(req[r], req'[r], {"stage"}) /\ req'[r].stage = "get"
    BY <2>1, StageOnly
  <2> QED
    BY <2>1, <2>2, SameMore
<1> QED
  BY <1>1, <1>2

LEMMA UnprepLocks ==
  ASSUME NEW r \in Requests, QuiesceInv, LockInv, Unprep(r), req[r].stage \in Prepared,
         UNCHANGED <<disk, member, bad, onSb, pending, bucket, pass, dirty, wrote, budget>>
  PROVE  LockInv'
<1>1. /\ Others(r) /\ Same(req[r], req'[r], {"wait", "stage"}) /\ req'[r].stage = "get"
      /\ sh' = sh
      /\ wlock' = wlock \/ (wlock.by = r /\ Unlock)
  BY UnprepDoes, RequestParts
<1>2. /\ DOMAIN wlock' = DOMAIN wlock
      /\ wlock'.by = wlock.by \/ wlock.by = r
  BY <1>1 DEF Unlock, LockInv, Shaped
<1>3. req'[r].kind = req[r].kind /\ req'[r].gen0 = req[r].gen0
  BY <1>1, SameIs
<1>4. RequestOk(r)'
  BY <1>1, <1>3, PassiveOk, RequestParts, SameMore DEF Form, Soft, Passive, Prepared
<1>5. \A s \in Stripes : Clean(s) => Clean(s)'
  BY <1>1 DEF Clean
<1> QED
  BY <1>1, <1>2, <1>3, <1>4, <1>5, LockAlone, RequestParts

LEMMA RowLockDoes ==
  ASSUME NEW r \in Requests, Shapes, RowLock(r), ~Unprep(r)
  PROVE  /\ Others(r) /\ Same(req[r], req'[r], {"stage", "at"}) /\ req'[r].stage = "walk"
         /\ req'[r].at = FirstOf(Stripes) /\ wlock' = [wlock EXCEPT !.by = r] /\ wlock.by = None
         /\ sh' = sh
<1> DEFINE s == FirstOf(Stripes)
<1>1. /\ req' = [req EXCEPT ![r].stage = "walk", ![r].at = s]
      /\ wlock' = [wlock EXCEPT !.by = r] /\ wlock.by = None /\ sh' = sh
  BY DEF RowLock, Locked
<1> HIDE DEF s
<1>2. FunctionOn(req', Requests) /\ \A q \in Requests \ {r} : req'[q] = req[q]
  BY <1>1 DEF Shapes, FunctionOn
<1>3. Same(req[r], req'[r], {"stage", "at"}) /\ req'[r].stage = "walk" /\ req'[r].at = s
  BY <1>1 DEF Shapes, FunctionOn, Same, RequestFields
<1> QED
  BY <1>1, <1>2, <1>3, OnlyOne DEF s

LEMMA RowLockLocks ==
  ASSUME NEW r \in Requests, QuiesceInv, LockInv, RowLock(r)
  PROVE  LockInv'
<1>1. UNCHANGED <<disk, member, bad, onSb, pending, bucket, pass, dirty, wrote, budget>>
  BY DEF RowLock, devices, history
<1>2. req[r].stage = "lock"
  BY DEF RowLock
<1>3. CASE Unprep(r)
  BY <1>1, <1>2, <1>3, UnprepLocks DEF Prepared
<1>4. CASE ~Unprep(r)
  <2>1. /\ Others(r) /\ Same(req[r], req'[r], {"stage", "at"}) /\ req'[r].stage = "walk"
        /\ req'[r].at = FirstOf(Stripes) /\ wlock' = [wlock EXCEPT !.by = r] /\ wlock.by = None
        /\ sh' = sh
    BY <1>4, RowLockDoes, RequestParts
  <2>2. /\ req'[r].kind = req[r].kind /\ req'[r].blk = req[r].blk
        /\ req'[r].val = req[r].val /\ req'[r].gen0 = req[r].gen0 /\ req'[r].out = req[r].out
        /\ req'[r].failed = req[r].failed /\ req'[r].todo = req[r].todo
        /\ req'[r].answer = req[r].answer /\ req'[r].missing = req[r].missing
    BY <2>1, SameIs
  <2>3. Form(req'[r])
    BY <1>2, <2>1, <2>2, RequestParts DEF Form, RowStages, Prepared
  <2>4. wlock'.by = r /\ DOMAIN wlock' = DOMAIN wlock
    BY <2>1 DEF LockInv, Shaped
  <2>5. req'[r].at \in Stripes /\ \A s \in Stripes : ~(s < req'[r].at)
    BY <2>1, FirstLeast, RowAssumption
  <2>6. Missed(r)'
    BY <1>1, <1>2, <2>2, RequestParts DEF RequestOk, Missed, Prepared
  <2>7. RequestOk(r)'
    BY <2>1, <2>3, <2>4, <2>5, <2>6 DEF RequestOk, Owner, Bounced, Hands
  <2>8. \A s \in Stripes : Clean(s) => Clean(s)'
    BY <2>1 DEF Clean
  <2> QED
    BY <1>1, <2>1, <2>2, <2>4, <2>7, <2>8, LockAlone, RequestParts
<1> QED
  BY <1>3, <1>4

LEMMA RowWalkDoes ==
  ASSUME NEW r \in Requests, QuiesceInv, LockInv, RowWalk(r), ~Unprep(r)
  PROVE  /\ Others(r) /\ Same(req[r], req'[r], {"stage", "at"}) /\ wlock' = wlock
         /\ req[r].at \in Stripes /\ \A s \in Stripes : s = req[r].at => Clean(s)'
         /\ \/ /\ req'[r].stage = "recheck" /\ \A t \in Stripes : t <= req[r].at
            \/ /\ req'[r].stage = "walk" /\ req'[r].at \in Stripes
               /\ \A t \in Stripes : t < req'[r].at => t <= req[r].at
         /\ \A s \in Stripes : /\ sh'[s].owner = sh[s].owner /\ sh'[s].mark = sh[s].mark
                               /\ sh'[s].held = sh[s].held /\ sh'[s].page = sh[s].page
                               /\ sh'[s].uptodate = IF s = req[r].at THEN {} ELSE sh[s].uptodate
<1> DEFINE s == req[r].at
           left == {t \in Stripes : t > s}
<1>1. /\ sh[s].held = {} /\ sh[s].mark = "none" /\ sh' = [sh EXCEPT ![s].uptodate = {}]
      /\ req' = IF left = {} THEN [req EXCEPT ![r].stage = "recheck"]
                             ELSE [req EXCEPT ![r].at = FirstOf(left)]
      /\ wlock' = wlock /\ req[r].stage = "walk"
  BY DEF RowWalk
<1>2. s \in Stripes /\ s \in Nat /\ Stripes \subseteq Nat
  BY <1>1, RequestParts, RowAssumption DEF RequestOk, Owner
<1>3. left # {} => FirstOf(left) \in Stripes /\ \A t \in Stripes : t < FirstOf(left) => t <= s
  <2> SUFFICES ASSUME left # {}
               PROVE  FirstOf(left) \in Stripes /\ \A t \in Stripes : t < FirstOf(left) => t <= s
    OBVIOUS
  <2>1. PICK n \in left : n = FirstOf(left) /\ \A t \in left : n <= t
    BY FirstLeast
  <2>2. ASSUME NEW t \in Stripes, t < n PROVE t <= s
    BY <1>2, <2>1, <2>2
  <2> QED
    BY <2>1, <2>2
<1>4. left = {} => \A t \in Stripes : t <= s
  BY <1>2
<1> DEFINE n == FirstOf(left)
<1>5. \/ left = {} /\ req' = [req EXCEPT ![r].stage = "recheck"]
      \/ left # {} /\ req' = [req EXCEPT ![r].at = n]
  BY <1>1
<1> HIDE DEF n, s, left
<1>6. FunctionOn(req', Requests) /\ \A q \in Requests \ {r} : req'[q] = req[q]
  BY <1>5 DEF QuiesceInv, Shapes, FunctionOn
<1>7. /\ Same(req[r], req'[r], {"stage", "at"})
      /\ \/ left = {} /\ req'[r].stage = "recheck"
         \/ left # {} /\ req'[r].stage = "walk" /\ req'[r].at = n
  BY <1>1, <1>5 DEF QuiesceInv, Shapes, FunctionOn, Same, RequestFields
<1>8. \A t \in Stripes : /\ sh'[t].owner = sh[t].owner /\ sh'[t].mark = sh[t].mark
                         /\ sh'[t].held = sh[t].held /\ sh'[t].page = sh[t].page
                         /\ sh'[t].uptodate = IF t = s THEN {} ELSE sh[t].uptodate
  BY <1>1, <1>2 DEF QuiesceInv, Shapes, FunctionOn, StripeFields
<1>9. \A t \in Stripes : t = s => Clean(t)'
  BY <1>1, <1>2, <1>8 DEF Clean
<1>10. Others(r)
  BY <1>6, OnlyOne DEF QuiesceInv
<1>11. \/ /\ req'[r].stage = "recheck" /\ \A t \in Stripes : t <= s
       \/ /\ req'[r].stage = "walk" /\ req'[r].at \in Stripes
          /\ \A t \in Stripes : t < req'[r].at => t <= s
  BY <1>3, <1>4, <1>7 DEF n
<1> QED
  BY <1>1, <1>2, <1>7, <1>8, <1>9, <1>10, <1>11 DEF s

LEMMA RowWalkLocks ==
  ASSUME NEW r \in Requests, QuiesceInv, LockInv, RowWalk(r)
  PROVE  LockInv'
<1>1. UNCHANGED <<disk, member, bad, onSb, pending, bucket, pass, dirty, wrote, budget>>
  BY DEF RowWalk, devices, history
<1>2. req[r].stage = "walk"
  BY DEF RowWalk
<1>3. CASE Unprep(r)
  BY <1>1, <1>2, <1>3, UnprepLocks DEF Prepared
<1>4. CASE ~Unprep(r)
  <2>1. /\ Others(r) /\ Same(req[r], req'[r], {"stage", "at"}) /\ wlock' = wlock
        /\ req[r].at \in Stripes /\ \A s \in Stripes : s = req[r].at => Clean(s)'
        /\ \/ /\ req'[r].stage = "recheck" /\ \A t \in Stripes : t <= req[r].at
           \/ /\ req'[r].stage = "walk" /\ req'[r].at \in Stripes
              /\ \A t \in Stripes : t < req'[r].at => t <= req[r].at
        /\ \A s \in Stripes : /\ sh'[s].owner = sh[s].owner /\ sh'[s].mark = sh[s].mark
                              /\ sh'[s].held = sh[s].held /\ sh'[s].page = sh[s].page
                              /\ sh'[s].uptodate = IF s = req[r].at THEN {} ELSE sh[s].uptodate
    BY <1>4, RowWalkDoes
  <2>2. /\ req'[r].kind = req[r].kind /\ req'[r].blk = req[r].blk
        /\ req'[r].val = req[r].val /\ req'[r].gen0 = req[r].gen0 /\ req'[r].out = req[r].out
        /\ req'[r].failed = req[r].failed /\ req'[r].todo = req[r].todo
        /\ req'[r].answer = req[r].answer /\ req'[r].missing = req[r].missing
    BY <2>1, SameIs
  <2>3. Form(req'[r])
    BY <1>2, <2>1, <2>2, RequestParts DEF Form, RowStages, Prepared
  <2>4. \A s \in Stripes : Clean(s) => Clean(s)'
    BY <2>1 DEF Clean
  <2>5. \A s \in Stripes : s <= req[r].at => Clean(s)'
    <3>1. \A s \in Stripes : s < req[r].at => Clean(s)
      BY <1>2, RequestParts DEF RequestOk, Owner
    <3>2. Stripes \subseteq Nat
      BY RowAssumption
    <3>3. \A s \in Stripes : s <= req[r].at => s < req[r].at \/ s = req[r].at
      BY <2>1, <3>2
    <3> QED
      BY <2>1, <2>4, <3>1, <3>3
  <2>6. Missed(r)' /\ wlock'.by = r
    BY <1>1, <1>2, <2>1, <2>2, RequestParts DEF RequestOk, Missed, Owner, Owning, Prepared
  <2>7. RequestOk(r)'
    BY <2>1, <2>3, <2>5, <2>6 DEF RequestOk, Owner, Bounced, Hands
  <2> QED
    BY <1>1, <2>1, <2>2, <2>4, <2>7, LockAlone, RequestParts
<1> QED
  BY <1>3, <1>4

LEMMA CountInIs ==
  ASSUME QuiesceInv, LockInv, CountIn
  PROVE  /\ bucket'.gen \in Nat /\ bucket'.inflight = bucket.inflight + 1
         /\ ~budget.forever => bucket'.gen = bucket.gen + 1
<1>1. bucket.gen \in Nat
  BY DEF LockInv, Shaped
<1>2. (bucket.gen + 1) % 2 \in Nat
  BY <1>1
<1> QED
  BY <1>1, <1>2 DEF CountIn, NextGen

LEMMA RowGoDoes ==
  ASSUME NEW r \in Requests, Shapes, RowGo(r), quiesce = "off"
  PROVE  /\ Others(r) /\ Same(req[r], req'[r], {"stage", "out", "page"})
         /\ req[r].stage = "recheck" /\ req'[r].stage = "rowland"
         /\ req'[r].out = Disks \ req[r].missing
         /\ req'[r].page = Codeword([d \in Data |-> req[r].val])
         /\ \A q \in Requests \ {r} : req[q].kind = "read" /\ req[q].todo \subseteq Stripes =>
              \A d \in Data : req[r].val \in req'[q].may[d]
         /\ CountIn /\ Begin(Stripes, Data, req[r].val) /\ sh' = sh /\ wlock' = wlock
<1> DEFINE o == Disks \ req[r].missing
           p == Codeword([d \in Data |-> req[r].val])
           v == req[r].val
<1>1. /\ req' = [MayAlso(Stripes, Data, v) EXCEPT ![r] =
                   [req[r] EXCEPT !.stage = "rowland", !.out = o, !.page = p]]
      /\ CountIn /\ Begin(Stripes, Data, v) /\ sh' = sh /\ wlock' = wlock
      /\ req[r].stage = "recheck"
  BY DEF RowGo
<1> HIDE DEF o, p, v
<1>2. /\ Others(r) /\ req'[r] = [req[r] EXCEPT !.stage = "rowland", !.out = o, !.page = p]
      /\ \A q \in Requests \ {r} : req[q].kind = "read" /\ req[q].todo \subseteq Stripes =>
           \A d \in Data : v \in req'[q].may[d]
  <2> DEFINE x == [req[r] EXCEPT !.stage = "rowland", !.out = o, !.page = p]
  <2>1. req' = [MayAlso(Stripes, Data, v) EXCEPT ![r] = x]
    BY <1>1
  <2> HIDE DEF x
  <2>2. /\ Others(r) /\ req'[r] = x
        /\ \A q \in Requests \ {r} : req[q].kind = "read" /\ req[q].todo \subseteq Stripes =>
             \A d \in Data \cap Data : v \in req'[q].may[d]
    BY <2>1, MayAlsoOthers
  <2> QED
    BY <2>2 DEF x
<1>3. /\ Same(req[r], req'[r], {"stage", "out", "page"})
      /\ req'[r].stage = "rowland" /\ req'[r].out = o /\ req'[r].page = p
  BY <1>2 DEF Shapes, Same, RequestFields
<1> QED
  BY <1>1, <1>2, <1>3 DEF o, p, v

LEMMA RowGoLocks ==
  ASSUME NEW r \in Requests, QuiesceInv, LockInv, RowGo(r)
  PROVE  LockInv'
<1>1. UNCHANGED <<disk, member, bad, onSb, pending, pass, dirty, wrote, budget>>
  BY DEF RowGo, devices
<1>2. CASE quiesce # "off"
  <2>1. Unprep(r) /\ UNCHANGED bucket /\ req[r].stage = "recheck"
    BY <1>2 DEF RowGo
  <2> QED
    BY <1>1, <2>1, UnprepLocks DEF Prepared
<1>3. CASE quiesce = "off"
  <2>1. /\ Others(r) /\ Same(req[r], req'[r], {"stage", "out", "page"})
        /\ req[r].stage = "recheck" /\ req'[r].stage = "rowland"
        /\ req'[r].out = Disks \ req[r].missing
        /\ sh' = sh /\ wlock' = wlock /\ bucket'.gen \in Nat
    BY <1>3, RowGoDoes, CountInIs, RequestParts
  <2>2. /\ req'[r].kind = req[r].kind /\ req'[r].blk = req[r].blk
        /\ req'[r].val = req[r].val /\ req'[r].gen0 = req[r].gen0
        /\ req'[r].failed = req[r].failed /\ req'[r].todo = req[r].todo
        /\ req'[r].answer = req[r].answer /\ req'[r].missing = req[r].missing
    BY <2>1, SameIs
  <2>3. Form(req'[r])
    BY <2>1, <2>2, RequestParts DEF Form, RowStages, Prepared
  <2>4. RequestOk(r)'
    BY <2>1, <2>3, RequestParts DEF RequestOk, Owner, Clean, Bounced, Missed, Hands, Owning, Prepared
  <2> QED
    BY <1>1, <2>1, <2>2, <2>4, LockStays, RequestParts
<1> QED
  BY <1>2, <1>3

LEMMA RowLandDoes ==
  ASSUME NEW r \in Requests, NEW i \in Disks, Shapes, RowLand(r, i)
  PROVE  /\ Others(r) /\ Same(req[r], req'[r], {"out", "failed"}) /\ req[r].stage = "rowland"
         /\ i \in req[r].out /\ req'[r].out = req[r].out \ {i}
         /\ \/ /\ req'[r].failed = req[r].failed /\ budget' = budget
               /\ disk' = [s \in Stripes |-> [disk[s] EXCEPT ![i] = req[r].page[i]]]
            \/ /\ req'[r].failed = req[r].failed \cup {i} /\ disk' = disk
               /\ budget.wfaults > 0 /\ budget' = [budget EXCEPT !.wfaults = @ - 1]
<1>1. /\ FunctionOn(req', Requests) /\ \A q \in Requests \ {r} : req'[q] = req[q]
      /\ req[r].stage = "rowland" /\ i \in req[r].out
  BY DEF RowLand, Shapes, FunctionOn
<1> DEFINE o == req[r].out \ {i}
           f == req[r].failed \cup {i}
<1>2. \/ /\ req' = [req EXCEPT ![r].out = o] /\ budget' = budget
         /\ disk' = [s \in Stripes |-> [disk[s] EXCEPT ![i] = req[r].page[i]]]
      \/ /\ req' = [req EXCEPT ![r].out = o, ![r].failed = f] /\ disk' = disk
         /\ budget.wfaults > 0 /\ budget' = [budget EXCEPT !.wfaults = @ - 1]
  BY DEF RowLand
<1> HIDE DEF o, f
<1>3. CASE /\ req' = [req EXCEPT ![r].out = o] /\ budget' = budget
           /\ disk' = [s \in Stripes |-> [disk[s] EXCEPT ![i] = req[r].page[i]]]
  <2>1. /\ Same(req[r], req'[r], {"out", "failed"}) /\ req'[r].out = o
        /\ req'[r].failed = req[r].failed
    BY <1>3 DEF Shapes, FunctionOn, Same, RequestFields
  <2> QED
    BY <1>1, <1>3, <2>1, OnlyOne DEF o
<1>4. CASE /\ req' = [req EXCEPT ![r].out = o, ![r].failed = f] /\ disk' = disk
           /\ budget.wfaults > 0 /\ budget' = [budget EXCEPT !.wfaults = @ - 1]
  <2>1. /\ Same(req[r], req'[r], {"out", "failed"}) /\ req'[r].out = o /\ req'[r].failed = f
    BY <1>4 DEF Shapes, FunctionOn, Same, RequestFields
  <2> QED
    BY <1>1, <1>4, <2>1, OnlyOne DEF o, f
<1> QED
  BY <1>2, <1>3, <1>4

LEMMA LessFaults ==
  ASSUME LockInv, budget.wfaults > 0, budget' = [budget EXCEPT !.wfaults = @ - 1]
  PROVE  \E n \in Nat : budget' = [budget EXCEPT !.wfaults = n]
<1>1. budget.wfaults \in Nat /\ budget.wfaults - 1 \in Nat
  BY DEF LockInv, Bounded, BudgetBounds
<1> QED
  BY <1>1

\* The members' blocks change and nothing else of the members.
LEMMA LockWrites ==
  ASSUME NEW r \in Requests, QuiesceInv, LockInv, Others(r),
         DOMAIN disk' = Stripes, \A s \in Stripes : DOMAIN disk'[s] = Disks,
         UNCHANGED <<member, bad, onSb, pending, sh, wlock, pass, dirty, wrote>>,
         budget' = budget \/ \E n \in Nat : budget' = [budget EXCEPT !.wfaults = n],
         bucket'.gen \in Nat, req'[r].kind = req[r].kind, RequestOk(r)'
  PROVE  LockInv'
<1>1. Shaped /\ Bounded /\ PassForm /\ Marks /\ Recording
  BY DEF LockInv
<1>2. Shaped' /\ PassForm' /\ Marks' /\ Recording'
  BY <1>1 DEF Shaped, PassForm, Marks, Recording, Recorded, Usable
<1>3. Bounded'
  <2>1. \A q \in Requests : req[q].kind # "read" => req'[q].kind # "read"
    BY TwinIs DEF Others
  <2>2. /\ budget' \in BudgetBounds /\ budget'.forever = budget.forever
        /\ budget'.read = budget.read /\ budget'.write = budget.write
        /\ budget'.rowwrite = budget.rowwrite /\ budget'.start = budget.start
        /\ budget'.pass = budget.pass
    BY <1>1 DEF Bounded, BudgetBounds
  <2> QED
    BY <1>1, <2>1, <2>2 DEF Bounded
<1>4. \A q \in Requests \ {r} : req[q].stage \in Hands => req[q].at \in Stripes
  BY DEF QuiesceInv, Counted, Holding, Hands
<1>5. \A s \in Stripes : Clean(s) => Clean(s)'
  BY DEF Clean
<1> QED
  BY <1>2, <1>3, <1>4, <1>5, LockStep

LEMMA RowLandLocks ==
  ASSUME NEW r \in Requests, NEW i \in Disks, QuiesceInv, LockInv, RowLand(r, i)
  PROVE  LockInv'
<1>1. UNCHANGED <<member, bad, onSb, pending, sh, bucket, wlock, pass, dirty, wrote>>
  BY DEF RowLand, locks, history
<1>2. /\ Others(r) /\ Same(req[r], req'[r], {"out", "failed"}) /\ req[r].stage = "rowland"
      /\ i \in req[r].out /\ req'[r].out = req[r].out \ {i}
      /\ req'[r].failed \in {req[r].failed, req[r].failed \cup {i}}
      /\ disk' = disk \/ disk' = [s \in Stripes |-> [disk[s] EXCEPT ![i] = req[r].page[i]]]
      /\ \/ budget' = budget
         \/ budget.wfaults > 0 /\ budget' = [budget EXCEPT !.wfaults = @ - 1]
  BY RowLandDoes, RequestParts
<1>3. DOMAIN disk' = Stripes /\ \A s \in Stripes : DOMAIN disk'[s] = Disks
  BY <1>2 DEF LockInv, Shaped
<1>4. /\ req'[r].kind = req[r].kind /\ req'[r].blk = req[r].blk /\ req'[r].stage = req[r].stage
      /\ req'[r].val = req[r].val /\ req'[r].gen0 = req[r].gen0
      /\ req'[r].todo = req[r].todo
      /\ req'[r].answer = req[r].answer /\ req'[r].missing = req[r].missing
  BY <1>2, SameIs
<1>5. Form(req'[r])
  BY <1>2, <1>4, RequestParts DEF Form, RowStages, Prepared
<1>6. RequestOk(r)'
  BY <1>1, <1>2, <1>4, <1>5, RequestParts DEF RequestOk, Owner, Clean, Bounced, Missed, Hands, Owning, Prepared
<1>7. budget' = budget \/ \E n \in Nat : budget' = [budget EXCEPT !.wfaults = n]
  BY <1>2, LessFaults
<1> QED
  BY <1>1, <1>2, <1>3, <1>4, <1>6, <1>7, LockWrites, RequestParts

\* The pass as it was, but for some fields.
SamePass(F) == DOMAIN pass' = PassFields /\ \A f \in PassFields \ F : pass'[f] = pass[f]

LEMMA SamePassIs ==
  ASSUME NEW F, SamePass(F)
  PROVE  /\ "kind" \notin F => pass'.kind = pass.kind
         /\ "stage" \notin F => pass'.stage = pass.stage
         /\ "target" \notin F => pass'.target = pass.target
         /\ "members" \notin F => pass'.members = pass.members
         /\ "claimed" \notin F => pass'.claimed = pass.claimed
         /\ "got" \notin F => pass'.got = pass.got
         /\ "out" \notin F => pass'.out = pass.out
         /\ "ok" \notin F => pass'.ok = pass.ok
         /\ "left" \notin F => pass'.left = pass.left
  BY DEF SamePass, PassFields

\* What failed is written down: as a bad block, or as a member that is out.
LEMMA PunishDoes ==
  ASSUME Shapes, LockInv, NEW S, NEW F \in SUBSET Disks, Punish(S, F)
  PROVE  /\ SamePass({"ok"}) /\ (pass'.ok => pass.ok) /\ (F = {} => pass' = pass)
         /\ DOMAIN member' = Disks /\ bad \subseteq bad'
         /\ \A i \in Disks : member'[i] = member[i] \/ member'[i] = "faulty"
         /\ pending' = (pending \/ F # {})
         /\ \A s \in S, i \in F : member'[i] = "faulty" \/ <<s, i>> \in bad'
         /\ \A i \in Disks : member'[i] = member[i] \/ i \in F
         /\ \A s, i : <<s, i>> \in bad' => <<s, i>> \in bad \/ (s \in S /\ i \in F)
<1>1. PICK full \in SUBSET F :
        /\ bad' = bad \union (S \X (F \ full))
        /\ member' = [i \in Disks |-> IF i \in full THEN "faulty" ELSE member[i]]
        /\ pending' = (pending \/ F # {})
        /\ pass' = IF full # {} THEN [pass EXCEPT !.ok = FALSE] ELSE pass
  BY DEF Punish
<1>3. SamePass({"ok"}) /\ (pass'.ok => pass.ok) /\ (F = {} => pass' = pass)
  BY <1>1 DEF Shapes, SamePass, PassFields
<1>4. /\ DOMAIN member' = Disks /\ bad \subseteq bad'
      /\ \A i \in Disks : member'[i] = member[i] \/ member'[i] = "faulty"
      /\ \A i \in Disks : member'[i] = member[i] \/ i \in F
      /\ \A s \in S, i \in F : member'[i] = "faulty" \/ <<s, i>> \in bad'
      /\ \A s, i : <<s, i>> \in bad' => <<s, i>> \in bad \/ (s \in S /\ i \in F)
  BY <1>1
<1> QED
  BY <1>1, <1>3, <1>4

LEMMA LockPunish ==
  ASSUME NEW r \in Requests, QuiesceInv, LockInv, Others(r), NEW S \in SUBSET Stripes,
         NEW F \in SUBSET Disks, Punish(S, F),
         UNCHANGED <<disk, onSb, sh, dirty, wrote, budget>>,
         DOMAIN wlock' = DOMAIN wlock, bucket'.gen \in Nat,
         req'[r].kind = req[r].kind,
         wlock'.by = wlock.by \/ wlock.by = r, RequestOk(r)'
  PROVE  LockInv'
<1>1. Shaped /\ Bounded /\ PassForm /\ Marks /\ Recording
  BY DEF LockInv
<1>2. /\ SamePass({"ok"}) /\ DOMAIN member' = Disks /\ bad \subseteq bad'
      /\ \A i \in Disks : member'[i] = member[i] \/ member'[i] = "faulty"
      /\ pending' = (pending \/ F # {})
      /\ \A i \in Disks : member'[i] = member[i] \/ i \in F
      /\ \A s, i : <<s, i>> \in bad' => <<s, i>> \in bad \/ (s \in S /\ i \in F)
  BY PunishDoes DEF QuiesceInv
<1>3. /\ pass'.kind = pass.kind /\ pass'.stage = pass.stage /\ pass'.claimed = pass.claimed
      /\ pass'.left = pass.left
  BY <1>2, SamePassIs
<1>4. DOMAIN member = Disks /\ DOMAIN onSb = {"member", "bad"}
  BY <1>1 DEF Shaped
<1>5. Shaped' /\ PassForm' /\ Marks'
  BY <1>1, <1>2, <1>3 DEF Shaped, PassForm, Marks
<1>6. Bounded'
  <2>1. \A q \in Requests : req[q].kind # "read" => req'[q].kind # "read"
    BY TwinIs DEF Others
  <2> QED
    BY <1>1, <1>3, <2>1 DEF Bounded
<1>7. Recording'
  BY <1>1, <1>2 DEF Recording, Recorded, Usable
<1>8. \A q \in Requests \ {r} : req[q].stage \in Hands => req[q].at \in Stripes
  BY DEF QuiesceInv, Counted, Holding, Hands
<1>9. \A s \in Stripes : Clean(s) => Clean(s)'
  BY DEF Clean
<1>10. \A i \in Disks : member[i] = "faulty" => member'[i] = "faulty"
  BY <1>2
<1> QED
  BY <1>3, <1>5, <1>6, <1>7, <1>8, <1>9, <1>10, LockStep

LEMMA RowDoneDoes ==
  ASSUME NEW r \in Requests, Shapes, RowDone(r)
  PROVE  /\ Others(r) /\ Same(req[r], req'[r], {"wait", "stage"}) /\ req[r].stage = "rowland"
         /\ req[r].out = {}
         /\ \/ req'[r].stage = "sbwait"
            \/ req'[r].stage = "rowend" /\ req[r].failed \cup req[r].missing = {}
<1> DEFINE x == IF req[r].failed \union req[r].missing # {} THEN "sbwait" ELSE "rowend"
<1>1. req' = [Rewoken EXCEPT ![r].stage = x] /\ req[r].stage = "rowland" /\ req[r].out = {}
  BY DEF RowDone
<1>2. x = "sbwait" \/ (x = "rowend" /\ req[r].failed \cup req[r].missing = {})
  OBVIOUS
<1> HIDE DEF x
<1> QED
  BY <1>1, <1>2, RewokenOthers

LEMMA RowDoneLocks ==
  ASSUME NEW r \in Requests, QuiesceInv, LockInv, RowDone(r)
  PROVE  LockInv'
<1>1. /\ UNCHANGED <<disk, onSb, sh, dirty, wrote, budget>> /\ Unlock
      /\ Punish(Stripes, req[r].failed) /\ bucket' = [bucket EXCEPT !.inflight = @ - 1]
  BY DEF RowDone
<1>2. /\ Others(r) /\ Same(req[r], req'[r], {"wait", "stage"}) /\ req[r].stage = "rowland"
      /\ req'[r].stage \in {"sbwait", "rowend"}
  BY RowDoneDoes, RequestParts
<1>3. /\ req'[r].kind = req[r].kind /\ req'[r].blk = req[r].blk
      /\ req'[r].val = req[r].val /\ req'[r].gen0 = req[r].gen0 /\ req'[r].out = req[r].out
      /\ req'[r].failed = req[r].failed /\ req'[r].todo = req[r].todo
      /\ req'[r].answer = req[r].answer /\ req'[r].missing = req[r].missing
  BY <1>2, SameIs
<1>4. Form(req'[r])
  BY <1>2, <1>3, RequestParts DEF Form, RowStages, Prepared
<1>5. RequestOk(r)'
  BY <1>2, <1>4 DEF RequestOk, Owner, Bounced, Missed, Hands, Owning, Prepared
<1>6. wlock.by = r
  BY <1>2, RequestParts DEF RequestOk, Owner, Owning
<1>7. DOMAIN wlock' = DOMAIN wlock /\ bucket'.gen \in Nat
  BY <1>1 DEF Unlock, LockInv, Shaped, QuiesceInv, Shapes
<1>8. req[r].failed \in SUBSET Disks
  BY RequestParts DEF Form
<1> QED
  BY <1>1, <1>2, <1>3, <1>5, <1>6, <1>7, <1>8, LockPunish

LEMMA NoteDoes ==
  ASSUME NEW r \in Requests, Shapes, Note(r)
  PROVE  /\ Others(r) /\ Same(req[r], req'[r], {"stage"}) /\ req[r].stage = "note"
         /\ req'[r].stage = "ack"
<1>1. req' = [req EXCEPT ![r].stage = "ack"] /\ req[r].stage = "note"
  BY DEF Note
<1> QED
  BY <1>1, StageOnly

LEMMA NoteLocks ==
  ASSUME NEW r \in Requests, QuiesceInv, LockInv, Note(r)
  PROVE  LockInv'
<1>1. /\ UNCHANGED <<disk, onSb, sh, locks, dirty, wrote, budget>>
      /\ Punish({req[r].at}, req[r].failed)
  BY DEF Note
<1>2. /\ Others(r) /\ Same(req[r], req'[r], {"stage"}) /\ req[r].stage = "note"
      /\ req'[r].stage = "ack"
  BY NoteDoes, RequestParts
<1>3. /\ req'[r].kind = req[r].kind /\ req'[r].blk = req[r].blk /\ req'[r].at = req[r].at
      /\ req'[r].val = req[r].val /\ req'[r].gen0 = req[r].gen0 /\ req'[r].out = req[r].out
      /\ req'[r].failed = req[r].failed /\ req'[r].todo = req[r].todo
      /\ req'[r].answer = req[r].answer /\ req'[r].missing = req[r].missing
  BY <1>2, SameIs
<1>4. Form(req'[r])
  BY <1>2, <1>3, RequestParts DEF Form, RowStages, Prepared
<1>5. req[r].failed \in SUBSET Disks /\ {req[r].at} \in SUBSET Stripes
  BY <1>2, RequestParts DEF Form, Counted, Holding
<1>6. SamePass({"ok"}) /\ pass'.claimed = pass.claimed /\ pass'.kind = pass.kind
  BY <1>1, <1>5, RequestParts, PunishDoes, SamePassIs
<1>7. RequestOk(r)'
  BY <1>1, <1>2, <1>3, <1>4, <1>6, RequestParts DEF RequestOk, Owner, Bounced, Missed, Hands, Owning, Prepared
<1>8. wlock' = wlock /\ bucket' = bucket
  BY <1>1 DEF locks
<1> QED
  BY <1>1, <1>2, <1>3, <1>5, <1>7, <1>8, LockPunish, RequestParts

\* The request is done with its stripe: it goes on, or it is over.
LEMMA DoneDoes ==
  ASSUME NEW r \in Requests, Shapes, Form(req[r]), req[r].stage # "end", req' = Done(r)
  PROVE  /\ Others(r)
         /\ \/ req'[r] = NoRequest
            \/ /\ Same(req[r], req'[r], {"stage", "todo"}) /\ req'[r].stage = "get"
               /\ req'[r].todo = req[r].todo \ {req[r].at}
<1> DEFINE s == req[r].at
           left == req[r].todo \ {s}
           x == IF left # {} THEN [req[r] EXCEPT !.stage = "get", !.todo = left]
                ELSE IF req[r].answer # <<>> THEN [req[r] EXCEPT !.stage = "end"] ELSE NoRequest
<1>1. req' = [Woken(s) EXCEPT ![r] = x]
  BY DEF Done
<1>2. x = NoRequest \/ x = [req[r] EXCEPT !.stage = "get", !.todo = left]
  BY DEF Form
<1> HIDE DEF x, left
<1>3. Others(r) /\ req'[r] = x
  BY <1>1, WokenOthers
<1>4. ASSUME x = [req[r] EXCEPT !.stage = "get", !.todo = left]
      PROVE  Same(req[r], x, {"stage", "todo"}) /\ x.stage = "get" /\ x.todo = left
  BY <1>4 DEF Shapes, Same, RequestFields
<1> QED
  BY <1>2, <1>3, <1>4 DEF left

LEMMA ReleaseDoes ==
  ASSUME NEW r \in Requests, Shapes, req[r].at \in Stripes, ReleaseStripe(r)
  PROVE  \A s \in Stripes : /\ sh'[s].owner = IF s = req[r].at THEN None ELSE sh[s].owner
                            /\ sh'[s].mark = sh[s].mark /\ sh'[s].held \subseteq sh[s].held
                            /\ sh'[s].uptodate = sh[s].uptodate /\ sh'[s].page = sh[s].page
<1> DEFINE s == req[r].at
<1>1. sh' = [sh EXCEPT ![s].held = @ \ {r}, ![s].owner = None]
  BY DEF ReleaseStripe
<1> HIDE DEF s
<1>2. \A t \in Stripes : /\ sh'[t].owner = IF t = s THEN None ELSE sh[t].owner
                         /\ sh'[t].mark = sh[t].mark /\ sh'[t].held \subseteq sh[t].held
                         /\ sh'[t].uptodate = sh[t].uptodate /\ sh'[t].page = sh[t].page
  BY <1>1 DEF Shapes, FunctionOn, StripeFields
<1> QED
  BY <1>2 DEF s

LEMMA DoneLocks ==
  ASSUME NEW r \in Requests, QuiesceInv, LockInv, HandleFailed(r) \/ Ack(r)
  PROVE  LockInv'
<1>1. /\ UNCHANGED <<disk, member, bad, onSb, pending, bucket, wlock, pass, dirty, wrote, budget>>
      /\ req' = Done(r) /\ ReleaseStripe(r) /\ req[r].stage \in {"handle", "ack"}
  BY DEF HandleFailed, Ack, devices, locks, history
<1>2. req[r].at \in Stripes /\ sh[req[r].at].owner = r
  BY <1>1, RequestParts DEF Counted, Holding, RequestOk, Owner, Hands
<1>3. /\ Others(r)
      /\ \/ req'[r] = NoRequest
         \/ Same(req[r], req'[r], {"stage", "todo"}) /\ req'[r].stage = "get"
  BY <1>1, DoneDoes, RequestParts
<1>4. \A s \in Stripes : /\ sh'[s].owner = sh[s].owner \/ sh[s].owner = r
                         /\ sh'[s].mark = sh[s].mark
                         /\ Clean(s) => Clean(s)'
  BY <1>1, <1>2, ReleaseDoes, RequestParts DEF Clean
<1>5. RequestOk(r)' /\ req'[r].kind \in {"none", req[r].kind}
  <2>1. CASE req'[r] = NoRequest
    BY <2>1, IdleOk, NoRequestIs
  <2>2. CASE Same(req[r], req'[r], {"stage", "todo"}) /\ req'[r].stage = "get"
    BY <1>1, <2>2, PassiveOk, RequestParts, SameIs, SameMore DEF Form, Soft, Passive
  <2> QED
    BY <1>3, <2>1, <2>2
<1> QED
  BY <1>1, <1>3, <1>4, <1>5, LockAlone, RequestParts

LEMMA HandleReadDoes ==
  ASSUME NEW r \in Requests, QuiesceInv, HandleRead(r)
  PROVE  /\ Others(r) /\ Same(req[r], req'[r], {"stage", "answer"})
         /\ req[r].stage = "handle" /\ req[r].kind = "read" /\ req'[r].stage = "end"
         /\ req[r].at \in Stripes
         /\ \E filled, page :
              /\ IF req[r].blk \subseteq Known(req[r].at) THEN filled = req[r].blk
                 ELSE filled = FirstK(Known(req[r].at)) \union Data
              /\ page = [i \in Disks |-> IF i \in Data \ Known(req[r].at) THEN Contents(req[r].at)[i]
                                                                         ELSE Page(req[r].at)[i]]
              /\ req'[r].answer = [d \in req[r].blk |-> page[d]]
              /\ \A s \in Stripes :
                   /\ sh'[s].owner = IF s = req[r].at THEN None ELSE sh[s].owner
                   /\ sh'[s].mark = sh[s].mark /\ sh'[s].held \subseteq sh[s].held
                   /\ sh'[s].uptodate = IF s = req[r].at THEN sh[s].uptodate \union filled
                                                         ELSE sh[s].uptodate
                   /\ sh'[s].page = IF s = req[r].at
                        THEN [i \in Disks |-> IF i \in filled THEN page[i] ELSE sh[s].page[i]]
                        ELSE sh[s].page
<1> DEFINE s == req[r].at
           filled == IF req[r].blk \subseteq Known(s) THEN req[r].blk ELSE FirstK(Known(s)) \union Data
           page == [i \in Disks |-> IF i \in Data \ Known(s) THEN Contents(s)[i] ELSE Page(s)[i]]
           a == [d \in req[r].blk |-> page[d]]
           x == [req[r] EXCEPT !.stage = "end", !.answer = a]
           p == [i \in Disks |-> IF i \in filled THEN page[i] ELSE sh[s].page[i]]
<1>1. /\ req[r].stage = "handle" /\ req[r].kind = "read"
      /\ sh' = [sh EXCEPT ![s].held = @ \ {r}, ![s].owner = None, ![s].uptodate = @ \union filled,
                          ![s].page = p]
      /\ req' = [Woken(s) EXCEPT ![r] = x]
  BY DEF HandleRead
<1>2. s \in Stripes
  BY <1>1 DEF QuiesceInv, Counted, Holding
<1>3. /\ IF req[r].blk \subseteq Known(s) THEN filled = req[r].blk ELSE filled = FirstK(Known(s)) \union Data
      /\ page = [i \in Disks |-> IF i \in Data \ Known(s) THEN Contents(s)[i] ELSE Page(s)[i]]
      /\ p = [i \in Disks |-> IF i \in filled THEN page[i] ELSE sh[s].page[i]]
      /\ a = [d \in req[r].blk |-> page[d]]
  OBVIOUS
<1> HIDE DEF x, a, p, page, filled, s
<1>4. Others(r) /\ req'[r] = x
  BY <1>1, WokenOthers DEF QuiesceInv
<1>5. Same(req[r], x, {"stage", "answer"}) /\ x.stage = "end" /\ x.answer = a
  BY DEF x, QuiesceInv, Shapes, Same, RequestFields
<1>6. \A t \in Stripes :
        /\ sh'[t].owner = IF t = s THEN None ELSE sh[t].owner
        /\ sh'[t].mark = sh[t].mark /\ sh'[t].held \subseteq sh[t].held
        /\ sh'[t].uptodate = IF t = s THEN sh[t].uptodate \union filled ELSE sh[t].uptodate
        /\ sh'[t].page = IF t = s THEN p ELSE sh[t].page
  BY <1>1, <1>2 DEF QuiesceInv, Shapes, FunctionOn, StripeFields
<1>7. \A t \in Stripes :
        sh'[t].page = IF t = s THEN [i \in Disks |-> IF i \in filled THEN page[i] ELSE sh[t].page[i]]
                               ELSE sh[t].page
  BY <1>3, <1>6
<1>8. /\ req'[r].answer = [d \in req[r].blk |-> page[d]]
      /\ Same(req[r], req'[r], {"stage", "answer"}) /\ req'[r].stage = "end"
  BY <1>3, <1>4, <1>5
<1> DEFINE P(f, g) ==
             /\ IF req[r].blk \subseteq Known(s) THEN f = req[r].blk ELSE f = FirstK(Known(s)) \union Data
             /\ g = [i \in Disks |-> IF i \in Data \ Known(s) THEN Contents(s)[i] ELSE Page(s)[i]]
             /\ req'[r].answer = [d \in req[r].blk |-> g[d]]
             /\ \A t \in Stripes :
                  /\ sh'[t].owner = IF t = s THEN None ELSE sh[t].owner
                  /\ sh'[t].mark = sh[t].mark /\ sh'[t].held \subseteq sh[t].held
                  /\ sh'[t].uptodate = IF t = s THEN sh[t].uptodate \union f ELSE sh[t].uptodate
                  /\ sh'[t].page = IF t = s THEN [i \in Disks |-> IF i \in f THEN g[i] ELSE sh[t].page[i]]
                                            ELSE sh[t].page
<1>9. P(filled, page)
  BY <1>3, <1>6, <1>7, <1>8
<1> HIDE DEF P
<1>10. \E f, g : P(f, g)
  BY <1>9
<1> QED
  BY <1>1, <1>2, <1>4, <1>8, <1>10 DEF s, P

LEMMA HandleReadLocks ==
  ASSUME NEW r \in Requests, QuiesceInv, LockInv, HandleRead(r)
  PROVE  LockInv'
<1>1. UNCHANGED <<disk, member, bad, onSb, pending, bucket, wlock, pass, dirty, wrote, budget>>
  BY DEF HandleRead, devices, history
<1>2. /\ Others(r) /\ Same(req[r], req'[r], {"stage", "answer"})
      /\ req[r].stage = "handle" /\ req[r].kind = "read" /\ req'[r].stage = "end"
      /\ req[r].at \in Stripes
      /\ \A s \in Stripes : /\ sh'[s].owner = IF s = req[r].at THEN None ELSE sh[s].owner
                            /\ sh'[s].mark = sh[s].mark /\ sh'[s].held \subseteq sh[s].held
                            /\ s # req[r].at => sh'[s].uptodate = sh[s].uptodate
  BY HandleReadDoes
<1>3. sh[req[r].at].owner = r /\ r \in sh[req[r].at].held
  BY <1>2, RequestParts DEF Counted, Holding, RequestOk, Owner, Hands
<1>4. \A s \in Stripes : /\ sh'[s].owner = sh[s].owner \/ sh[s].owner = r
                         /\ Clean(s) => Clean(s)'
  BY <1>2, <1>3 DEF Clean
<1>5. /\ req'[r].kind = req[r].kind /\ req'[r].blk = req[r].blk
      /\ req'[r].val = req[r].val /\ req'[r].gen0 = req[r].gen0 /\ req'[r].out = req[r].out
      /\ req'[r].failed = req[r].failed /\ req'[r].missing = req[r].missing
  BY <1>2, SameIs
<1>6. Form(req'[r])
  BY <1>2, <1>5, RequestParts DEF Form, RowStages, Prepared
<1>7. RequestOk(r)'
  BY <1>2, <1>6 DEF RequestOk, Owner, Bounced, Missed, Hands, Owning, Prepared
<1> QED
  BY <1>1, <1>2, <1>4, <1>5, <1>7, LockAlone, RequestParts

\* What a write by the stripe cache puts on the members, from a row of data or from the
\* parity that it knows; and what it then holds.
NewData(r) == [d \in Data |-> IF d \in req[r].blk THEN req[r].val ELSE Contents(req[r].at)[d]]
NewPage(r, rmw) ==
  [i \in Disks |->
     IF i \in Data THEN NewData(r)[i]
     ELSE IF rmw /\ i \in Known(req[r].at)
       THEN (Page(req[r].at)[i] + Encode(i, NewData(r)) - Encode(i, Contents(req[r].at))) % Q
     ELSE Encode(i, NewData(r))]
Filled(r, rmw) == IF rmw THEN req[r].blk \union Parity ELSE Disks
Targets(r) == {i \in req[r].blk \union Parity : Present(i) /\ <<req[r].at, i>> \notin bad}

LEMMA HandleWriteDoes ==
  ASSUME NEW r \in Requests, QuiesceInv, HandleWrite(r)
  PROVE  /\ Others(r) /\ Same(req[r], req'[r], {"stage", "out", "failed", "page"})
         /\ req[r].stage = "handle" /\ req[r].kind = "write" /\ req'[r].stage = "land"
         /\ req[r].at \in Stripes /\ req'[r].out = Targets(r) /\ req'[r].failed = {}
         /\ ~pending /\ ~TooManyGone(r)
         /\ CountIn /\ Begin({req[r].at}, req[r].blk, req[r].val)
         /\ \A q \in Requests \ {r} : req[q].kind = "read" /\ req[q].todo \subseteq {req[r].at} =>
              \A d \in req[r].blk \cap Data : req[r].val \in req'[q].may[d]
         /\ \E rmw \in BOOLEAN :
              /\ rmw => ~dirty /\ req[r].blk \union Parity \subseteq Known(req[r].at)
              /\ req'[r].page = NewPage(r, rmw)
              /\ \A s \in Stripes :
                   /\ sh'[s].owner = sh[s].owner /\ sh'[s].mark = sh[s].mark
                   /\ sh'[s].held = sh[s].held
                   /\ sh'[s].uptodate = IF s = req[r].at THEN sh[s].uptodate \union Filled(r, rmw)
                                                         ELSE sh[s].uptodate
                   /\ sh'[s].page = IF s = req[r].at
                        THEN [i \in Disks |-> IF i \in Filled(r, rmw) THEN req'[r].page[i]
                                                                      ELSE sh[s].page[i]]
                        ELSE sh[s].page
<1> DEFINE s == req[r].at
           o == Targets(r)
<1>1. PICK rmw \in BOOLEAN :
        /\ rmw => ~dirty /\ req[r].blk \union Parity \subseteq Known(s)
        /\ sh' = [sh EXCEPT ![s].uptodate = @ \union Filled(r, rmw),
                            ![s].page = [i \in Disks |-> IF i \in Filled(r, rmw) THEN NewPage(r, rmw)[i] ELSE @[i]]]
        /\ req' = [MayAlso({s}, req[r].blk, req[r].val) EXCEPT ![r] =
                     [req[r] EXCEPT !.stage = "land", !.out = o, !.failed = {}, !.page = NewPage(r, rmw)]]
  BY DEF HandleWrite, NewPage, NewData, Filled, Targets
<1> DEFINE f == Filled(r, rmw)
           g == NewPage(r, rmw)
           p == [i \in Disks |-> IF i \in f THEN g[i] ELSE sh[s].page[i]]
           x == [req[r] EXCEPT !.stage = "land", !.out = o, !.failed = {}, !.page = g]
<1>2. /\ req[r].stage = "handle" /\ req[r].kind = "write" /\ ~pending /\ ~TooManyGone(r)
      /\ CountIn /\ Begin({s}, req[r].blk, req[r].val)
  BY DEF HandleWrite
<1>3. s \in Stripes
  BY <1>2 DEF QuiesceInv, Counted, Holding
<1>4. sh' = [sh EXCEPT ![s].uptodate = @ \union f, ![s].page = p]
  BY <1>1
<1>5. req' = [MayAlso({s}, req[r].blk, req[r].val) EXCEPT ![r] = x]
  BY <1>1
<1>6. p = [i \in Disks |-> IF i \in f THEN g[i] ELSE sh[s].page[i]]
  OBVIOUS
<1>7. x = [req[r] EXCEPT !.stage = "land", !.out = o, !.failed = {}, !.page = g]
  OBVIOUS
<1> HIDE DEF x, p, f, g, o, s
<1>8. /\ Others(r) /\ req'[r] = x
      /\ \A q \in Requests \ {r} : req[q].kind = "read" /\ req[q].todo \subseteq {s} =>
           \A d \in req[r].blk \cap Data : req[r].val \in req'[q].may[d]
  <2> DEFINE S == {s}
             D == req[r].blk
             v == req[r].val
  <2>1. req' = [MayAlso(S, D, v) EXCEPT ![r] = x] /\ Shapes
    BY <1>5 DEF QuiesceInv
  <2> HIDE DEF S, D, v
  <2>2. /\ Others(r) /\ req'[r] = x
        /\ \A q \in Requests \ {r} : req[q].kind = "read" /\ req[q].todo \subseteq S =>
             \A d \in D \cap Data : v \in req'[q].may[d]
    BY <2>1, MayAlsoOthers
  <2> QED
    BY <2>2 DEF S, D, v
<1>9. /\ Same(req[r], req'[r], {"stage", "out", "failed", "page"})
      /\ req'[r].stage = "land" /\ req'[r].out = o /\ req'[r].failed = {} /\ req'[r].page = g
  BY <1>7, <1>8 DEF QuiesceInv, Shapes, Same, RequestFields
<1>10. \A t \in Stripes :
         /\ sh'[t].owner = sh[t].owner /\ sh'[t].mark = sh[t].mark /\ sh'[t].held = sh[t].held
         /\ sh'[t].uptodate = IF t = s THEN sh[t].uptodate \union f ELSE sh[t].uptodate
         /\ sh'[t].page = IF t = s THEN p ELSE sh[t].page
  BY <1>3, <1>4 DEF QuiesceInv, Shapes, FunctionOn, StripeFields
<1>11. \A t \in Stripes :
         sh'[t].page = IF t = s THEN [i \in Disks |-> IF i \in f THEN req'[r].page[i] ELSE sh[t].page[i]]
                                ELSE sh[t].page
  BY <1>6, <1>9, <1>10
<1>12. \E rmw1 \in BOOLEAN :
         /\ rmw1 => ~dirty /\ req[r].blk \union Parity \subseteq Known(req[r].at)
         /\ req'[r].page = NewPage(r, rmw1)
         /\ \A t \in Stripes :
              /\ sh'[t].owner = sh[t].owner /\ sh'[t].mark = sh[t].mark /\ sh'[t].held = sh[t].held
              /\ sh'[t].uptodate = IF t = req[r].at THEN sh[t].uptodate \union Filled(r, rmw1)
                                                    ELSE sh[t].uptodate
              /\ sh'[t].page = IF t = req[r].at
                   THEN [i \in Disks |-> IF i \in Filled(r, rmw1) THEN req'[r].page[i] ELSE sh[t].page[i]]
                   ELSE sh[t].page
  <2>1. /\ rmw => ~dirty /\ req[r].blk \union Parity \subseteq Known(req[r].at)
        /\ req'[r].page = NewPage(r, rmw)
        /\ \A t \in Stripes :
              /\ sh'[t].owner = sh[t].owner /\ sh'[t].mark = sh[t].mark /\ sh'[t].held = sh[t].held
              /\ sh'[t].uptodate = IF t = req[r].at THEN sh[t].uptodate \union Filled(r, rmw)
                                                    ELSE sh[t].uptodate
              /\ sh'[t].page = IF t = req[r].at
                   THEN [i \in Disks |-> IF i \in Filled(r, rmw) THEN req'[r].page[i] ELSE sh[t].page[i]]
                   ELSE sh[t].page
    BY <1>1, <1>9, <1>10, <1>11 DEF s, f, g
  <2> QED
    BY <2>1
<1>13. /\ req[r].at \in Stripes /\ req'[r].out = Targets(r)
       /\ Begin({req[r].at}, req[r].blk, req[r].val)
       /\ \A q \in Requests \ {r} : req[q].kind = "read" /\ req[q].todo \subseteq {req[r].at} =>
            \A d \in req[r].blk \cap Data : req[r].val \in req'[q].may[d]
  BY <1>2, <1>3, <1>8, <1>9 DEF s, o
<1> QED
  BY <1>2, <1>8, <1>9, <1>12, <1>13

LEMMA HandleWriteLocks ==
  ASSUME NEW r \in Requests, QuiesceInv, LockInv, HandleWrite(r)
  PROVE  LockInv'
<1>1. UNCHANGED <<disk, member, bad, onSb, pending, wlock, pass, dirty, wrote, budget>>
  BY DEF HandleWrite, devices
<1>2. /\ Others(r) /\ Same(req[r], req'[r], {"stage", "out", "failed", "page"})
      /\ req[r].stage = "handle" /\ req'[r].stage = "land" /\ req[r].at \in Stripes
      /\ req'[r].out = Targets(r) /\ req'[r].failed = {} /\ CountIn
      /\ \A s \in Stripes : /\ sh'[s].owner = sh[s].owner /\ sh'[s].mark = sh[s].mark
                            /\ sh'[s].held = sh[s].held
                            /\ s # req[r].at => sh'[s].uptodate = sh[s].uptodate
  BY HandleWriteDoes
<1>3. sh[req[r].at].owner = r /\ r \in sh[req[r].at].held
  BY <1>2, RequestParts DEF Counted, Holding, RequestOk, Owner, Hands
<1>4. \A s \in Stripes : Clean(s) => Clean(s)'
  BY <1>2, <1>3 DEF Clean
<1>5. /\ req'[r].kind = req[r].kind /\ req'[r].blk = req[r].blk /\ req'[r].at = req[r].at
      /\ req'[r].val = req[r].val /\ req'[r].gen0 = req[r].gen0 /\ req'[r].todo = req[r].todo
      /\ req'[r].missing = req[r].missing /\ req'[r].answer = req[r].answer
  BY <1>2, SameIs
<1>6. Form(req'[r])
  <2>1. req'[r].out \subseteq Disks
    BY <1>2, RequestParts, RowAssumption DEF Form, Targets, Disks, Data, Parity
  <2> QED
    BY <1>2, <1>5, <2>1, RequestParts DEF Form, RowStages, Prepared
<1>7. \A q \in Requests : req[q].stage \in Hands /\ q # r => req[q].at # req[r].at
  BY <1>3, RequestParts DEF RequestOk, Owner
<1>8. RequestOk(r)'
  <2>1. sh'[req[r].at].owner = r
    BY <1>2, <1>3
  <2>2. Bounced(r)'
    BY <1>1, <1>2, <1>5, RequestParts DEF RequestOk, Bounced, Hands
  <2> QED
    BY <1>2, <1>5, <1>6, <2>1, <2>2 DEF RequestOk, Owner, Missed, Owning, Prepared
<1>9. bucket'.gen \in Nat
  BY <1>2, CountInIs
<1> QED
  BY <1>1, <1>2, <1>4, <1>5, <1>8, <1>9, LockAlone, RequestParts

LEMMA LandDoes ==
  ASSUME NEW r \in Requests, NEW i \in Disks, QuiesceInv, Land(r, i)
  PROVE  /\ Others(r) /\ Same(req[r], req'[r], {"out", "failed", "stage"}) /\ req[r].stage = "land"
         /\ i \in req[r].out /\ req'[r].out = req[r].out \ {i} /\ req[r].at \in Stripes
         /\ req'[r].stage = IF req'[r].out = {} THEN "note" ELSE "land"
         /\ \/ /\ req'[r].failed = req[r].failed /\ budget' = budget
               /\ disk' = [disk EXCEPT ![req[r].at][i] = req[r].page[i]]
            \/ /\ req'[r].failed = req[r].failed \cup {i} /\ disk' = disk
               /\ budget.wfaults > 0 /\ budget' = [budget EXCEPT !.wfaults = @ - 1]
         /\ bucket' = IF req'[r].out = {} THEN [bucket EXCEPT !.inflight = @ - 1] ELSE bucket
<1>1. /\ FunctionOn(req', Requests) /\ \A q \in Requests \ {r} : req'[q] = req[q]
      /\ req[r].stage = "land" /\ i \in req[r].out
  BY DEF Land, QuiesceInv, Shapes, FunctionOn
<1>2. req[r].at \in Stripes
  BY <1>1 DEF QuiesceInv, Counted, Holding
<1> DEFINE o == req[r].out \ {i}
           f == req[r].failed \cup {i}
           g == IF o = {} THEN "note" ELSE "land"
<1>3. \/ /\ req' = [req EXCEPT ![r].out = o, ![r].stage = g] /\ budget' = budget
         /\ disk' = [disk EXCEPT ![req[r].at][i] = req[r].page[i]]
      \/ /\ req' = [req EXCEPT ![r].out = o, ![r].failed = f, ![r].stage = g] /\ disk' = disk
         /\ budget.wfaults > 0 /\ budget' = [budget EXCEPT !.wfaults = @ - 1]
  BY DEF Land
<1>4. bucket' = IF o = {} THEN [bucket EXCEPT !.inflight = @ - 1] ELSE bucket
  BY DEF Land
<1>5. g = IF o = {} THEN "note" ELSE "land"
  OBVIOUS
<1> HIDE DEF o, f, g
<1>6. CASE /\ req' = [req EXCEPT ![r].out = o, ![r].stage = g] /\ budget' = budget
           /\ disk' = [disk EXCEPT ![req[r].at][i] = req[r].page[i]]
  <2>1. /\ Same(req[r], req'[r], {"out", "failed", "stage"}) /\ req'[r].out = o
        /\ req'[r].failed = req[r].failed /\ req'[r].stage = g
    BY <1>6 DEF QuiesceInv, Shapes, FunctionOn, Same, RequestFields
  <2> QED
    BY <1>1, <1>2, <1>4, <1>5, <1>6, <2>1, OnlyOne DEF o, QuiesceInv
<1>7. CASE /\ req' = [req EXCEPT ![r].out = o, ![r].failed = f, ![r].stage = g] /\ disk' = disk
           /\ budget.wfaults > 0 /\ budget' = [budget EXCEPT !.wfaults = @ - 1]
  <2>1. /\ Same(req[r], req'[r], {"out", "failed", "stage"}) /\ req'[r].out = o
        /\ req'[r].failed = f /\ req'[r].stage = g
    BY <1>7 DEF QuiesceInv, Shapes, FunctionOn, Same, RequestFields
  <2> QED
    BY <1>1, <1>2, <1>4, <1>5, <1>7, <2>1, OnlyOne DEF o, f, QuiesceInv
<1> QED
  BY <1>3, <1>6, <1>7

LEMMA LandLocks ==
  ASSUME NEW r \in Requests, NEW i \in Disks, QuiesceInv, LockInv, Land(r, i)
  PROVE  LockInv'
<1>1. UNCHANGED <<member, bad, onSb, pending, sh, wlock, pass, dirty, wrote>>
  BY DEF Land, history
<1>2. /\ Others(r) /\ Same(req[r], req'[r], {"out", "failed", "stage"}) /\ req[r].stage = "land"
      /\ i \in req[r].out /\ req'[r].out = req[r].out \ {i} /\ req[r].at \in Stripes
      /\ req'[r].stage = IF req'[r].out = {} THEN "note" ELSE "land"
      /\ req'[r].failed \in {req[r].failed, req[r].failed \cup {i}}
      /\ disk' = disk \/ disk' = [disk EXCEPT ![req[r].at][i] = req[r].page[i]]
      /\ \/ budget' = budget
         \/ budget.wfaults > 0 /\ budget' = [budget EXCEPT !.wfaults = @ - 1]
      /\ bucket' = IF req'[r].out = {} THEN [bucket EXCEPT !.inflight = @ - 1] ELSE bucket
  BY LandDoes
<1>3. budget' = budget \/ \E n \in Nat : budget' = [budget EXCEPT !.wfaults = n]
  BY <1>2, LessFaults
<1>4. /\ req'[r].kind = req[r].kind /\ req'[r].blk = req[r].blk /\ req'[r].at = req[r].at
      /\ req'[r].val = req[r].val /\ req'[r].gen0 = req[r].gen0 /\ req'[r].todo = req[r].todo
      /\ req'[r].missing = req[r].missing /\ req'[r].answer = req[r].answer
  BY <1>2, SameIs
<1>5. Form(req'[r])
  BY <1>2, <1>4, RequestParts DEF Form, RowStages, Prepared
<1>6. RequestOk(r)'
  BY <1>1, <1>2, <1>4, <1>5, RequestParts DEF RequestOk, Owner, Bounced, Missed, Hands, Owning, Prepared
<1>7. DOMAIN disk' = Stripes /\ \A s \in Stripes : DOMAIN disk'[s] = Disks
  BY <1>2 DEF LockInv, Shaped
<1>8. bucket'.gen \in Nat
  BY <1>2 DEF LockInv, Shaped, QuiesceInv, Shapes
<1> QED
  BY <1>1, <1>2, <1>3, <1>4, <1>6, <1>7, <1>8, LockWrites

\* A request that arrives has done nothing yet.
Fresh(x) ==
  /\ DOMAIN x = RequestFields /\ x.out = {} /\ x.failed = {} /\ x.missing = {} /\ x.gen0 = 0
  /\ x.answer = <<>> /\ x.blk \subseteq Data

LEMMA SubmitDoes ==
  ASSUME NEW r \in Requests, Shapes, Submit(r)
  PROVE  /\ Others(r) /\ \A q \in Requests \ {r} : req'[q] = req[q]
         /\ req[r].stage = "idle" /\ Fresh(req'[r])
         /\ UNCHANGED <<disk, member, bad, onSb, pending, sh, bucket, wlock, pass, dirty, cands, doubt>>
         /\ \/ /\ req'[r].kind = "write" /\ req'[r].val = Value /\ wrote' = Value
               /\ \/ req'[r].stage = "get"
                  \/ req'[r].stage = "prep" /\ req'[r].todo = Stripes /\ req'[r].blk = Data
               /\ \/ budget.write > 0 /\ budget' = [budget EXCEPT !.write = @ - 1]
                  \/ /\ budget.rowwrite > 0
                     /\ budget' = IF budget.forever THEN budget
                                  ELSE [budget EXCEPT !.rowwrite = @ - 1]
            \/ /\ req'[r].kind = "read" /\ req'[r].stage = "pick" /\ req'[r].val = 0 /\ wrote' = wrote
               /\ \E s \in Stripes : req'[r].todo = {s} /\ req'[r].may = cands[s]
               /\ req'[r].got = <<>>
               /\ budget.read > 0 /\ budget' = [budget EXCEPT !.read = @ - 1]
<1>1. /\ UNCHANGED <<disk, member, bad, onSb, pending, sh, bucket, wlock, pass, dirty, cands, doubt>>
      /\ req[r].stage = "idle"
  BY DEF Submit, devices, locks
<1>2. CASE \E s \in Stripes, d \in Data :
             /\ budget.write > 0
             /\ budget' = [budget EXCEPT !.write = @ - 1]
             /\ req' = [req EXCEPT ![r] = [NoRequest EXCEPT !.kind = "write", !.stage = "get",
                                             !.todo = {s}, !.blk = {d}, !.val = Value]]
             /\ wrote' = Value
  <2>1. PICK s \in Stripes, d \in Data :
             /\ budget.write > 0
             /\ budget' = [budget EXCEPT !.write = @ - 1]
             /\ req' = [req EXCEPT ![r] = [NoRequest EXCEPT !.kind = "write", !.stage = "get",
                                             !.todo = {s}, !.blk = {d}, !.val = Value]]
             /\ wrote' = Value
    BY <1>2
  <2> DEFINE x == [NoRequest EXCEPT !.kind = "write", !.stage = "get", !.todo = {s}, !.blk = {d},
                                    !.val = Value]
  <2>2. Fresh(x) /\ x.kind = "write" /\ x.val = Value /\ x.stage = "get"
    BY NoRequestIs DEF Fresh, RequestFields
  <2> HIDE DEF x
  <2>3. req' = [req EXCEPT ![r] = x]
    BY <2>1 DEF x
  <2>4. FunctionOn(req', Requests) /\ req'[r] = x /\ \A q \in Requests \ {r} : req'[q] = req[q]
    BY <2>3 DEF Shapes, FunctionOn
  <2> QED
    BY <1>1, <2>1, <2>2, <2>4, OnlyOne
<1>3. CASE /\ budget.rowwrite > 0
           /\ budget' = IF budget.forever THEN budget ELSE [budget EXCEPT !.rowwrite = @ - 1]
           /\ req' = [req EXCEPT ![r] = [NoRequest EXCEPT !.kind = "write", !.stage = "prep",
                                           !.todo = Stripes, !.blk = Data, !.val = Value]]
           /\ wrote' = Value
  <2> DEFINE x == [NoRequest EXCEPT !.kind = "write", !.stage = "prep",
                                    !.todo = Stripes, !.blk = Data, !.val = Value]
  <2>2. /\ Fresh(x) /\ x.kind = "write" /\ x.val = Value /\ x.stage = "prep"
        /\ x.todo = Stripes /\ x.blk = Data
    BY NoRequestIs DEF Fresh, RequestFields
  <2> HIDE DEF x
  <2>3. req' = [req EXCEPT ![r] = x]
    BY <1>3 DEF x
  <2>4. FunctionOn(req', Requests) /\ req'[r] = x /\ \A q \in Requests \ {r} : req'[q] = req[q]
    BY <2>3 DEF Shapes, FunctionOn
  <2> QED
    BY <1>1, <1>3, <2>2, <2>4, OnlyOne
<1>4. CASE \E s \in Stripes, D \in {{d} : d \in Data} \union {Data} :
             /\ budget.read > 0
             /\ budget' = [budget EXCEPT !.read = @ - 1]
             /\ req' = [req EXCEPT ![r] = [NoRequest EXCEPT !.kind = "read", !.stage = "pick",
                                             !.todo = {s}, !.blk = D, !.may = cands[s]]]
             /\ UNCHANGED wrote
  <2>1. PICK s \in Stripes, D \in SUBSET Data :
             /\ budget.read > 0
             /\ budget' = [budget EXCEPT !.read = @ - 1]
             /\ req' = [req EXCEPT ![r] = [NoRequest EXCEPT !.kind = "read", !.stage = "pick",
                                             !.todo = {s}, !.blk = D, !.may = cands[s]]]
             /\ UNCHANGED wrote
    <3>1. \A D \in {{d} : d \in Data} \union {Data} : D \in SUBSET Data
      OBVIOUS
    <3> QED
      BY <1>4, <3>1
  <2> DEFINE m == cands[s]
             x == [NoRequest EXCEPT !.kind = "read", !.stage = "pick", !.todo = {s}, !.blk = D,
                                    !.may = m]
  <2> HIDE DEF m
  <2>2. /\ Fresh(x) /\ x.kind = "read" /\ x.val = 0 /\ x.stage = "pick" /\ x.todo = {s}
        /\ x.may = m /\ x.got = <<>>
    BY NoRequestIs DEF Fresh, RequestFields, NoRequest
  <2> HIDE DEF x
  <2>3. req' = [req EXCEPT ![r] = x]
    BY <2>1 DEF x, m
  <2>4. FunctionOn(req', Requests) /\ req'[r] = x /\ \A q \in Requests \ {r} : req'[q] = req[q]
    BY <2>3 DEF Shapes, FunctionOn
  <2> QED
    BY <1>1, <2>1, <2>2, <2>4, OnlyOne DEF m
<1> QED
  BY <1>2, <1>3, <1>4 DEF Submit

LEMMA SubmitLocks ==
  ASSUME NEW r \in Requests, QuiesceInv, LockInv, Submit(r)
  PROVE  LockInv'
<1>1. /\ Others(r) /\ \A q \in Requests \ {r} : req'[q] = req[q]
      /\ req[r].stage = "idle" /\ Fresh(req'[r])
      /\ UNCHANGED <<disk, member, bad, onSb, pending, sh, bucket, wlock, pass, dirty, cands, doubt>>
      /\ \/ /\ req'[r].kind = "write" /\ req'[r].val = Value /\ wrote' = Value
            /\ \/ req'[r].stage = "get"
               \/ req'[r].stage = "prep" /\ req'[r].todo = Stripes /\ req'[r].blk = Data
            /\ \/ budget.write > 0 /\ budget' = [budget EXCEPT !.write = @ - 1]
               \/ /\ budget.rowwrite > 0
                  /\ budget' = IF budget.forever THEN budget
                               ELSE [budget EXCEPT !.rowwrite = @ - 1]
         \/ /\ req'[r].kind = "read" /\ req'[r].stage = "pick" /\ req'[r].val = 0 /\ wrote' = wrote
            /\ budget.read > 0 /\ budget' = [budget EXCEPT !.read = @ - 1]
  BY SubmitDoes, RequestParts
<1>2. Shaped /\ Bounded /\ PassForm /\ Marks /\ Recording
  BY DEF LockInv
<1>3. Shaped' /\ PassForm' /\ Marks' /\ Recording'
  BY <1>1, <1>2 DEF Shaped, PassForm, Marks, Recording, Recorded, Usable
<1>4. /\ budget \in BudgetBounds /\ budget.write \in Nat /\ budget.rowwrite \in Nat
      /\ budget.read \in Nat /\ wrote \in Nat /\ Q \in Nat /\ budget.forever \in BOOLEAN
  BY <1>2, RowAssumption DEF Bounded, BudgetBounds
<1>5. Bounded' /\ req'[r].val \in Block
  <2>1. CASE req'[r].kind = "read"
    <3>1. /\ budget' \in BudgetBounds /\ budget'.forever = budget.forever
          /\ budget'.write = budget.write /\ budget'.rowwrite = budget.rowwrite
          /\ budget'.start = budget.start /\ budget'.pass = budget.pass
      BY <1>1, <1>4, <2>1 DEF BudgetBounds
    <3>2. ~budget.forever
      BY <1>1, <1>2, <1>4, <2>1 DEF Bounded
    <3>3. 0 \in Block
      BY RowAssumption DEF Block
    <3> QED
      BY <1>1, <1>2, <2>1, <3>1, <3>2, <3>3 DEF Bounded
  <2>2. CASE req'[r].kind = "write"
    <3>1. /\ budget' \in BudgetBounds /\ budget'.forever = budget.forever
          /\ budget'.read = budget.read
          /\ budget'.start = budget.start /\ budget'.pass = budget.pass
          /\ ~budget.forever => budget'.write + budget'.rowwrite + 1 = budget.write + budget.rowwrite
      <4>1. CASE budget' = budget /\ budget.forever
        BY <1>4, <4>1
      <4>2. CASE budget.write > 0 /\ budget' = [budget EXCEPT !.write = @ - 1]
        BY <1>4, <4>2 DEF BudgetBounds
      <4>3. CASE budget.rowwrite > 0 /\ budget' = [budget EXCEPT !.rowwrite = @ - 1]
        BY <1>4, <4>3 DEF BudgetBounds
      <4> QED
        BY <1>1, <1>4, <2>2, <4>1, <4>2, <4>3
    <3>2. wrote' = (IF budget.forever THEN 1 ELSE wrote + 1) /\ req'[r].val = wrote'
      BY <1>1, <2>2 DEF Value
    <3>3. /\ budget.forever => 1 < Q /\ budget.read = 0 /\ \A q \in Requests : req[q].kind # "read"
          /\ ~budget.forever => wrote + budget.write + budget.rowwrite < Q
      BY <1>2, <1>4 DEF Bounded
    <3>4. /\ budget'.write \in Nat /\ budget'.rowwrite \in Nat
      BY <3>1 DEF BudgetBounds
    <3>5. wrote' \in Nat /\ wrote' < Q /\ (~budget.forever => wrote' + budget'.write + budget'.rowwrite < Q)
      <4>1. CASE budget.forever
        BY <1>4, <3>2, <3>3, <4>1
      <4>2. CASE ~budget.forever
        BY <1>4, <3>1, <3>2, <3>3, <3>4, <4>2
      <4> QED
        BY <4>1, <4>2
    <3>6. req'[r].val \in Block
      BY <1>4, <3>2, <3>5 DEF Block
    <3>7. budget.forever => \A q \in Requests : req'[q].kind # "read"
      BY <1>1, <2>2, <3>3
    <3> QED
      BY <1>1, <1>2, <3>1, <3>3, <3>5, <3>6, <3>7 DEF Bounded
  <2> QED
    BY <1>1, <2>1, <2>2
<1>6. Form(req'[r])
  <2>1. /\ req'[r].out = {} /\ req'[r].failed = {} /\ req'[r].missing = {} /\ req'[r].gen0 = 0
        /\ req'[r].answer = <<>> /\ req'[r].blk \subseteq Data
    BY <1>1 DEF Fresh
  <2> QED
    BY <1>1, <1>5, <2>1 DEF Form, RowStages, Prepared
<1>7. RequestOk(r)'
  BY <1>1, <1>6 DEF RequestOk, Owner, Bounced, Missed, Hands, Owning, Prepared
<1>8. \A q \in Requests \ {r} : req[q].stage \in Hands => req[q].at \in Stripes
  BY DEF QuiesceInv, Counted, Holding, Hands
<1>9. \A s \in Stripes : Clean(s) => Clean(s)'
  BY <1>1 DEF Clean
<1> QED
  BY <1>1, <1>3, <1>5, <1>7, <1>8, <1>9, LockStep

-----------------------------------------------------------------------------
(* The pass. *)

LEMMA PassReleaseDoes ==
  ASSUME Shapes, Release
  PROVE  /\ Others(Sync)
         /\ \A s \in Stripes : /\ sh'[s].owner = sh[s].owner /\ sh'[s].held \subseteq sh[s].held
                               /\ sh'[s].mark = sh[s].mark \/ sh'[s].mark = "none"
                               /\ sh'[s].uptodate = sh[s].uptodate /\ sh'[s].page = sh[s].page
                               /\ Clean(s) => Clean(s)'
<1>1. FunctionOn(req', Requests)
  BY DEF Release, FunctionOn
<1>2. ASSUME NEW q \in Requests PROVE Twin(req[q], req'[q])
  <2>1. req'[q] = req[q] \/ req'[q] = [req[q] EXCEPT !.wait = "no"]
    BY DEF Release
  <2>2. DOMAIN req[q] = RequestFields
    BY DEF Shapes
  <2> QED
    BY <2>1, <2>2 DEF Twin, Same, RequestFields
<1>3. ASSUME NEW s \in Stripes
      PROVE  /\ sh'[s].owner = sh[s].owner /\ sh'[s].held \subseteq sh[s].held
             /\ sh'[s].mark = sh[s].mark \/ sh'[s].mark = "none"
             /\ sh'[s].uptodate = sh[s].uptodate /\ sh'[s].page = sh[s].page
  <2>1. sh'[s] = sh[s] \/ sh'[s] = [sh[s] EXCEPT !.held = @ \ {Sync}, !.mark = "none"]
    BY DEF Release
  <2> QED
    BY <2>1 DEF Shapes, StripeFields
<1>4. \A s \in Stripes : Clean(s) => Clean(s)'
  BY <1>3 DEF Clean
<1> QED
  BY <1>1, <1>2, <1>3, <1>4 DEF Others

LEMMA NobodyElse ==
  ASSUME Shapes, req' = req
  PROVE  Others(Sync)
BY DEF Others, Twin, Same, Shapes

\* A step of the pass takes no stripe from anybody.
LEMMA PassLocks ==
  ASSUME QuiesceInv, LockInv, Others(Sync),
         UNCHANGED <<bad, onSb, pending, wlock, bucket, wrote, dirty, budget>>,
         DOMAIN disk' = Stripes, \A s \in Stripes : DOMAIN disk'[s] = Disks,
         DOMAIN member' = Disks,
         \A i \in Disks : member'[i] = member[i] \/ (member[i] = "rebuilding" /\ member'[i] = "ahead"),
         \A s \in Stripes : sh'[s].owner = sh[s].owner,
         wlock.by \in Requests => \A s \in Stripes : Clean(s) => Clean(s)',
         pass'.kind = pass.kind, PassForm', Marks',
         \A s \in pass'.claimed : s \in pass.claimed \/ sh[s].owner = None
  PROVE  LockInv'
<1>1. Shaped /\ Bounded /\ Recording
  BY DEF LockInv
<1>2. Shaped'
  BY <1>1 DEF Shaped
<1>3. Bounded'
  <2>1. \A q \in Requests : req[q].kind # "read" => req'[q].kind # "read"
    BY TwinIs, RowAssumption DEF Others
  <2> QED
    BY <1>1, <2>1 DEF Bounded
<1>4. Recording'
  BY <1>1 DEF Recording, Recorded, Usable
<1>5. \A q \in Requests \ {Sync} : req[q].stage \in Hands => req[q].at \in Stripes
  BY DEF QuiesceInv, Counted, Holding, Hands
<1> DEFINE r == Sync
<1>6. r \notin Requests
  BY RowAssumption
<1>7. \A i \in Disks : member[i] = "faulty" => member'[i] = "faulty"
  OBVIOUS
<1> HIDE DEF r
<1>8. /\ Others(r) /\ \A q \in Requests \ {r} : req[q].stage \in Hands => req[q].at \in Stripes
      /\ wlock.by \in Requests \ {r} => \A s \in Stripes : Clean(s) => Clean(s)'
  BY <1>5 DEF r
<1> QED
  BY <1>2, <1>3, <1>4, <1>6, <1>7, <1>8, LockStep

LEMMA PassFenceDoes ==
  ASSUME Shapes, PassFence
  PROVE  /\ UNCHANGED <<devices, sh, locks, quiesce, req, dirty, history, budget>>
         /\ pass.stage = "fence" /\ pass'.stage = "pick" /\ SamePass({"stage"})
BY DEF PassFence, Shapes, SamePass, PassFields

LEMMA PassPickDoes ==
  ASSUME Shapes, PassPick
  PROVE  /\ UNCHANGED <<devices, sh, locks, quiesce, req, dirty, history, budget>>
         /\ pass.stage = "pick"
         /\ \/ pass'.stage = "end" /\ ~pass.ok /\ SamePass({"stage"})
            \/ pass'.stage = "stripes" /\ SamePass({"stage"})
            \/ /\ pass'.stage = "claim" /\ SamePass({"stage", "members", "got"})
               /\ pass'.members = Sources /\ pass'.got = <<>>
               /\ Cardinality(Sources) = (IF pass.kind = "repair" THEN K + M ELSE K)
<1> DEFINE m == Sources
<1>1. /\ pass.stage = "pick"
      /\ \/ pass' = [pass EXCEPT !.stage = "end"] /\ ~pass.ok
         \/ pass' = [pass EXCEPT !.stage = "stripes"]
         \/ /\ pass' = [pass EXCEPT !.stage = "claim", !.members = m, !.got = <<>>]
            /\ Cardinality(m) = (IF pass.kind = "repair" THEN K + M ELSE K)
  BY DEF PassPick
<1>2. UNCHANGED <<devices, sh, locks, quiesce, req, dirty, history, budget>>
  BY DEF PassPick
<1> HIDE DEF m
<1>3. ASSUME pass' = [pass EXCEPT !.stage = "claim", !.members = m, !.got = <<>>]
      PROVE  /\ pass'.stage = "claim" /\ SamePass({"stage", "members", "got"})
             /\ pass'.members = m /\ pass'.got = <<>>
  BY <1>3 DEF Shapes, SamePass, PassFields
<1>4. ASSUME NEW g, pass' = [pass EXCEPT !.stage = g]
      PROVE  pass'.stage = g /\ SamePass({"stage"})
  BY <1>4 DEF Shapes, SamePass, PassFields
<1> QED
  BY <1>1, <1>2, <1>3, <1>4 DEF m

\* The pass gives its stripes back.
GivesBack(stage) ==
  /\ Release /\ SamePass({"stage", "claimed", "tries"})
  /\ pass'.stage = stage /\ pass'.claimed = {}

LEMMA PassClaimDoes ==
  ASSUME QuiesceInv, PassClaim
  PROVE  /\ UNCHANGED <<devices, locks, quiesce, dirty, history, budget>> /\ pass.stage = "claim"
         /\ \/ GivesBack("pick")
            \/ /\ ~Locked /\ req' = req /\ SamePass({"stage", "claimed"})
               /\ \E s \in Stripes \ pass.claimed :
                    /\ sh[s].owner = None /\ sh[s].mark = "none"
                    /\ sh'[s].mark = IF pass.kind = "repair" THEN "all" ELSE "writes"
                    /\ \A t \in Stripes \ {s} : sh'[t].mark = sh[t].mark
                    /\ \A t \in Stripes : /\ sh'[t].owner = sh[t].owner
                                          /\ sh[t].held \subseteq sh'[t].held
                                          /\ sh'[t].uptodate = sh[t].uptodate
                                          /\ sh'[t].page = sh[t].page
                    /\ pass'.claimed = pass.claimed \cup {s}
               /\ pass'.stage = IF pass'.claimed # Stripes THEN "claim"
                                ELSE IF pass.kind = "repair" THEN "recheck" ELSE "read"
<1> DEFINE s == FirstOf(Stripes \ pass.claimed)
           c == pass.claimed \union {s}
           m == IF pass.kind = "repair" THEN "all" ELSE "writes"
           g == IF c # Stripes THEN "claim" ELSE IF pass.kind = "repair" THEN "recheck" ELSE "read"
<1>1. UNCHANGED <<devices, locks, quiesce, dirty, history, budget>> /\ pass.stage = "claim"
  BY DEF PassClaim
<1>2. s \in Stripes \ pass.claimed
  <2>1. Stripes \ pass.claimed # {}
    BY <1>1 DEF QuiesceInv, PassHolds
  <2> QED
    BY <2>1, FirstExists
<1>3. CASE Locked \/ sh[s].owner # None \/ sh[s].mark # "none"
  <2>1. /\ Release
        /\ pass' = [pass EXCEPT !.stage = "pick", !.claimed = {}, !.tries = @ + 1]
    BY <1>3 DEF PassClaim
  <2>2. GivesBack("pick")
    BY <2>1 DEF GivesBack, QuiesceInv, Shapes, SamePass, PassFields
  <2> QED
    BY <1>1, <2>2
<1>4. CASE ~(Locked \/ sh[s].owner # None \/ sh[s].mark # "none")
  <2>1. /\ sh' = [sh EXCEPT ![s].held = @ \union {Sync}, ![s].mark = m]
        /\ pass' = [pass EXCEPT !.claimed = c, !.stage = g]
        /\ req' = req
    BY <1>4 DEF PassClaim
  <2> HIDE DEF s, c, g, m
  <2>2. SamePass({"stage", "claimed"}) /\ pass'.claimed = c /\ pass'.stage = g
    BY <2>1 DEF QuiesceInv, Shapes, SamePass, PassFields
  <2>3. /\ sh'[s].mark = m /\ \A t \in Stripes \ {s} : sh'[t].mark = sh[t].mark
        /\ \A t \in Stripes : /\ sh'[t].owner = sh[t].owner /\ sh[t].held \subseteq sh'[t].held
                              /\ sh'[t].uptodate = sh[t].uptodate /\ sh'[t].page = sh[t].page
    BY <1>2, <2>1 DEF QuiesceInv, Shapes, FunctionOn, StripeFields
  <2> QED
    BY <1>1, <1>2, <1>4, <2>1, <2>2, <2>3 DEF c, g, m
<1> QED
  BY <1>3, <1>4

LEMMA PassRecheckDoes ==
  ASSUME Shapes, PassRecheck
  PROVE  /\ UNCHANGED <<devices, locks, quiesce, dirty, history, budget>> /\ pass.stage = "recheck"
         /\ \/ pass'.stage = "read" /\ SamePass({"stage"}) /\ sh' = sh /\ req' = req
            \/ GivesBack("pick")
<1>1. UNCHANGED <<devices, locks, quiesce, dirty, history, budget>> /\ pass.stage = "recheck"
  BY DEF PassRecheck
<1>2. CASE quiesce = "off"
  BY <1>1, <1>2 DEF PassRecheck, Shapes, SamePass, PassFields
<1>3. CASE quiesce # "off"
  <2>1. Release /\ pass' = [pass EXCEPT !.stage = "pick", !.claimed = {}, !.tries = @ + 1]
    BY <1>3 DEF PassRecheck
  <2>2. GivesBack("pick")
    BY <2>1 DEF GivesBack, Shapes, SamePass, PassFields
  <2> QED
    BY <1>1, <2>2
<1> QED
  BY <1>2, <1>3

LEMMA PassReadDoes ==
  ASSUME Shapes, NEW i \in Disks, PassRead(i)
  PROVE  /\ UNCHANGED <<devices, sh, locks, quiesce, req, dirty, history, budget>>
         /\ pass.stage = "read" /\ i \in pass.members \ DOMAIN pass.got /\ SamePass({"got"})
         /\ pass'.got = Adding(pass.got, i, [s \in Stripes |-> disk[s][i]])
<1> DEFINE g == Adding(pass.got, i, [s \in Stripes |-> disk[s][i]])
<1>1. /\ UNCHANGED <<devices, sh, locks, quiesce, req, dirty, history, budget>>
      /\ pass.stage = "read" /\ i \in pass.members \ DOMAIN pass.got
      /\ pass' = [pass EXCEPT !.got = g]
  BY DEF PassRead
<1> HIDE DEF g
<1>2. SamePass({"got"}) /\ pass'.got = g
  BY <1>1 DEF Shapes, SamePass, PassFields
<1> QED
  BY <1>1, <1>2 DEF g

LEMMA PassWriteDoes ==
  ASSUME Shapes, NEW i \in Disks, PassWrite(i)
  PROVE  /\ UNCHANGED <<member, bad, pending, onSb, sh, locks, quiesce, req, dirty, history, budget>>
         /\ pass.stage = "write" /\ i \in pass.out /\ SamePass({"out"})
         /\ pass'.out = pass.out \ {i}
         /\ disk' = [s \in Stripes |-> [disk[s] EXCEPT ![i] = pass.got[s][i]]]
BY DEF PassWrite, Shapes, SamePass, PassFields

\* What a pass over the row decodes or compares, and what it writes.
PassData == [s \in Stripes |-> IF pass.kind = "repair" THEN [d \in Data |-> Column(s)[d]]
                               ELSE Solve(Column(s), pass.members)]
PassOut == IF pass.kind = "repair"
             THEN {p \in Parity : \E s \in Stripes : Column(s)[p] # Codeword(PassData[s])[p]}
             ELSE {pass.target}

LEMMA PassComputeDoes ==
  ASSUME Shapes, PassCompute
  PROVE  /\ UNCHANGED <<devices, locks, quiesce, req, dirty, history, budget>>
         /\ pass.stage = "read" /\ DOMAIN pass.got = pass.members
         /\ SamePass({"stage", "got", "out"}) /\ pass'.stage = "write"
         /\ pass'.got = [s \in Stripes |-> Codeword(PassData[s])] /\ pass'.out = PassOut
         /\ \A s \in Stripes :
              /\ sh'[s].owner = sh[s].owner /\ sh'[s].held = sh[s].held /\ sh'[s].mark = sh[s].mark
              /\ sh'[s].page = sh[s].page
              /\ sh'[s].uptodate = IF pass.kind = "repair" THEN sh[s].uptodate \ PassOut
                                                           ELSE sh[s].uptodate
<1>1. /\ UNCHANGED <<devices, locks, quiesce, req, dirty, history, budget>>
      /\ pass.stage = "read" /\ DOMAIN pass.got = pass.members
  BY DEF PassCompute
<1> DEFINE image == [s \in Stripes |-> Codeword(PassData[s])]
<1>2. /\ pass' = [pass EXCEPT !.stage = "write", !.got = image, !.out = PassOut]
      /\ sh' = IF pass.kind = "repair"
                 THEN [s \in Stripes |-> [sh[s] EXCEPT !.uptodate = @ \ PassOut]] ELSE sh
  <2> DEFINE a == [s \in Stripes |-> Codeword(PassData[s])]
             o == IF pass.kind = "repair"
                  THEN {p \in Parity : \E s \in Stripes : Column(s)[p] # a[s][p]} ELSE {pass.target}
  <2>1. /\ pass' = [pass EXCEPT !.stage = "write", !.got = a, !.out = o]
        /\ sh' = IF pass.kind = "repair"
                   THEN [s \in Stripes |-> [sh[s] EXCEPT !.uptodate = @ \ o]] ELSE sh
    BY DEF PassCompute, PassData
  <2>2. o = PassOut
    BY DEF PassOut
  <2> QED
    BY <2>1, <2>2
<1> HIDE DEF image
<1>3. /\ SamePass({"stage", "got", "out"}) /\ pass'.stage = "write"
      /\ pass'.got = image /\ pass'.out = PassOut
  BY <1>2 DEF Shapes, SamePass, PassFields
<1>4. \A s \in Stripes :
        /\ sh'[s].owner = sh[s].owner /\ sh'[s].held = sh[s].held /\ sh'[s].mark = sh[s].mark
        /\ sh'[s].page = sh[s].page
        /\ sh'[s].uptodate = IF pass.kind = "repair" THEN sh[s].uptodate \ PassOut
                                                     ELSE sh[s].uptodate
  BY <1>2 DEF Shapes, FunctionOn, StripeFields
<1> QED
  BY <1>1, <1>3, <1>4 DEF image

\* md's cursor passes the row: a member that was rebuilt is ahead of it.
PassedBy ==
  /\ SamePass({"stage", "claimed"}) /\ pass'.stage = "end" /\ pass'.claimed = {}
  /\ DOMAIN member' = DOMAIN member
  /\ \A i \in Disks : member'[i] = IF i = pass.target /\ pass.kind = "recover" /\ member[i] = "rebuilding"
                                     THEN "ahead" ELSE member[i]

LEMMA PassedDoes ==
  ASSUME Shapes, Shaped, Passed
  PROVE  PassedBy
<1>1. SamePass({"stage", "claimed"}) /\ pass'.stage = "end" /\ pass'.claimed = {}
  BY DEF Passed, Shapes, SamePass, PassFields
<1>2. /\ DOMAIN member' = DOMAIN member
      /\ \A i \in Disks : member'[i] = IF i = pass.target /\ pass.kind = "recover" /\ member[i] = "rebuilding"
                                         THEN "ahead" ELSE member[i]
  BY DEF Passed, Shaped
<1> QED
  BY <1>1, <1>2 DEF PassedBy

LEMMA PassDoneDoes ==
  ASSUME Shapes, Shaped, PassDone
  PROVE  /\ UNCHANGED <<disk, bad, pending, onSb, locks, quiesce, dirty, history, budget>>
         /\ pass.stage = "write" /\ pass.out = {} /\ Release /\ PassedBy
BY PassedDoes DEF PassDone

LEMMA PassFailsDoes ==
  ASSUME Shapes, PassFails
  PROVE  /\ UNCHANGED <<devices, locks, quiesce, dirty, history, budget>>
         /\ pass.stage \in {"read", "write"} /\ GivesBack("stripes")
<1>1. /\ UNCHANGED <<devices, locks, quiesce, dirty, history, budget>>
      /\ pass.stage \in {"read", "write"} /\ Release
      /\ pass' = [pass EXCEPT !.stage = "stripes", !.claimed = {}]
  BY DEF PassFails
<1>2. GivesBack("stripes")
  BY <1>1 DEF GivesBack, Shapes, SamePass, PassFields
<1> QED
  BY <1>1, <1>2

LEMMA PassStripeDoes ==
  ASSUME Shapes, NEW s \in Stripes, PassStripe(s)
  PROVE  /\ UNCHANGED <<member, bad, pending, onSb, locks, quiesce, req, dirty, history, budget>>
         /\ pass.stage = "stripes" /\ s \in pass.left /\ pass.ok /\ SamePass({"left"})
         /\ pass'.left = pass.left \ {s} /\ ~Locked /\ ~pending /\ sh[s].held = {}
         /\ Cardinality(Known(s)) >= K
         /\ \E out :
              /\ out = IF pass.kind = "recover" THEN {pass.target}
                       ELSE {p \in Parity : Usable(s, p) /\ Page(s)[p] # Codeword(Contents(s))[p]}
              /\ disk' = [disk EXCEPT ![s] = [i \in Disks |-> IF i \in out THEN Codeword(Contents(s))[i]
                                                              ELSE disk[s][i]]]
         /\ \A t \in Stripes :
              /\ sh'[t].owner = sh[t].owner /\ sh'[t].held = sh[t].held /\ sh'[t].mark = sh[t].mark
              /\ sh'[t].uptodate = IF t = s THEN Disks ELSE sh[t].uptodate
              /\ sh'[t].page = IF t = s THEN Codeword(Contents(s)) ELSE sh[t].page
<1> DEFINE image == Codeword(Contents(s))
           out == IF pass.kind = "recover" THEN {pass.target}
                  ELSE {p \in Parity : Usable(s, p) /\ Page(s)[p] # image[p]}
<1>1. /\ UNCHANGED <<member, bad, pending, onSb, locks, quiesce, req, dirty, history, budget>>
      /\ pass.stage = "stripes" /\ s \in pass.left /\ pass.ok
      /\ ~Locked /\ ~pending /\ sh[s].held = {} /\ Cardinality(Known(s)) >= K
  BY DEF PassStripe
<1>2. /\ disk' = [disk EXCEPT ![s] = [i \in Disks |-> IF i \in out THEN image[i] ELSE disk[s][i]]]
      /\ sh' = [sh EXCEPT ![s].uptodate = Disks, ![s].page = image]
      /\ pass' = [pass EXCEPT !.left = @ \ {s}]
  BY DEF PassStripe
<1>3. \E x : /\ x = IF pass.kind = "recover" THEN {pass.target}
                    ELSE {p \in Parity : Usable(s, p) /\ Page(s)[p] # image[p]}
             /\ disk' = [disk EXCEPT ![s] = [i \in Disks |-> IF i \in x THEN image[i] ELSE disk[s][i]]]
  <2>1. /\ out = IF pass.kind = "recover" THEN {pass.target}
                 ELSE {p \in Parity : Usable(s, p) /\ Page(s)[p] # image[p]}
        /\ disk' = [disk EXCEPT ![s] = [i \in Disks |-> IF i \in out THEN image[i] ELSE disk[s][i]]]
    BY <1>2
  <2> HIDE DEF image
  <2> QED
    BY <2>1
<1> HIDE DEF image, out
<1>4. SamePass({"left"}) /\ pass'.left = pass.left \ {s}
  BY <1>2 DEF Shapes, SamePass, PassFields
<1>5. \A t \in Stripes :
        /\ sh'[t].owner = sh[t].owner /\ sh'[t].held = sh[t].held /\ sh'[t].mark = sh[t].mark
        /\ sh'[t].uptodate = IF t = s THEN Disks ELSE sh[t].uptodate
        /\ sh'[t].page = IF t = s THEN image ELSE sh[t].page
  BY <1>2 DEF Shapes, FunctionOn, StripeFields
<1> QED
  BY <1>1, <1>3, <1>4, <1>5 DEF image

LEMMA PassByStripesDoes ==
  ASSUME Shapes, Shaped, PassByStripes
  PROVE  /\ UNCHANGED <<disk, bad, pending, onSb, sh, locks, quiesce, req, dirty, history, budget>>
         /\ pass.stage = "stripes"
         /\ \/ pass.left = {} /\ pass.ok /\ PassedBy
            \/ ~pass.ok /\ member' = member /\ SamePass({"stage"}) /\ pass'.stage = "end"
<1>1. /\ UNCHANGED <<disk, bad, pending, onSb, sh, locks, quiesce, req, dirty, history, budget>>
      /\ pass.stage = "stripes" /\ (pass.left = {} \/ ~pass.ok)
  BY DEF PassByStripes
<1>2. CASE pass.ok
  <2>1. Passed
    BY <1>2 DEF PassByStripes
  <2> QED
    BY <1>1, <1>2, <2>1, PassedDoes
<1>3. CASE ~pass.ok
  <2>1. member' = member /\ pass' = [pass EXCEPT !.stage = "end"]
    BY <1>3 DEF PassByStripes
  <2>2. SamePass({"stage"}) /\ pass'.stage = "end"
    BY <2>1 DEF Shapes, SamePass, PassFields
  <2> QED
    BY <1>1, <1>3, <2>1, <2>2
<1> QED
  BY <1>2, <1>3

\* Steps of the pass that concern no stripe and no member.
LEMMA PassAloneLocks ==
  ASSUME QuiesceInv, LockInv,
         \/ PassFence \/ PassPick \/ PassByStripes \/ \E i \in Disks : PassRead(i) \/ PassWrite(i)
  PROVE  LockInv'
<1>1. Shapes /\ Shaped /\ PassForm /\ Marks
  BY DEF QuiesceInv, LockInv
<1> DEFINE Effect ==
     /\ UNCHANGED <<bad, onSb, pending, wlock, bucket, wrote, dirty, budget, sh, req>>
     /\ \/ pass.stage = "fence" /\ pass'.stage = "pick" /\ pass'.left = pass.left
        \/ pass.stage = "pick" /\ pass'.stage \in {"claim", "stripes", "end"} /\ pass'.left = pass.left
        \/ pass.stage = "stripes" /\ pass'.stage = "end"
        \/ pass.stage = "read" /\ pass'.stage = "read" /\ pass'.left = pass.left
        \/ pass.stage = "write" /\ pass'.stage = "write" /\ pass'.left = pass.left
     /\ DOMAIN disk' = Stripes /\ \A s \in Stripes : DOMAIN disk'[s] = Disks
     /\ DOMAIN member' = Disks
     /\ \A i \in Disks : member'[i] = member[i] \/ (member[i] = "rebuilding" /\ member'[i] = "ahead")
     /\ pass'.kind = pass.kind
     /\ pass'.claimed = pass.claimed \/ (pass'.claimed = {} /\ pass'.stage = "end")
<1>2. Effect
  <2>1. CASE PassFence
    BY <1>1, <2>1, PassFenceDoes, SamePassIs DEF devices, locks, history, Shaped
  <2>2. CASE PassPick
    <3>1. /\ UNCHANGED <<devices, sh, locks, quiesce, req, dirty, history, budget>>
          /\ pass.stage = "pick" /\ pass'.stage \in {"claim", "stripes", "end"}
          /\ SamePass({"stage"}) \/ SamePass({"stage", "members", "got"})
      BY <1>1, <2>2, PassPickDoes
    <3>2. /\ pass'.left = pass.left /\ pass'.kind = pass.kind /\ pass'.claimed = pass.claimed
      BY <3>1, SamePassIs
    <3> QED
      BY <1>1, <3>1, <3>2 DEF devices, locks, history, Shaped
  <2>3. CASE PassByStripes
    <3>1. /\ UNCHANGED <<disk, bad, pending, onSb, sh, locks, quiesce, req, dirty, history, budget>>
          /\ pass.stage = "stripes" /\ pass'.stage = "end"
          /\ PassedBy \/ (member' = member /\ SamePass({"stage"}))
      BY <1>1, <2>3, PassByStripesDoes DEF PassedBy
    <3>2. CASE PassedBy
      <4>1. pass'.kind = pass.kind
        BY <3>2, SamePassIs DEF PassedBy
      <4>2. /\ DOMAIN member' = Disks
            /\ \A i \in Disks : member'[i] = member[i] \/ (member[i] = "rebuilding" /\ member'[i] = "ahead")
        BY <1>1, <3>2 DEF PassedBy, Shaped
      <4> QED
        BY <1>1, <3>1, <3>2, <4>1, <4>2 DEF PassedBy, locks, history, Shaped
    <3>3. CASE member' = member /\ SamePass({"stage"})
      BY <1>1, <3>1, <3>3, SamePassIs DEF locks, history, Shaped
    <3> QED
      BY <3>1, <3>2, <3>3
  <2>4. ASSUME NEW i \in Disks, PassRead(i) PROVE Effect
    <3>1. /\ UNCHANGED <<devices, sh, locks, quiesce, req, dirty, history, budget>>
          /\ pass.stage = "read" /\ SamePass({"got"})
      BY <1>1, <2>4, PassReadDoes
    <3>2. /\ pass'.left = pass.left /\ pass'.kind = pass.kind /\ pass'.claimed = pass.claimed
          /\ pass'.stage = pass.stage
      BY <3>1, SamePassIs
    <3> QED
      BY <1>1, <3>1, <3>2 DEF devices, locks, history, Shaped
  <2>5. ASSUME NEW i \in Disks, PassWrite(i) PROVE Effect
    <3>1. /\ UNCHANGED <<member, bad, pending, onSb, sh, locks, quiesce, req, dirty, history, budget>>
          /\ pass.stage = "write" /\ SamePass({"out"})
          /\ disk' = [s \in Stripes |-> [disk[s] EXCEPT ![i] = pass.got[s][i]]]
      BY <1>1, <2>5, PassWriteDoes
    <3>2. DOMAIN disk' = Stripes /\ \A s \in Stripes : DOMAIN disk'[s] = Disks
      BY <1>1, <3>1 DEF Shaped
    <3>3. /\ pass'.left = pass.left /\ pass'.kind = pass.kind /\ pass'.claimed = pass.claimed
          /\ pass'.stage = pass.stage
      BY <3>1, SamePassIs
    <3> QED
      BY <1>1, <3>1, <3>2, <3>3 DEF locks, history, Shaped
  <2> QED
    BY <2>1, <2>2, <2>3, <2>4, <2>5
<1>3. PassForm'
  BY <1>1, <1>2 DEF PassForm
<1>4. Marks'
  BY <1>1, <1>2 DEF Marks
<1>5. Others(Sync)
  BY <1>1, <1>2, NobodyElse
<1>6. wlock.by \in Requests => \A s \in Stripes : Clean(s) => Clean(s)'
  BY <1>2 DEF Clean
<1>7. \A s \in pass'.claimed : s \in pass.claimed
  BY <1>2
<1> QED
  BY <1>2, <1>3, <1>4, <1>5, <1>6, <1>7, PassLocks

\* The row is claimed, a stripe at a time, or given back.
LEMMA PassClaimLocks ==
  ASSUME QuiesceInv, LockInv, PassClaim \/ PassRecheck \/ PassFails \/ PassDone
  PROVE  LockInv'
<1>1. Shapes /\ Shaped /\ PassForm /\ Marks /\ PassHolds
  BY DEF QuiesceInv, LockInv
<1>2. /\ UNCHANGED <<bad, onSb, pending, wlock, bucket, wrote, dirty, budget, disk>>
      /\ DOMAIN member' = Disks
      /\ \A i \in Disks : member'[i] = member[i] \/ (member[i] = "rebuilding" /\ member'[i] = "ahead")
  <2>1. CASE PassClaim \/ PassRecheck \/ PassFails
    BY <1>1, <2>1 DEF PassClaim, PassRecheck, PassFails, devices, locks, history, Shaped
  <2>2. CASE PassDone
    <3>1. UNCHANGED <<disk, bad, pending, onSb, locks, quiesce, dirty, history, budget>> /\ PassedBy
      BY <1>1, <2>2, PassDoneDoes
    <3> QED
      BY <1>1, <3>1 DEF PassedBy, locks, history, Shaped
  <2> QED
    BY <2>1, <2>2
<1>3. \/ /\ Release /\ pass'.claimed = {} /\ pass'.kind = pass.kind /\ pass'.left = pass.left
         /\ \/ pass.stage \in {"claim", "recheck"} /\ pass'.stage = "pick"
            \/ pass.stage \in {"read", "write"} /\ pass'.stage = "stripes"
            \/ pass.stage = "write" /\ pass'.stage = "end"
      \/ /\ pass.stage = "recheck" /\ pass'.stage = "read" /\ sh' = sh /\ req' = req
         /\ SamePass({"stage"})
      \/ /\ pass.stage = "claim" /\ PassClaim /\ ~GivesBack("pick")
  <2>1. CASE PassClaim
    <3>1. CASE GivesBack("pick")
      BY <1>1, <2>1, <3>1, PassClaimDoes, SamePassIs DEF GivesBack
    <3> QED
      BY <2>1, <3>1 DEF PassClaim
  <2>2. CASE PassRecheck
    <3>1. CASE GivesBack("pick")
      BY <1>1, <2>2, <3>1, PassRecheckDoes, SamePassIs DEF GivesBack
    <3> QED
      BY <1>1, <2>2, <3>1, PassRecheckDoes
  <2>3. CASE PassDone
    BY <1>1, <2>3, PassDoneDoes, SamePassIs DEF PassedBy
  <2>4. CASE PassFails
    BY <1>1, <2>4, PassFailsDoes, SamePassIs DEF GivesBack
  <2> QED
    BY <2>1, <2>2, <2>3, <2>4
<1>4. CASE /\ Release /\ pass'.claimed = {} /\ pass'.kind = pass.kind /\ pass'.left = pass.left
           /\ \/ pass.stage \in {"claim", "recheck"} /\ pass'.stage = "pick"
              \/ pass.stage \in {"read", "write"} /\ pass'.stage = "stripes"
              \/ pass.stage = "write" /\ pass'.stage = "end"
  <2>1. Others(Sync) /\ \A s \in Stripes : sh'[s].owner = sh[s].owner /\ (Clean(s) => Clean(s)')
    BY <1>1, <1>4, PassReleaseDoes
  <2>2. PassForm' /\ Marks'
    BY <1>1, <1>4 DEF PassForm, Marks
  <2>3. DOMAIN disk' = Stripes /\ \A s \in Stripes : DOMAIN disk'[s] = Disks
    BY <1>1, <1>2 DEF Shaped
  <2> QED
    BY <1>2, <1>4, <2>1, <2>2, <2>3, PassLocks
<1>5. CASE /\ pass.stage = "recheck" /\ pass'.stage = "read" /\ sh' = sh /\ req' = req
           /\ SamePass({"stage"})
  <2>1. pass'.claimed = pass.claimed /\ pass'.kind = pass.kind /\ pass'.left = pass.left
    BY <1>5, SamePassIs
  <2>2. PassForm' /\ Marks'
    BY <1>1, <1>5, <2>1 DEF PassForm, Marks
  <2>3. DOMAIN disk' = Stripes /\ \A s \in Stripes : DOMAIN disk'[s] = Disks
    BY <1>1, <1>2 DEF Shaped
  <2>4. Others(Sync) /\ \A s \in Stripes : sh'[s].owner = sh[s].owner /\ (Clean(s) => Clean(s)')
    BY <1>1, <1>5, NobodyElse DEF Clean
  <2> QED
    BY <1>2, <1>5, <2>1, <2>2, <2>3, <2>4, PassLocks
<1>6. CASE pass.stage = "claim" /\ PassClaim /\ ~GivesBack("pick")
  <2>1. /\ ~Locked /\ req' = req /\ SamePass({"stage", "claimed"})
        /\ \E s \in Stripes \ pass.claimed :
             /\ sh[s].owner = None /\ sh[s].mark = "none"
             /\ sh'[s].mark = IF pass.kind = "repair" THEN "all" ELSE "writes"
             /\ \A t \in Stripes \ {s} : sh'[t].mark = sh[t].mark
             /\ \A t \in Stripes : sh'[t].owner = sh[t].owner
             /\ pass'.claimed = pass.claimed \cup {s}
        /\ pass'.stage = IF pass'.claimed # Stripes THEN "claim"
                         ELSE IF pass.kind = "repair" THEN "recheck" ELSE "read"
    BY <1>6, PassClaimDoes
  <2>2. PICK s \in Stripes \ pass.claimed :
             /\ sh[s].owner = None /\ sh[s].mark = "none"
             /\ sh'[s].mark = IF pass.kind = "repair" THEN "all" ELSE "writes"
             /\ \A t \in Stripes \ {s} : sh'[t].mark = sh[t].mark
             /\ \A t \in Stripes : sh'[t].owner = sh[t].owner
             /\ pass'.claimed = pass.claimed \cup {s}
    BY <2>1
  <2>3. pass'.kind = pass.kind /\ pass'.left = pass.left
    BY <2>1, SamePassIs
  <2>4. PassForm'
    BY <1>1, <1>6, <2>1, <2>3 DEF PassForm
  <2>5. Marks'
    BY <1>1, <2>2, <2>3 DEF Marks, PassHolds
  <2>6. DOMAIN disk' = Stripes /\ \A t \in Stripes : DOMAIN disk'[t] = Disks
    BY <1>1, <1>2 DEF Shaped
  <2>7. Others(Sync) /\ wlock.by \notin Requests
    BY <1>1, <2>1, NobodyElse, RowAssumption DEF Locked
  <2>8. \A t \in pass'.claimed : t \in pass.claimed \/ sh[t].owner = None
    BY <2>2
  <2> QED
    BY <1>2, <2>2, <2>3, <2>4, <2>5, <2>6, <2>7, <2>8, PassLocks
<1> QED
  BY <1>3, <1>4, <1>5, <1>6

LEMMA PassComputeLocks ==
  ASSUME QuiesceInv, LockInv, PassCompute
  PROVE  LockInv'
<1>1. Shapes /\ Shaped /\ PassForm /\ Marks
  BY DEF QuiesceInv, LockInv
<1>2. /\ UNCHANGED <<devices, locks, quiesce, req, dirty, history, budget>>
      /\ pass.stage = "read" /\ SamePass({"stage", "got", "out"}) /\ pass'.stage = "write"
      /\ \A s \in Stripes : /\ sh'[s].owner = sh[s].owner /\ sh'[s].held = sh[s].held
                            /\ sh'[s].mark = sh[s].mark
                            /\ sh[s].uptodate = {} => sh'[s].uptodate = {}
  BY <1>1, PassComputeDoes
<1>3. pass'.claimed = pass.claimed /\ pass'.kind = pass.kind /\ pass'.left = pass.left
  BY <1>2, SamePassIs
<1>4. PassForm' /\ Marks'
  BY <1>1, <1>2, <1>3 DEF PassForm, Marks, QuiesceInv, PassHolds
<1>5. /\ DOMAIN disk' = Stripes /\ \A s \in Stripes : DOMAIN disk'[s] = Disks
      /\ DOMAIN member' = Disks /\ member' = member
  BY <1>1, <1>2 DEF devices, Shaped
<1>6. Others(Sync) /\ \A s \in Stripes : Clean(s) => Clean(s)'
  BY <1>1, <1>2, NobodyElse DEF Clean
<1>7. UNCHANGED <<bad, onSb, pending, wlock, bucket, wrote, dirty, budget>>
  BY <1>2 DEF devices, locks, history
<1> QED
  BY <1>2, <1>3, <1>4, <1>5, <1>6, <1>7, PassLocks

LEMMA PassStripeLocks ==
  ASSUME QuiesceInv, LockInv, NEW s \in Stripes, PassStripe(s)
  PROVE  LockInv'
<1>1. Shapes /\ Shaped /\ PassForm /\ Marks
  BY DEF QuiesceInv, LockInv
<1>2. /\ UNCHANGED <<member, bad, pending, onSb, locks, quiesce, req, dirty, history, budget>>
      /\ pass.stage = "stripes" /\ SamePass({"left"}) /\ ~Locked
      /\ \E out : disk' = [disk EXCEPT ![s] = [i \in Disks |-> IF i \in out THEN Codeword(Contents(s))[i]
                                                               ELSE disk[s][i]]]
      /\ \A t \in Stripes : sh'[t].owner = sh[t].owner /\ sh'[t].mark = sh[t].mark
  BY <1>1, PassStripeDoes
<1>3. pass'.claimed = pass.claimed /\ pass'.kind = pass.kind /\ pass'.stage = pass.stage
  BY <1>2, SamePassIs
<1>4. PassForm' /\ Marks'
  BY <1>1, <1>2, <1>3 DEF PassForm, Marks, QuiesceInv, PassHolds
<1>5. /\ DOMAIN disk' = Stripes /\ \A t \in Stripes : DOMAIN disk'[t] = Disks
      /\ DOMAIN member' = Disks
  BY <1>1, <1>2 DEF Shaped
<1>6. Others(Sync) /\ wlock.by \notin Requests
  BY <1>1, <1>2, NobodyElse, RowAssumption DEF Locked
<1>7. UNCHANGED <<bad, onSb, pending, wlock, bucket, wrote, dirty, budget>>
  BY <1>2 DEF locks, history
<1> QED
  BY <1>2, <1>3, <1>4, <1>5, <1>6, <1>7, PassLocks

LEMMA NoPassIs ==
  /\ NoPass.kind = "none" /\ NoPass.stage = "idle" /\ NoPass.claimed = {} /\ NoPass.left = {}
  /\ NoPass.ok = TRUE /\ NoPass.members = {} /\ NoPass.out = {} /\ NoPass.got = <<>>
  /\ DOMAIN NoPass = PassFields
BY DEF NoPass, PassFields

LEMMA StartPassDoes ==
  ASSUME QuiesceInv, StartPass
  PROVE  /\ UNCHANGED <<devices, sh, locks, quiesce, req, dirty, history>>
         /\ budget.pass # "none" /\ pass.kind = "none" /\ budget' = [budget EXCEPT !.pass = "none"]
         /\ pass'.kind = budget.pass /\ pass'.stage = "fence" /\ pass'.left = Stripes
         /\ pass'.claimed = {} /\ DOMAIN pass' = PassFields
<1> DEFINE t == IF budget.pass = "recover" THEN CHOOSE i \in Disks : member[i] # "insync" ELSE 0
<1>1. /\ UNCHANGED <<devices, sh, locks, quiesce, req, dirty, history>>
      /\ budget.pass # "none" /\ pass.kind = "none" /\ budget' = [budget EXCEPT !.pass = "none"]
      /\ pass' = [NoPass EXCEPT !.kind = budget.pass, !.stage = "fence", !.left = Stripes, !.target = t]
  BY DEF StartPass, Running
<1> HIDE DEF t
<1> QED
  BY <1>1, NoPassIs DEF PassFields

LEMMA PassEndDoes ==
  ASSUME Shaped, PassEnd
  PROVE  /\ UNCHANGED <<disk, bad, onSb, sh, locks, quiesce, req, history, budget>>
         /\ pass.stage = "end" /\ pass' = NoPass /\ pending' = TRUE
         /\ dirty' = (dirty /\ ~(pass.kind = "repair" /\ pass.ok))
         /\ DOMAIN member' = Disks
         /\ \A i \in Disks : member'[i] = IF member[i] = "ahead" /\ pass.ok THEN "insync" ELSE member[i]
BY DEF PassEnd, Shaped

LEMMA LoseMemberDoes ==
  ASSUME Shapes, LockInv, NEW i \in Disks, LoseMember(i)
  PROVE  /\ UNCHANGED <<disk, bad, onSb, sh, locks, quiesce, req, dirty, history>>
         /\ ~dirty /\ pending' = TRUE /\ SamePass({"ok"}) /\ pass'.ok = FALSE
         /\ DOMAIN member' = Disks
         /\ \A j \in Disks : member'[j] = IF j = i THEN "faulty" ELSE member[j]
         /\ budget.lost > 0 /\ budget' = [budget EXCEPT !.lost = @ - 1]
<1>1. /\ UNCHANGED <<disk, bad, onSb, sh, locks, quiesce, req, dirty, history>>
      /\ ~dirty /\ pending' = TRUE /\ budget.lost > 0 /\ budget' = [budget EXCEPT !.lost = @ - 1]
      /\ member' = [member EXCEPT ![i] = "faulty"] /\ pass' = [pass EXCEPT !.ok = FALSE]
  BY DEF LoseMember
<1>2. SamePass({"ok"}) /\ pass'.ok = FALSE
  BY <1>1 DEF Shapes, SamePass, PassFields
<1> QED
  BY <1>1, <1>2 DEF LockInv, Shaped

LEMMA ArrayLocks ==
  ASSUME QuiesceInv, LockInv,
         \/ StartPass \/ PassEnd \/ \E i \in Disks : LoseMember(i)
         \/ WriteSuperblock \/ QuiesceStart \/ QuiesceDrained \/ QuiesceEnd
  PROVE  LockInv'
<1>1. Shapes /\ Shaped /\ Bounded /\ PassForm /\ Marks /\ Recording
  BY DEF QuiesceInv, LockInv
<1> DEFINE Effect ==
      /\ UNCHANGED <<disk, sh, wlock, bucket, req, wrote>>
      /\ Shaped' /\ Bounded' /\ PassForm' /\ Marks' /\ Recording'
      /\ \A i \in Disks : member[i] = "faulty" => member'[i] = "faulty"
      /\ \A s \in pass'.claimed : s \in pass.claimed
      /\ pass'.kind = pass.kind \/ pass'.claimed = {}
<1>2. Effect
  <2>1. CASE StartPass
    <3>1. /\ UNCHANGED <<devices, sh, locks, quiesce, req, dirty, history>>
          /\ budget.pass # "none" /\ budget' = [budget EXCEPT !.pass = "none"]
          /\ pass'.kind = budget.pass /\ pass'.stage = "fence" /\ pass'.left = Stripes
          /\ pass'.claimed = {}
      BY <2>1, StartPassDoes
    <3>2. UNCHANGED <<disk, member, bad, pending, onSb, sh, wlock, bucket, req, wrote, dirty>>
      BY <3>1 DEF devices, locks, history
    <3>3. Shaped' /\ Recording'
      BY <1>1, <3>2 DEF Shaped, Recording, Recorded, Usable
    <3>4. PassForm' /\ Marks'
      BY <1>1, <3>1 DEF PassForm, Marks, Bounded, BudgetBounds
    <3>5. Bounded'
      <4>1. /\ budget' \in BudgetBounds /\ budget'.forever = budget.forever
            /\ budget'.read = budget.read /\ budget'.write = budget.write
            /\ budget'.rowwrite = budget.rowwrite /\ budget'.start = budget.start
            /\ budget'.pass = "none"
        BY <1>1, <3>1 DEF Bounded, BudgetBounds
      <4> QED
        BY <1>1, <3>1, <3>2, <4>1 DEF Bounded
    <3> QED
      BY <3>1, <3>2, <3>3, <3>4, <3>5
  <2>2. CASE PassEnd
    <3>1. /\ UNCHANGED <<disk, bad, onSb, sh, locks, quiesce, req, history, budget>>
          /\ pass' = NoPass /\ pending' = TRUE /\ (dirty' => dirty) /\ dirty' \in BOOLEAN
          /\ DOMAIN member' = Disks
          /\ \A i \in Disks : member[i] = "faulty" => member'[i] = "faulty"
      BY <1>1, <2>2, PassEndDoes DEF Bounded
    <3>2. UNCHANGED <<disk, bad, onSb, sh, wlock, bucket, req, wrote, budget>>
      BY <3>1 DEF locks, history
    <3>3. Shaped' /\ Recording' /\ PassForm' /\ Marks' /\ Bounded'
      BY <1>1, <3>1, <3>2, NoPassIs DEF Shaped, Recording, PassForm, Marks, Bounded
    <3> QED
      BY <3>1, <3>2, <3>3, NoPassIs
  <2>3. ASSUME NEW i \in Disks, LoseMember(i) PROVE Effect
    <3>1. /\ UNCHANGED <<disk, bad, onSb, sh, locks, quiesce, req, dirty, history>>
          /\ pending' = TRUE /\ SamePass({"ok"})
          /\ DOMAIN member' = Disks
          /\ \A j \in Disks : member[j] = "faulty" => member'[j] = "faulty"
          /\ budget.lost > 0 /\ budget' = [budget EXCEPT !.lost = @ - 1]
      BY <1>1, <2>3, LoseMemberDoes
    <3>2. UNCHANGED <<disk, bad, onSb, sh, wlock, bucket, req, wrote, dirty>>
      BY <3>1 DEF locks, history
    <3>3. /\ pass'.kind = pass.kind /\ pass'.stage = pass.stage /\ pass'.claimed = pass.claimed
          /\ pass'.left = pass.left
      BY <3>1, SamePassIs
    <3>4. Shaped' /\ Recording' /\ PassForm' /\ Marks'
      BY <1>1, <3>1, <3>2, <3>3 DEF Shaped, Recording, PassForm, Marks
    <3>5. Bounded'
      <4>1. budget.lost \in Nat /\ budget.lost - 1 \in Nat
        BY <1>1, <3>1 DEF Bounded, BudgetBounds
      <4>2. /\ budget' \in BudgetBounds /\ budget'.forever = budget.forever
            /\ budget'.read = budget.read /\ budget'.write = budget.write
            /\ budget'.rowwrite = budget.rowwrite /\ budget'.start = budget.start
            /\ budget'.pass = budget.pass
        BY <1>1, <3>1, <4>1 DEF Bounded, BudgetBounds
      <4> QED
        BY <1>1, <3>1, <3>2, <3>3, <4>2 DEF Bounded
    <3> QED
      BY <3>1, <3>2, <3>3, <3>4, <3>5
  <2>4. CASE WriteSuperblock
    <3>1. /\ UNCHANGED <<disk, member, bad, sh, wlock, bucket, req, pass, dirty, wrote, budget>>
          /\ onSb' = [member |-> member, bad |-> bad]
      BY <2>4 DEF WriteSuperblock, locks, history
    <3>2. Shaped' /\ PassForm' /\ Marks' /\ Bounded'
      BY <1>1, <3>1 DEF Shaped, PassForm, Marks, Bounded
    <3>3. Recording'
      BY <3>1 DEF Recording, Recorded, Usable
    <3> QED
      BY <3>1, <3>2, <3>3
  <2>5. CASE QuiesceStart
    <3>1. /\ UNCHANGED <<disk, member, bad, onSb, pending, sh, wlock, bucket, req, pass, dirty, wrote>>
          /\ budget.quiesces > 0 /\ budget' = [budget EXCEPT !.quiesces = @ - 1]
      BY <2>5 DEF QuiesceStart, devices, locks, history
    <3>2. Shaped' /\ PassForm' /\ Marks' /\ Recording'
      BY <1>1, <3>1 DEF Shaped, PassForm, Marks, Recording, Recorded, Usable
    <3>3. Bounded'
      <4>1. budget.quiesces \in Nat /\ budget.quiesces - 1 \in Nat
        BY <1>1, <3>1 DEF Bounded, BudgetBounds
      <4>2. /\ budget' \in BudgetBounds /\ budget'.forever = budget.forever
            /\ budget'.read = budget.read /\ budget'.write = budget.write
            /\ budget'.rowwrite = budget.rowwrite /\ budget'.start = budget.start
            /\ budget'.pass = budget.pass
        BY <1>1, <3>1, <4>1 DEF Bounded, BudgetBounds
      <4> QED
        BY <1>1, <3>1, <4>2 DEF Bounded
    <3> QED
      BY <3>1, <3>2, <3>3
  <2>6. CASE QuiesceDrained \/ QuiesceEnd
    <3>1. UNCHANGED <<disk, member, bad, onSb, pending, sh, wlock, bucket, req, pass, dirty, wrote, budget>>
      BY <2>6 DEF QuiesceDrained, QuiesceEnd, devices, locks, history
    <3>2. Shaped' /\ PassForm' /\ Marks' /\ Recording' /\ Bounded'
      BY <1>1, <3>1 DEF Shaped, PassForm, Marks, Recording, Recorded, Usable, Bounded
    <3> QED
      BY <3>1, <3>2
  <2> QED
    BY <2>1, <2>2, <2>3, <2>4, <2>5, <2>6
<1>3. Others(Sync) /\ \A s \in Stripes : Clean(s) => Clean(s)'
  BY <1>1, <1>2, NobodyElse DEF Clean
<1>4. \A q \in Requests \ {Sync} : req[q].stage \in Hands => req[q].at \in Stripes
  BY DEF QuiesceInv, Counted, Holding, Hands
<1> DEFINE r == Sync
<1>5. r \notin Requests /\ Others(r)
  BY <1>3, RowAssumption
<1>6. \A q \in Requests \ {r} : req[q].stage \in Hands => req[q].at \in Stripes
  BY <1>4
<1> HIDE DEF r
<1> QED
  BY <1>2, <1>3, <1>5, <1>6, LockStep

LEMMA RequestLocks ==
  ASSUME NEW r \in Requests, QuiesceInv, LockInv, Submit(r) \/ Serve(r)
  PROVE  LockInv'
<1>1. CASE StripeCache(r)
  BY <1>1, GetWaitsLocks, GetLocks, BounceLocks, AttachLocks, HandleReadLocks,
     HandleWriteLocks, LandLocks, NoteLocks, DoneLocks DEF StripeCache
<1>2. CASE RowWrite(r)
  BY <1>2, RowPrepLocks, RowFenceLocks, RowLockLocks, RowWalkLocks, RowGoLocks,
     RowLandLocks, RowDoneLocks, RowEndLocks DEF RowWrite
<1>3. CASE RowRead(r)
  BY <1>3, ReadsLock, ReadWorkLocks DEF RowRead
<1> QED
  BY <1>1, <1>2, <1>3, SubmitLocks DEF Serve

LEMMA LockInit ==
  ASSUME Init
  PROVE  LockInv
<1>1. /\ budget \in Budgets /\ wrote = 0 /\ pass = NoPass /\ dirty = (budget.start = "torn")
      /\ \A q \in Requests : req[q] = NoRequest
      /\ bad = {} /\ onSb = [member |-> member, bad |-> bad]
      /\ DOMAIN wlock = {"by", "wanted", "grace"} /\ bucket.gen = 0
      /\ DOMAIN disk = Stripes /\ DOMAIN member = Disks
  BY DEF Init
<1>2. \A s \in Stripes : DOMAIN disk[s] = Disks
  BY DEF Init
<1>3. Shaped
  BY <1>1, <1>2 DEF Shaped
<1>4. \A q \in Requests : req[q].kind # "read" /\ req[q].stage = "idle" /\ Form(req[q])
  BY <1>1, NoRequestIs
<1>5. Bounded
  <2>1. /\ budget \in BudgetBounds
        /\ IF budget.forever THEN 1 < Q /\ budget.read = 0 ELSE budget.write + budget.rowwrite < Q
        /\ budget.pass = "recover" => budget.start # "torn"
    BY <1>1, BudgetAssumption
  <2>2. budget.write \in Nat /\ budget.rowwrite \in Nat
    BY <2>1 DEF BudgetBounds
  <2>3. dirty \in BOOLEAN /\ (dirty => budget.start = "torn")
    BY <1>1
  <2>4. pass.kind = "none" /\ wrote \in Nat
    BY <1>1, NoPassIs
  <2>5. IF budget.forever THEN 1 < Q /\ budget.read = 0 /\ \A q \in Requests : req[q].kind # "read"
                         ELSE wrote + budget.write + budget.rowwrite < Q
    BY <1>1, <1>4, <2>1, <2>2
  <2> QED
    BY <2>1, <2>3, <2>4, <2>5 DEF Bounded
<1>6. PassForm /\ Marks
  BY <1>1, NoPassIs DEF PassForm, Marks
<1>7. Recording
  BY <1>1 DEF Recording, Recorded, Usable
<1>8. \A q \in Requests : RequestOk(q)
  BY <1>4 DEF RequestOk, Owner, Bounced, Missed, Hands, Owning, Prepared
<1> QED
  BY <1>3, <1>5, <1>6, <1>7, <1>8 DEF LockInv

LEMMA LockUnchanged ==
  ASSUME LockInv, UNCHANGED vars
  PROVE  LockInv'
<1>1. UNCHANGED <<disk, member, bad, pending, onSb, sh, bucket, wlock, req, pass, dirty, wrote, budget>>
  BY DEF vars, devices, locks, history
<1>2. Shaped' /\ Bounded' /\ PassForm' /\ Marks' /\ Recording'
  BY <1>1 DEF LockInv, Shaped, Bounded, PassForm, Marks, Recording, Recorded, Usable
<1>3. ASSUME NEW q \in Requests PROVE RequestOk(q)'
  <2>1. Form(req'[q])
    BY <1>1 DEF LockInv, RequestOk
  <2>2. Owner(q)' /\ Bounced(q)' /\ Missed(q)'
    BY <1>1 DEF LockInv, RequestOk, Owner, Bounced, Missed, Clean
  <2> QED
    BY <2>1, <2>2 DEF RequestOk
<1> QED
  BY <1>2, <1>3 DEF LockInv

LEMMA LockNext ==
  ASSUME QuiesceInv, LockInv, [Next]_vars
  PROVE  LockInv'
<1>1. CASE Passing
  BY <1>1, PassAloneLocks, PassClaimLocks, PassComputeLocks, PassStripeLocks, ArrayLocks DEF Passing
<1>2. CASE Next
  BY <1>1, <1>2, RequestLocks, ArrayLocks DEF Next, Quiescing
<1> QED
  BY <1>2, LockUnchanged

-----------------------------------------------------------------------------
(* The code: K blocks are enough. *)

LEMMA DisksAre ==
  /\ Disks = Data \cup Parity /\ Data \cap Parity = {} /\ Data \subseteq Disks /\ Parity \subseteq Disks
  /\ Disks \subseteq Nat /\ K \in Nat /\ K > 0 /\ M \in Nat /\ Data # {} /\ Q \in Nat
  /\ IsFiniteSet(Disks) /\ Cardinality(Disks) = K + M
  /\ IsFiniteSet(Data) /\ Cardinality(Data) = K
<1>1. K \in Nat /\ K > 0 /\ M \in Nat /\ M > 0 /\ Q \in Nat
  BY RowAssumption
<1>2. /\ Disks = Data \cup Parity /\ Data \cap Parity = {} /\ Data \subseteq Disks
      /\ Parity \subseteq Disks /\ Disks \subseteq Nat
  BY <1>1 DEF Disks, Data, Parity
<1>3. 0 \in Data
  BY <1>1 DEF Data
<1>4. IsFiniteSet(Disks) /\ Cardinality(Disks) = K + M
  <2>1. K + M - 1 \in Int /\ ~(0 > K + M - 1) /\ (K + M - 1) - 0 + 1 = K + M
    BY <1>1
  <2> QED
    BY <2>1, FS_Interval DEF Disks
<1>5. IsFiniteSet(Data) /\ Cardinality(Data) = K
  <2>1. K - 1 \in Int /\ ~(0 > K - 1) /\ (K - 1) - 0 + 1 = K
    BY <1>1
  <2> QED
    BY <2>1, FS_Interval DEF Data
<1> QED
  BY <1>1, <1>2, <1>3, <1>4, <1>5

LEMMA CodewordIs ==
  ASSUME NEW d \in [Data -> Block]
  PROVE  /\ \A i \in Data : Codeword(d)[i] = d[i]
         /\ \A p \in Parity : Codeword(d)[p] = Encode(p, d)
         /\ \A p \in Parity : Encode(p, d) \in Block
         /\ \A i \in Disks : Codeword(d)[i] \in Block
         /\ DOMAIN Codeword(d) = Disks
<1>1. \A p \in Parity : Encode(p, d) \in Block
  BY CodeAssumption
<1>2. \A i \in Disks : Codeword(d)[i] = IF i \in Data THEN d[i] ELSE Encode(i, d)
  BY DEF Codeword
<1>3. DOMAIN Codeword(d) = Disks
  BY DEF Codeword
<1> QED
  BY <1>1, <1>2, <1>3, DisksAre

LEMMA SolveIs ==
  ASSUME NEW d \in [Data -> Block], NEW src \in SUBSET Disks, Cardinality(src) = K,
         NEW page, \A i \in src : page[i] = Codeword(d)[i]
  PROVE  Solve(page, src) = d
<1>1. d \in [Data -> Block] /\ \A i \in src : Codeword(d)[i] = page[i]
  OBVIOUS
<1>2. ASSUME NEW e \in [Data -> Block], \A i \in src : Codeword(e)[i] = page[i]
      PROVE  e = d
  <2>1. \A i \in src : Codeword(e)[i] = Codeword(d)[i]
    BY <1>2
  <2> QED
    BY <2>1, CodeAssumption
<1> DEFINE x == CHOOSE e \in [Data -> Block] : \A i \in src : Codeword(e)[i] = page[i]
<1>3. x \in [Data -> Block] /\ \A i \in src : Codeword(x)[i] = page[i]
  BY <1>1
<1> HIDE DEF x
<1>4. x = d
  BY <1>2, <1>3
<1> QED
  BY <1>4 DEF x, Solve

LEMMA FirstKIs ==
  ASSUME NEW S \in SUBSET Disks
  PROVE  /\ FirstK(S) \in SUBSET S
         /\ Cardinality(S) >= K => Cardinality(FirstK(S)) = K
<1>1. FirstK(S) \in SUBSET S
  BY DEF FirstK
<1> SUFFICES ASSUME Cardinality(S) >= K PROVE Cardinality(FirstK(S)) = K
  BY <1>1
<1>2. PICK n \in Nat : Disks = 0..(n - 1) /\ n = K + M
  BY DisksAre DEF Disks
<1>20. \A x \in S : x \in Nat /\ x < n /\ x \in 0..n
  <2>1. \A x \in S : x \in 0..(n - 1)
    BY <1>2
  <2> QED
    BY <1>2, <2>1
<1> DEFINE T(j) == {y \in S : y < j}
           C(j) == Cardinality(T(j))
<1>3. \A j \in 0..n : IsFiniteSet(T(j)) /\ C(j) \in Nat
  <2> SUFFICES ASSUME NEW j \in 0..n PROVE IsFiniteSet(T(j)) /\ C(j) \in Nat
    OBVIOUS
  <2>1. IsFiniteSet(T(j))
    <3>1. T(j) \in SUBSET Disks
      OBVIOUS
    <3> QED
      BY <3>1, DisksAre, FS_Subset
  <2> QED
    BY <2>1, FS_CardinalityType
<1>4. \A i, j \in 0..n : i <= j => C(i) <= C(j)
  <2> SUFFICES ASSUME NEW i \in 0..n, NEW j \in 0..n, i <= j PROVE C(i) <= C(j)
    OBVIOUS
  <2>1. ASSUME NEW y \in S, y < i PROVE y < j
    <3>1. y \in Nat /\ i \in Nat /\ j \in Nat
      BY <1>2, <1>20
    <3> QED
      BY <2>1, <3>1
  <2>2. T(i) \in SUBSET T(j)
    BY <2>1
  <2> QED
    BY <1>3, <2>2, FS_Subset
<1>5. \A j \in 0..(n - 1) : C(j + 1) <= C(j) + 1
  <2> SUFFICES ASSUME NEW j \in 0..(n - 1) PROVE C(j + 1) <= C(j) + 1
    OBVIOUS
  <2>1. j \in 0..n /\ j + 1 \in 0..n
    BY <1>2, <1>20
  <2>2. T(j + 1) \in SUBSET (T(j) \cup {j})
    <3>1. ASSUME NEW y \in S, y < j + 1 PROVE y < j \/ y = j
      <4>1. y \in Nat /\ j \in Nat
        BY <1>2, <1>20
      <4> QED
        BY <3>1, <4>1
    <3> QED
      BY <3>1
  <2>3. IsFiniteSet(T(j)) /\ C(j) \in Nat /\ C(j + 1) \in Nat
    BY <1>3, <2>1
  <2>4. /\ IsFiniteSet(T(j) \cup {j})
        /\ Cardinality(T(j) \cup {j}) = IF j \in T(j) THEN C(j) ELSE C(j) + 1
    BY <2>3, FS_AddElement
  <2>5. C(j + 1) <= Cardinality(T(j) \cup {j})
    BY <2>2, <2>4, FS_Subset
  <2> QED
    BY <2>3, <2>4, <2>5
<1>6. C(0) = 0
  <2>1. T(0) = {}
    <3>1. \A y \in S : ~(y < 0)
      BY <1>20
    <3> QED
      BY <3>1
  <2> QED
    BY <2>1, FS_EmptySet
<1>7. C(n) >= K
  <2>1. T(n) = S
    BY <1>2, <1>20
  <2> QED
    BY <2>1
<1>8. FirstK(S) = {x \in S : C(x) < K}
  BY DEF FirstK
<1> HIDE DEF C
<1> DEFINE B == {j \in 0..n : C(j) >= K}
<1>9. n \in B /\ B \subseteq Nat
  BY <1>2, <1>7
<1>10. PICK b \in B : \A e \in B : ~(<<e, b>> \in OpToRel(<, Nat))
  BY <1>9, NatLessThanWellFounded, WFMin
<1>11. b \in 0..n /\ C(b) >= K /\ \A e \in B : ~(e < b)
  BY <1>9, <1>10 DEF OpToRel
<1>12. b # 0
  BY <1>6, <1>11, DisksAre
<1> PICK j \in 0..(n - 1) : j = b - 1
  BY <1>2, <1>11, <1>12
<1>13. C(b) = K
  <2>1. j \in 0..n /\ j \notin B /\ j + 1 = b
    BY <1>2, <1>11
  <2>2. C(j) \in Nat /\ C(b) \in Nat /\ C(b) <= C(j) + 1 /\ ~(C(j) >= K)
    BY <1>3, <1>5, <1>11, <2>1
  <2> QED
    BY <1>11, <2>2, DisksAre
<1>14. ASSUME NEW x \in S PROVE C(x) < K <=> x < b
  <2>1. x \in 0..n /\ C(x) \in Nat /\ C(b) \in Nat
    BY <1>3, <1>11, <1>20
  <2>2. CASE x < b
    BY <1>11, <2>1, <2>2, DisksAre
  <2>3. CASE ~(x < b)
    <3>1. C(b) <= C(x)
      BY <1>2, <1>4, <1>11, <2>1, <2>3
    <3> QED
      BY <1>13, <2>1, <2>3, <3>1, DisksAre
  <2> QED
    BY <2>2, <2>3
<1>15. FirstK(S) = T(b)
  BY <1>8, <1>14
<1> QED
  BY <1>13, <1>15 DEF C

\* At most M of the members are gone: K are left.
LEMMA EnoughLeft ==
  ASSUME NEW S \in SUBSET Disks, Cardinality({i \in Disks : i \notin S}) <= M
  PROVE  Cardinality(S) >= K
<1>1. IsFiniteSet(Disks) /\ Cardinality(Disks) = K + M /\ K \in Nat /\ M \in Nat
  BY DisksAre
<1>2. {i \in Disks : i \notin S} = Disks \ S /\ Disks \cap S = S
  OBVIOUS
<1>3. Cardinality(Disks \ S) = Cardinality(Disks) - Cardinality(Disks \cap S)
  BY <1>1, FS_Difference
<1>4. IsFiniteSet(S) /\ Cardinality(S) \in Nat
  BY <1>1, FS_Subset, FS_CardinalityType
<1>5. Cardinality(Disks \ S) = K + M - Cardinality(S)
  <2>1. Cardinality(Disks \cap S) = Cardinality(S)
    BY <1>2
  <2> QED
    BY <1>1, <1>3, <1>4, <2>1
<1>6. Cardinality(Disks \ S) <= M
  BY <1>2
<1> DEFINE n == Cardinality(Disks \ S)  m == Cardinality(S)
<1>7. n = K + M - m /\ n <= M /\ m \in Nat
  BY <1>4, <1>5, <1>6
<1> HIDE DEF n, m
<1>8. m >= K
  BY <1>1, <1>7
<1> QED
  BY <1>8 DEF m

LEMMA MoreLeft ==
  ASSUME NEW S \in SUBSET Disks, NEW T \in SUBSET S, Cardinality(T) >= K
  PROVE  Cardinality(S) >= K
<1>1. IsFiniteSet(Disks) /\ K \in Nat
  BY DisksAre
<1>2. IsFiniteSet(S) /\ Cardinality(S) \in Nat /\ IsFiniteSet(T) /\ Cardinality(T) \in Nat
  BY <1>1, FS_Subset, FS_CardinalityType
<1>3. Cardinality(T) <= Cardinality(S)
  BY <1>2, FS_Subset
<1> QED
  BY <1>1, <1>2, <1>3

-----------------------------------------------------------------------------
(* Who writes a stripe. *)

\* Whoever has a stripe in hand is the only one that writes it.
LEMMA OnlyWriter ==
  ASSUME QuiesceInv, LockInv, NEW r \in Requests, req[r].stage \in Hands,
         NEW q \in Requests \ {r}, NEW s, s = req[r].at
  PROVE  ~Writes(q, s)
<1>1. s \in Stripes /\ r \in sh[s].held /\ sh[s].owner = r
  BY DEF QuiesceInv, Counted, Holding, Hands, LockInv, RequestOk, Owner
<1>2. req[q].stage \in {"land", "note"} => sh[req[q].at].owner = q
  BY DEF LockInv, RequestOk, Owner, Hands
<1>3. req[q].stage = "rowland" => sh[s].held = {}
  BY <1>1 DEF LockInv, RequestOk, Owner, Clean
<1> QED
  BY <1>1, <1>2, <1>3 DEF Writes

\* A stripe nobody holds, in a row nobody owns, is written by nobody.
LEMMA NoWriter ==
  ASSUME QuiesceInv, LockInv, NEW s \in Stripes, sh[s].held = {}, NEW q \in Requests,
         req[q].stage # "rowland"
  PROVE  ~Writes(q, s)
BY DEF QuiesceInv, Counted, Holding, Writes

\* Whoever owns the row is the only one that writes it.
LEMMA OnlyRowWriter ==
  ASSUME QuiesceInv, LockInv, NEW r \in Requests, req[r].stage \in {"recheck", "rowland"},
         NEW q \in Requests \ {r}, NEW s \in Stripes
  PROVE  ~Writes(q, s)
<1>1. sh[s].held = {} /\ wlock.by = r
  BY DEF LockInv, RequestOk, Owner, Owning, Clean
<1>2. req[q].stage # "rowland"
  BY <1>1 DEF LockInv, RequestOk, Owner, Owning
<1> QED
  BY <1>1, <1>2, NoWriter

\* A row that the pass has claimed is written by no request.
Claimed == {"recheck", "read", "write"}
LEMMA ClaimedUnwritten ==
  ASSUME QuiesceInv, LockInv, pass.stage \in Claimed, NEW q \in Requests
  PROVE  /\ \A s \in Stripes : ~Writes(q, s)
         /\ req[q].stage \notin {"land", "note", "ack", "recheck", "rowland"}
         /\ req[q].stage = "handle" => req[q].kind = "read" /\ pass.kind # "repair"
<1>1. pass.claimed = Stripes /\ \A s \in Stripes : Sync \in sh[s].held
  BY DEF QuiesceInv, PassHolds, LockInv, PassForm, Claimed
<1>2. PICK s \in Stripes : TRUE
  BY RowAssumption
<1>3. req[q].stage \notin {"recheck", "rowland"}
  BY <1>1, <1>2 DEF LockInv, RequestOk, Owner, Clean
<1>4. req[q].stage \in Hands => req[q].kind = "read" /\ pass.kind # "repair"
  BY <1>1 DEF LockInv, RequestOk, Bounced, QuiesceInv, Counted, Holding, Hands
<1>5. req[q].stage \notin {"land", "note", "ack"}
  BY <1>4 DEF QuiesceInv, Counted, Writers, Hands
<1> QED
  BY <1>3, <1>4, <1>5 DEF Writes, Hands

\* What a stripe that nobody writes holds: its known blocks are those of its data.
LEMMA ContentsAre ==
  ASSUME LockInv, Careful, NEW s \in Stripes, NEW o, NEW c \in [Data -> Block], StripeOk(s, o, c),
         \A q \in Requests : ~Writes(q, s)
  PROVE  /\ o = c /\ \A i : ~Unwritten(s, i)
         /\ Known(s) \subseteq Disks
         /\ dirty => Known(s) = Disks
         /\ \A i \in Known(s) : Page(s)[i] = IF Plain(s, i) THEN Codeword(c)[i] ELSE disk[s][i]
         /\ Data \subseteq Known(s) \/ Cardinality(Known(s)) >= K => Contents(s) = c
<1>1. o = c /\ \A i : ~Unwritten(s, i)
  BY DEF StripeOk, Unwritten
<1>2. Known(s) \subseteq Disks
  BY DEF Known, StripeOk
<1>3. dirty => Known(s) = Disks
  BY <1>2 DEF Careful, Known
<1>4. ASSUME NEW i \in Known(s)
      PROVE  Page(s)[i] = IF Plain(s, i) THEN Codeword(c)[i] ELSE disk[s][i]
  <2>1. i \in Disks
    BY <1>2
  <2>2. CASE i \in sh[s].uptodate
    BY <1>1, <2>1, <2>2 DEF Page, StripeOk
  <2>3. CASE i \notin sh[s].uptodate
    <3>1. Usable(s, i) /\ Page(s)[i] = disk[s][i]
      BY <2>1, <2>3 DEF Page, Known
    <3>2. Kept(s, i)
      BY <3>1 DEF Kept, Valid
    <3> QED
      BY <1>1, <2>1, <3>1, <3>2 DEF StripeOk
  <2> QED
    BY <2>2, <2>3
<1>5. ASSUME Data \subseteq Known(s) PROVE Contents(s) = c
  <2>1. \A d \in Data : Page(s)[d] = c[d]
    <3> SUFFICES ASSUME NEW d \in Data PROVE Page(s)[d] = c[d]
      OBVIOUS
    <3>1. Plain(s, d) /\ d \in Known(s)
      BY <1>5 DEF Plain
    <3> QED
      BY <1>4, <3>1, CodewordIs
  <2>2. Contents(s) = [d \in Data |-> Page(s)[d]]
    BY <1>5 DEF Contents
  <2> QED
    BY <2>1, <2>2
<1>6. ASSUME ~(Data \subseteq Known(s)), Cardinality(Known(s)) >= K PROVE Contents(s) = c
  <2>1. ~dirty
    BY <1>3, <1>6, DisksAre
  <2>2. \A i \in Known(s) : Page(s)[i] = Codeword(c)[i]
    BY <1>4, <2>1 DEF Plain
  <2>3. FirstK(Known(s)) \in SUBSET Known(s) /\ Cardinality(FirstK(Known(s))) = K
    BY <1>2, <1>6, FirstKIs
  <2>4. FirstK(Known(s)) \in SUBSET Disks /\ \A i \in FirstK(Known(s)) : Page(s)[i] = Codeword(c)[i]
    BY <1>2, <2>2, <2>3
  <2>5. Solve(Page(s), FirstK(Known(s))) = c
    BY <2>3, <2>4, SolveIs
  <2> QED
    BY <1>6, <2>5 DEF Contents
<1> QED
  BY <1>1, <1>2, <1>3, <1>4, <1>5, <1>6

-----------------------------------------------------------------------------
(* What a step leaves as it was. *)

\* A request goes on writing a stripe, or not writing it.
StillWrites(q, s) ==
  /\ Writes(q, s)' <=> Writes(q, s)
  /\ Writes(q, s) => /\ req'[q].page = req[q].page /\ req'[q].blk = req[q].blk
                     /\ req'[q].val = req[q].val /\ req'[q].out = req[q].out
                     /\ req'[q].failed = req[q].failed

LEMMA TwinWrites ==
  ASSUME NEW q \in Requests, Twin(req[q], req'[q]), NEW s
  PROVE  StillWrites(q, s)
BY TwinIs DEF StillWrites, Writes

LEMMA StripeStands ==
  ASSUME NEW s \in Stripes, NEW o, NEW c, StripeOk(s, o, c),
         \A d \in Data : cands'[s][d] = cands[s][d], disk'[s] = disk[s],
         \A q \in Requests : StillWrites(q, s),
         \A i \in Disks : Kept(s, i)' => Kept(s, i),
         \A i \in Disks : Plain(s, i)' <=> Plain(s, i),
         \A i \in sh'[s].uptodate :
           \/ i \in sh[s].uptodate /\ sh'[s].page[i] = sh[s].page[i]
           \/ /\ i \in Disks
              /\ sh'[s].page[i] = IF Plain(s, i) \/ Unwritten(s, i) THEN Codeword(c)[i] ELSE disk[s][i]
  PROVE  StripeOk(s, o, c)'
<1>1. \A d \in Data : cands'[s][d] = {o[d], c[d]}
  BY DEF StripeOk
<1>2. \A q \in Requests : Writes(q, s)' <=> Writes(q, s)
  BY DEF StillWrites
<1>3. (\A q \in Requests : ~Writes(q, s)') => o = c
  BY <1>2 DEF StripeOk
<1>4. ASSUME NEW q \in Requests, Writes(q, s)'
      PROVE  /\ req'[q].page = Codeword(c)
             /\ \A d \in Data : c[d] = IF d \in req'[q].blk THEN req'[q].val ELSE o[d]
  <2>1. Writes(q, s)
    BY <1>2, <1>4
  <2>2. req'[q].page = req[q].page /\ req'[q].blk = req[q].blk /\ req'[q].val = req[q].val
    BY <2>1 DEF StillWrites
  <2>3. /\ req[q].page = Codeword(c)
        /\ \A d \in Data : c[d] = IF d \in req[q].blk THEN req[q].val ELSE o[d]
    BY <2>1 DEF StripeOk
  <2> QED
    BY <2>2, <2>3
<1>5. \A i : Unwritten(s, i)' <=> Unwritten(s, i)
  <2> SUFFICES ASSUME NEW i PROVE Unwritten(s, i)' <=> Unwritten(s, i)
    OBVIOUS
  <2>1. ASSUME NEW q \in Requests
        PROVE  Writes(q, s)' /\ i \in req'[q].out \cup req'[q].failed <=>
               Writes(q, s) /\ i \in req[q].out \cup req[q].failed
    BY DEF StillWrites
  <2> QED
    BY <2>1 DEF Unwritten
<1>6. ASSUME NEW i \in Disks, Kept(s, i)', Plain(s, i)'
      PROVE  disk'[s][i] = Codeword(IF Unwritten(s, i)' THEN o ELSE c)[i]
  <2>1. Kept(s, i) /\ Plain(s, i)
    BY <1>6
  <2>2. disk[s][i] = Codeword(IF Unwritten(s, i) THEN o ELSE c)[i]
    BY <2>1 DEF StripeOk
  <2> QED
    BY <1>5, <2>2
<1>7. sh'[s].uptodate \subseteq Disks
  BY DEF StripeOk
<1>8. ASSUME NEW i \in sh'[s].uptodate
      PROVE  sh'[s].page[i] = IF Plain(s, i)' \/ Unwritten(s, i)' THEN Codeword(c)[i] ELSE disk'[s][i]
  <2>1. i \in Disks
    BY <1>7, <1>8
  <2>2. sh'[s].page[i] = IF Plain(s, i) \/ Unwritten(s, i) THEN Codeword(c)[i] ELSE disk[s][i]
    BY <1>8 DEF StripeOk
  <2> QED
    BY <1>5, <1>8, <2>1, <2>2
<1> QED
  BY <1>1, <1>3, <1>4, <1>6, <1>7, <1>8 DEF StripeOk

\* A member comes to count for a stripe only as the superblocks had it.
LEMMA KeptStands ==
  ASSUME NEW r, LockInv, Others(r), UNCHANGED <<member, bad, onSb, pass>>,
         NEW s \in Stripes, NEW i \in Disks,
         r \in Requests /\ req[r].stage \in {"ack", "sbwait"} => ~pending,
         r \in Requests /\ req[r].stage = "rowland" =>
           req'[r].stage = "rowland" /\ req'[r].missing = req[r].missing,
         Kept(s, i)'
  PROVE  Kept(s, i)
<1>1. Usable(s, i)' <=> Usable(s, i)
  BY DEF Usable
<1>2. Valid(s, i)' => Valid(s, i)
  BY <1>1 DEF Valid
<1>3. Recorded(s, i)' => Recorded(s, i)
  BY DEF Recorded
<1>4. CASE r \in Requests /\ req[r].stage \in {"ack", "sbwait"}
  <2>1. Recorded(s, i) => Usable(s, i)
    BY <1>4 DEF LockInv, Recording
  <2> QED
    BY <1>2, <1>3, <2>1 DEF Kept, Valid
<1>5. CASE ~(r \in Requests /\ req[r].stage \in {"ack", "sbwait"})
  <2>1. ASSUME NEW q \in Requests,
               \/ req[q].stage = "ack" /\ req[q].at = s /\ i \in req[q].failed
               \/ req[q].stage = "rowland" /\ i \in req[q].missing
               \/ req[q].stage = "sbwait" /\ i \in req[q].failed \cup req[q].missing
        PROVE  \/ req'[q].stage = "ack" /\ req'[q].at = s /\ i \in req'[q].failed
               \/ req'[q].stage = "rowland" /\ i \in req'[q].missing
               \/ req'[q].stage = "sbwait" /\ i \in req'[q].failed \cup req'[q].missing
    <3>1. CASE q = r
      BY <1>5, <2>1, <3>1
    <3>2. CASE q # r
      <4>1. Twin(req[q], req'[q])
        BY <3>2 DEF Others
      <4> QED
        BY <2>1, <4>1, TwinIs
    <3> QED
      BY <3>1, <3>2
  <2>2. Excused(s, i) => Excused(s, i)'
    BY <2>1 DEF Excused
  <2> QED
    BY <1>2, <1>3, <2>2 DEF Kept
<1> QED
  BY <1>4, <1>5

\* A step that changes no pass and marks nothing clean leaves every parity as plain.
LEMMA PlainStands ==
  ASSUME UNCHANGED <<pass, dirty>>, NEW s, NEW i
  PROVE  Plain(s, i)' <=> Plain(s, i)
BY DEF Plain, Mended

\* A step of r that writes nothing.
LEMMA StripesStand ==
  ASSUME NEW r, LockInv, Others(r), UNCHANGED <<disk, member, bad, onSb, pass, dirty, cands>>,
         NEW o, NEW c, \A s \in Stripes : StripeOk(s, o[s], c[s]),
         r \in Requests =>
           /\ req[r].stage \notin {"land", "note", "rowland"}
           /\ req'[r].stage \notin {"land", "note", "rowland"}
           /\ req[r].stage \in {"ack", "sbwait"} => ~pending,
         \A s \in Stripes :
           /\ sh'[s].uptodate \subseteq sh[s].uptodate
           /\ \A i \in sh'[s].uptodate : sh'[s].page[i] = sh[s].page[i]
  PROVE  \A s \in Stripes : StripeOk(s, o[s], c[s])'
<1> SUFFICES ASSUME NEW s \in Stripes PROVE StripeOk(s, o[s], c[s])'
  OBVIOUS
<1>1. \A i \in Disks : Kept(s, i)' => Kept(s, i)
  BY KeptStands
<1>2. \A i \in Disks : Plain(s, i)' <=> Plain(s, i)
  BY PlainStands
<1>3. ASSUME NEW q \in Requests PROVE StillWrites(q, s)
  <2>1. CASE q = r
    BY <2>1 DEF StillWrites, Writes
  <2>2. CASE q # r
    BY <2>2, TwinWrites DEF Others
  <2> QED
    BY <2>1, <2>2
<1> QED
  BY <1>1, <1>2, <1>3, StripeStands

LEMMA PassStands ==
  ASSUME NEW c, NEW e, PassOk(c), SamePass({"ok"}),
         pass.stage \in Claimed =>
           /\ \A s \in Stripes : e[s] = c[s]
           /\ disk' = disk
           /\ \A s \in Stripes : \A i : Plain(s, i)' => Plain(s, i)
           /\ pass.kind = "repair" =>
                \A s \in Stripes : sh'[s].uptodate \subseteq sh[s].uptodate
  PROVE  PassOk(e)'
<1>1. /\ pass'.kind = pass.kind /\ pass'.stage = pass.stage /\ pass'.target = pass.target
      /\ pass'.members = pass.members /\ pass'.got = pass.got /\ pass'.out = pass.out
  BY SamePassIs
<1>2. Written' = Written
  BY <1>1 DEF Written
<1>3. CASE pass.stage \in Claimed
  BY <1>1, <1>2, <1>3 DEF PassOk
<1>4. CASE pass.stage \notin Claimed
  BY <1>1, <1>4 DEF PassOk, Claimed
<1> QED
  BY <1>3, <1>4

\* What a reader in the row may rely on: the generation tells it of a write, and else
\* the members' blocks are those of the same data.
Steady(c, e) ==
  \/ bucket'.gen > bucket.gen
  \/ bucket'.gen = bucket.gen /\ InFlight # {}
  \/ /\ bucket'.gen = bucket.gen /\ InFlight' \subseteq InFlight
     /\ \A s \in Stripes : e[s] = c[s]
     /\ \A s \in Stripes, i \in Disks : disk'[s][i] \in {disk[s][i], Codeword(c[s])[i]}

LEMMA ReadStands ==
  ASSUME NEW q \in Requests, NEW c, NEW e, QuiesceInv, LockInv, ReadOk(q, c),
         Twin(req[q], req'[q]), dirty' => dirty, bucket'.gen \in Nat,
         req[q].kind = "read" => \A s \in req[q].todo, d \in Data :
           cands'[s][d] \subseteq cands[s][d] \cup req'[q].may[d],
         ~budget.forever => Steady(c, e)
  PROVE  ReadOk(q, e)'
<1>1. /\ req'[q].kind = req[q].kind /\ req'[q].stage = req[q].stage /\ req'[q].todo = req[q].todo
      /\ req'[q].src = req[q].src /\ req'[q].got = req[q].got /\ req'[q].gen0 = req[q].gen0
      /\ req'[q].answer = req[q].answer
      /\ \A d \in Data : req[q].may[d] \subseteq req'[q].may[d]
  BY TwinIs
<1>2. req'[q].kind = "read" => \A s \in req'[q].todo, d \in Data : cands'[s][d] \subseteq req'[q].may[d]
  <2> SUFFICES ASSUME req[q].kind = "read", NEW s \in req[q].todo, NEW d \in Data
               PROVE  cands'[s][d] \subseteq req'[q].may[d]
    BY <1>1
  <2>1. cands[s][d] \subseteq req[q].may[d]
    BY DEF ReadOk
  <2> QED
    BY <1>1, <2>1
<1>3. ASSUME req[q].stage \in InRow
      PROVE  /\ req[q].gen0 <= bucket'.gen
             /\ req[q].gen0 = bucket'.gen =>
                  /\ InFlight' = {}
                  /\ \A s \in req[q].todo, i \in req[q].src :
                       /\ disk'[s][i] = Codeword(e[s])[i]
                       /\ i \in DOMAIN req[q].got => req[q].got[i] = Codeword(e[s])[i]
  <2>1. req[q].kind = "read"
    BY <1>3 DEF QuiesceInv, Counted, Reading, InRow
  <2>2. ~budget.forever
    BY <2>1 DEF LockInv, Bounded
  <2>3. Steady(c, e)
    BY <2>2
  <2>4. req[q].gen0 \in Nat /\ bucket.gen \in Nat /\ req[q].gen0 <= bucket.gen
    BY <1>3 DEF LockInv, RequestOk, Form, Shaped, ReadOk
  <2>5. /\ req[q].gen0 <= bucket'.gen
        /\ req[q].gen0 = bucket'.gen => bucket'.gen = bucket.gen
    BY <2>3, <2>4 DEF Steady
  <2>6. ASSUME req[q].gen0 = bucket'.gen
        PROVE  /\ InFlight' = {}
               /\ \A s \in req[q].todo, i \in req[q].src :
                    /\ disk'[s][i] = Codeword(e[s])[i]
                    /\ i \in DOMAIN req[q].got => req[q].got[i] = Codeword(e[s])[i]
    <3>1. req[q].gen0 = bucket.gen /\ bucket'.gen = bucket.gen
      BY <2>5, <2>6
    <3>2. /\ InFlight = {}
          /\ \A s \in req[q].todo, i \in req[q].src :
               /\ disk[s][i] = Codeword(c[s])[i]
               /\ i \in DOMAIN req[q].got => req[q].got[i] = Codeword(c[s])[i]
          /\ req[q].src \subseteq Disks
      BY <1>3, <3>1 DEF ReadOk
    <3>3. req[q].todo \subseteq Stripes
      BY DEF QuiesceInv, Counted
    <3>4. ~(bucket'.gen > bucket.gen)
      BY <2>4, <3>1
    <3>5. /\ InFlight' \subseteq InFlight /\ \A s \in Stripes : e[s] = c[s]
          /\ \A s \in Stripes, i \in Disks : disk'[s][i] \in {disk[s][i], Codeword(c[s])[i]}
      BY <2>3, <3>2, <3>4 DEF Steady
    <3>6. ASSUME NEW s \in req[q].todo, NEW i \in req[q].src
          PROVE  /\ disk'[s][i] = Codeword(e[s])[i]
                 /\ i \in DOMAIN req[q].got => req[q].got[i] = Codeword(e[s])[i]
      <4>1. s \in Stripes /\ i \in Disks
        BY <3>2, <3>3
      <4>2. e[s] = c[s] /\ disk'[s][i] \in {disk[s][i], Codeword(c[s])[i]}
        BY <3>5, <4>1
      <4> QED
        BY <3>2, <4>2
    <3> QED
      BY <3>2, <3>5, <3>6
  <2> QED
    BY <2>5, <2>6
<1>4. /\ req[q].stage \in InRow \cup {"gen"} =>
           Cardinality(req[q].src) = K /\ req[q].src \subseteq Disks /\ ~dirty
      /\ req[q].stage \in {"pick", "gen", "count", "confirm", "quiesced"} => DOMAIN req[q].got = {}
      /\ req[q].stage \in InRow => DOMAIN req[q].got \subseteq req[q].src
  BY DEF ReadOk
<1>5. req[q].stage = "end" =>
        \A d \in DOMAIN req[q].answer : d \in Data /\ req[q].answer[d] \in req'[q].may[d]
  BY <1>1 DEF ReadOk
<1>6. req'[q].stage \in InRow =>
       /\ req'[q].gen0 <= bucket'.gen /\ DOMAIN req'[q].got \subseteq req'[q].src
       /\ req'[q].gen0 = bucket'.gen =>
            /\ InFlight' = {}
            /\ \A s \in req'[q].todo, i \in req'[q].src :
                 /\ disk'[s][i] = Codeword(e[s])[i]
                 /\ i \in DOMAIN req'[q].got => req'[q].got[i] = Codeword(e[s])[i]
  BY <1>1, <1>3, <1>4
<1>7. /\ req'[q].stage \in InRow \cup {"gen"} =>
           Cardinality(req'[q].src) = K /\ req'[q].src \subseteq Disks /\ ~dirty'
      /\ req'[q].stage \in {"pick", "gen", "count", "confirm", "quiesced"} => DOMAIN req'[q].got = {}
      /\ req'[q].stage = "end" =>
           \A d \in DOMAIN req'[q].answer : d \in Data /\ req'[q].answer[d] \in req'[q].may[d]
  BY <1>1, <1>4, <1>5
<1> QED
  BY <1>2, <1>6, <1>7 DEF ReadOk

LEMMA ReadersStand ==
  ASSUME NEW r, NEW c, NEW e, QuiesceInv, LockInv, LockInv', Others(r), dirty' => dirty,
         \A q \in Requests : ReadOk(q, c),
         \A q \in Requests \ {r} : req[q].kind = "read" => \A s \in req[q].todo, d \in Data :
           cands'[s][d] \subseteq cands[s][d] \cup req'[q].may[d],
         ~budget.forever => Steady(c, e),
         r \in Requests => ReadOk(r, e)'
  PROVE  \A q \in Requests : ReadOk(q, e)'
<1>1. bucket'.gen \in Nat
  BY DEF LockInv, Shaped
<1> SUFFICES ASSUME NEW q \in Requests \ {r} PROVE ReadOk(q, e)'
  OBVIOUS
<1>2. Twin(req[q], req'[q]) /\ ReadOk(q, c)
  BY DEF Others
<1> QED
  BY <1>1, <1>2, ReadStands

LEMMA SameInFlight ==
  ASSUME NEW r, Others(r), r \in Requests => req'[r].stage \notin {"land", "rowland"} \/ r \in InFlight
  PROVE  InFlight' \subseteq InFlight
<1> SUFFICES ASSUME NEW q \in Requests, req'[q].stage \in {"land", "rowland"}
             PROVE  req[q].stage \in {"land", "rowland"}
  BY DEF InFlight
<1>1. CASE q = r
  BY <1>1 DEF InFlight
<1>2. CASE q # r
  BY <1>2, TwinIs DEF Others
<1> QED
  BY <1>1, <1>2

\* A step of r that writes nothing and reads nothing.
LEMMA QuietStep ==
  ASSUME NEW r, QuiesceInv, LockInv, LockInv', Others(r),
         UNCHANGED <<disk, member, bad, onSb, bucket, pass, dirty, cands>>,
         NEW o, NEW c, Holds(o, c),
         r \in Requests =>
           /\ req[r].stage \notin {"land", "note", "rowland"}
           /\ req'[r].stage \notin {"land", "note", "rowland"}
           /\ req[r].stage \in {"ack", "sbwait"} => ~pending
           /\ ReadOk(r, c)',
         \A s \in Stripes :
           /\ sh'[s].uptodate \subseteq sh[s].uptodate
           /\ \A i \in sh'[s].uptodate : sh'[s].page[i] = sh[s].page[i]
  PROVE  Holds(o, c)'
<1>1. \A s \in Stripes : StripeOk(s, o[s], c[s])'
  BY StripesStand DEF Holds
<1>2. PassOk(c)'
  <2>1. SamePass({"ok"}) /\ \A s, i : Plain(s, i)' => Plain(s, i)
    BY PlainStands DEF SamePass, QuiesceInv, Shapes
  <2> QED
    BY <2>1, PassStands DEF Holds
<1>3. \A q \in Requests : ReadOk(q, c)'
  <2>1. InFlight' \subseteq InFlight
    BY SameInFlight
  <2>2. Steady(c, c)
    BY <2>1 DEF Steady
  <2>3. \A q \in Requests \ {r} : req[q].kind = "read" => \A s \in req[q].todo, d \in Data :
           cands'[s][d] \subseteq cands[s][d] \cup req'[q].may[d]
    OBVIOUS
  <2> QED
    BY <2>2, <2>3, ReadersStand DEF Holds
<1> QED
  BY <1>1, <1>2, <1>3 DEF Holds

\* A reader that goes to the stripe cache relies on nothing; so does a writer.
LEMMA ReadPassive ==
  ASSUME NEW r \in Requests, NEW c, NEW e, ReadOk(r, c), cands' = cands,
         req'[r].kind = "read" =>
           req[r].kind = "read" /\ req'[r].todo \subseteq req[r].todo /\ req'[r].may = req[r].may,
         req'[r].stage \notin InRow \cup {"pick", "gen", "end"}
  PROVE  ReadOk(r, e)'
BY DEF ReadOk, InRow

\* Requests in the stripe cache, and row writes before they write, or after.
LEMMA QuietData ==
  ASSUME NEW r \in Requests, QuiesceInv, LockInv, LockInv', Others(r),
         UNCHANGED <<disk, member, bad, onSb, bucket, pass, dirty, cands>>,
         NEW F, Same(req[r], req'[r], F), "kind" \notin F, "may" \notin F,
         req'[r].todo \subseteq req[r].todo,
         NEW o, NEW c, Holds(o, c),
         req[r].stage \notin {"land", "note", "rowland"},
         req'[r].stage \notin {"land", "note", "rowland", "pick", "gen", "end"} \cup InRow,
         req[r].stage \in {"ack", "sbwait"} => ~pending,
         \A s \in Stripes :
           /\ sh'[s].uptodate \subseteq sh[s].uptodate
           /\ \A i \in sh'[s].uptodate : sh'[s].page[i] = sh[s].page[i]
  PROVE  Holds(o, c)'
<1>1. req'[r].kind = req[r].kind /\ req'[r].may = req[r].may
  BY SameIs
<1>2. ReadOk(r, c)
  BY DEF Holds
<1>3. ReadOk(r, c)'
  BY <1>1, <1>2, ReadPassive
<1> QED
  BY <1>3, QuietStep

LEMMA ShStands ==
  ASSUME sh' = sh
  PROVE  \A s \in Stripes :
           /\ sh'[s].uptodate \subseteq sh[s].uptodate
           /\ \A i \in sh'[s].uptodate : sh'[s].page[i] = sh[s].page[i]
OBVIOUS

LEMMA GetData ==
  ASSUME NEW r \in Requests, QuiesceInv, LockInv, LockInv', NEW o, NEW c, Holds(o, c),
         GetWaits(r) \/ Get(r) \/ Bounce(r) \/ Attach(r)
  PROVE  Holds(o, c)'
<1>1. CASE GetWaits(r)
  <2>1. /\ UNCHANGED <<disk, member, bad, onSb, bucket, pass, dirty, cands, sh>>
        /\ req[r].stage = "get"
    BY <1>1 DEF GetWaits, devices, history
  <2>2. Others(r) /\ Same(req[r], req'[r], {"wait", "waited"})
    BY <1>1, GetWaitsDoes, RequestParts
  <2>3. req'[r].stage = req[r].stage /\ req'[r].todo = req[r].todo
    BY <2>2, SameIs
  <2>4. req'[r].stage \notin {"land", "note", "rowland", "pick", "gen", "end"} \cup InRow
    BY <2>1, <2>3 DEF InRow
  <2> DEFINE F == {"wait", "waited"}
  <2>5. "kind" \notin F /\ "may" \notin F /\ Same(req[r], req'[r], F)
    BY <2>2
  <2> HIDE DEF F
  <2> QED
    BY <2>1, <2>2, <2>3, <2>4, <2>5, ShStands, QuietData
<1>2. CASE Get(r)
  <2>1. /\ UNCHANGED <<disk, member, bad, onSb, bucket, pass, dirty, cands>>
        /\ req[r].stage = "get"
    BY <1>2 DEF Get, devices, history
  <2>2. /\ Others(r) /\ Same(req[r], req'[r], {"stage", "at", "waited"}) /\ req'[r].stage = "attach"
        /\ \A s \in Stripes : sh'[s].uptodate = sh[s].uptodate /\ sh'[s].page = sh[s].page
    BY <1>2, GetDoes
  <2> DEFINE F == {"stage", "at", "waited"}
  <2>5. "kind" \notin F /\ "may" \notin F /\ "todo" \notin F /\ Same(req[r], req'[r], F)
    BY <2>2
  <2> HIDE DEF F
  <2>3. req'[r].todo = req[r].todo
    BY <2>5, SameIs
  <2>4. req'[r].stage \notin {"land", "note", "rowland", "pick", "gen", "end"} \cup InRow
    BY <2>2 DEF InRow
  <2> QED
    BY <2>1, <2>2, <2>3, <2>4, <2>5, QuietData
<1>3. CASE Bounce(r)
  <2>1. /\ UNCHANGED <<disk, member, bad, onSb, bucket, pass, dirty, cands>>
        /\ req[r].stage = "attach"
    BY <1>3 DEF Bounce, devices, history, locks
  <2>2. /\ Others(r) /\ Same(req[r], req'[r], {"stage", "wait"}) /\ req'[r].stage = "get"
        /\ \A s \in Stripes : sh'[s].uptodate = sh[s].uptodate /\ sh'[s].page = sh[s].page
    BY <1>3, BounceDoes
  <2> DEFINE F == {"stage", "wait"}
  <2>5. "kind" \notin F /\ "may" \notin F /\ "todo" \notin F /\ Same(req[r], req'[r], F)
    BY <2>2
  <2> HIDE DEF F
  <2>3. req'[r].todo = req[r].todo
    BY <2>5, SameIs
  <2>4. req'[r].stage \notin {"land", "note", "rowland", "pick", "gen", "end"} \cup InRow
    BY <2>2 DEF InRow
  <2> QED
    BY <2>1, <2>2, <2>3, <2>4, <2>5, QuietData
<1>4. CASE Attach(r)
  <2>1. /\ UNCHANGED <<disk, member, bad, onSb, bucket, pass, dirty, cands>>
        /\ req[r].stage = "attach"
    BY <1>4 DEF Attach, devices, history, locks
  <2>2. /\ Others(r) /\ Same(req[r], req'[r], {"stage"}) /\ req'[r].stage = "handle"
        /\ \A s \in Stripes : sh'[s].uptodate = sh[s].uptodate /\ sh'[s].page = sh[s].page
    BY <1>4, AttachDoes
  <2> DEFINE F == {"stage"}
  <2>5. "kind" \notin F /\ "may" \notin F /\ "todo" \notin F /\ Same(req[r], req'[r], F)
    BY <2>2
  <2> HIDE DEF F
  <2>3. req'[r].todo = req[r].todo
    BY <2>5, SameIs
  <2>4. req'[r].stage \notin {"land", "note", "rowland", "pick", "gen", "end"} \cup InRow
    BY <2>2 DEF InRow
  <2> QED
    BY <2>1, <2>2, <2>3, <2>4, <2>5, QuietData
<1> QED
  BY <1>1, <1>2, <1>3, <1>4

\* A request that is answered.
LEMMA GoneData ==
  ASSUME NEW r \in Requests, QuiesceInv, LockInv, LockInv', Others(r), req'[r] = NoRequest,
         UNCHANGED <<disk, member, bad, onSb, bucket, pass, dirty, cands>>,
         NEW o, NEW c, Holds(o, c),
         req[r].stage \notin {"land", "note", "rowland"},
         req[r].stage \in {"ack", "sbwait"} => ~pending,
         \A s \in Stripes :
           /\ sh'[s].uptodate \subseteq sh[s].uptodate
           /\ \A i \in sh'[s].uptodate : sh'[s].page[i] = sh[s].page[i]
  PROVE  Holds(o, c)'
<1>1. req'[r].kind = "none" /\ req'[r].stage = "idle"
  BY NoRequestIs
<1>2. ReadOk(r, c)
  BY DEF Holds
<1>3. ReadOk(r, c)'
  BY <1>1, <1>2, ReadPassive DEF InRow
<1> QED
  BY <1>1, <1>3, QuietStep

LEMMA DoneData ==
  ASSUME NEW r \in Requests, QuiesceInv, LockInv, LockInv', NEW o, NEW c, Holds(o, c),
         HandleFailed(r) \/ Ack(r)
  PROVE  Holds(o, c)'
<1>1. /\ UNCHANGED <<disk, member, bad, onSb, bucket, pass, dirty, cands>>
      /\ req[r].stage \in {"handle", "ack"} /\ ~pending /\ req' = Done(r) /\ ReleaseStripe(r)
  BY DEF HandleFailed, Ack, devices, history, locks
<1>2. Shapes /\ Form(req[r]) /\ Counted(r)
  BY RequestParts
<1>3. req[r].at \in Stripes
  BY <1>1, <1>2 DEF Counted, Holding
<1>4. \A s \in Stripes : sh'[s].uptodate = sh[s].uptodate /\ sh'[s].page = sh[s].page
  BY <1>1, <1>2, <1>3, ReleaseDoes
<1>5. /\ Others(r)
      /\ \/ req'[r] = NoRequest
         \/ /\ Same(req[r], req'[r], {"stage", "todo"}) /\ req'[r].stage = "get"
            /\ req'[r].todo = req[r].todo \ {req[r].at}
  BY <1>1, <1>2, DoneDoes
<1>6. CASE req'[r] = NoRequest
  BY <1>1, <1>4, <1>5, <1>6, GoneData
<1>7. CASE /\ Same(req[r], req'[r], {"stage", "todo"}) /\ req'[r].stage = "get"
           /\ req'[r].todo = req[r].todo \ {req[r].at}
  <2> DEFINE F == {"stage", "todo"}
  <2>1. "kind" \notin F /\ "may" \notin F /\ Same(req[r], req'[r], F)
    BY <1>7
  <2> HIDE DEF F
  <2>2. req'[r].stage \notin {"land", "note", "rowland", "pick", "gen", "end"} \cup InRow
    BY <1>7 DEF InRow
  <2>3. req'[r].todo \subseteq req[r].todo
    BY <1>7
  <2> QED
    BY <1>1, <1>4, <1>5, <2>1, <2>2, <2>3, QuietData
<1> QED
  BY <1>5, <1>6, <1>7

LEMMA UnprepData ==
  ASSUME NEW r \in Requests, QuiesceInv, LockInv, LockInv', NEW o, NEW c, Holds(o, c),
         Unprep(r), req[r].stage \in Prepared,
         UNCHANGED <<disk, member, bad, onSb, bucket, pass, dirty, cands>>
  PROVE  Holds(o, c)'
<1>1. Others(r) /\ Same(req[r], req'[r], {"wait", "stage"}) /\ req'[r].stage = "get" /\ sh' = sh
  BY UnprepDoes, RequestParts
<1> DEFINE F == {"wait", "stage"}
<1>2. "kind" \notin F /\ "may" \notin F /\ "todo" \notin F /\ Same(req[r], req'[r], F)
  BY <1>1
<1> HIDE DEF F
<1>3. req'[r].todo = req[r].todo
  BY <1>2, SameIs
<1>4. /\ req'[r].stage \notin {"land", "note", "rowland", "pick", "gen", "end"} \cup InRow
      /\ req[r].stage \notin {"land", "note", "rowland", "ack", "sbwait"}
  BY <1>1 DEF InRow, Prepared
<1> QED
  BY <1>1, <1>2, <1>3, <1>4, ShStands, QuietData

LEMMA RowStageData ==
  ASSUME NEW r \in Requests, QuiesceInv, LockInv, LockInv', NEW o, NEW c, Holds(o, c),
         RowPrep(r) \/ RowFence(r) \/ RowSettled(r)
  PROVE  Holds(o, c)'
<1>1. /\ UNCHANGED <<disk, member, bad, onSb, bucket, pass, dirty, cands, sh>>
      /\ req[r].stage \in {"prep", "fence", "sbwait"} /\ (req[r].stage = "sbwait" => ~pending)
  BY DEF RowPrep, RowFence, RowSettled, devices, history, locks
<1> DEFINE F == {"stage", "missing"}
<1>2. /\ Others(r) /\ Same(req[r], req'[r], F) /\ req'[r].stage \in {"fence", "get", "lock", "rowend"}
  <2>1. CASE RowPrep(r)
    BY <2>1, RowPrepDoes, RequestParts
  <2>2. CASE RowFence(r) \/ RowSettled(r)
    <3>1. PICK x : req' = [req EXCEPT ![r].stage = x] /\ x \in {"lock", "rowend"}
      BY <2>2 DEF RowFence, RowSettled
    <3>2. Others(r) /\ Same(req[r], req'[r], {"stage"}) /\ req'[r].stage = x
      BY <3>1, StageOnly, RequestParts
    <3>3. Same(req[r], req'[r], F)
      BY <3>2, SameMore
    <3> QED
      BY <3>1, <3>2, <3>3
  <2> QED
    BY <2>1, <2>2
<1>3. "kind" \notin F /\ "may" \notin F /\ "todo" \notin F
  OBVIOUS
<1> HIDE DEF F
<1>4. req'[r].todo = req[r].todo
  BY <1>2, <1>3, SameIs
<1>5. req'[r].stage \notin {"land", "note", "rowland", "pick", "gen", "end"} \cup InRow
  BY <1>2 DEF InRow
<1> QED
  BY <1>1, <1>2, <1>3, <1>4, <1>5, ShStands, QuietData

LEMMA RowEndData ==
  ASSUME NEW r \in Requests, QuiesceInv, LockInv, LockInv', NEW o, NEW c, Holds(o, c),
         RowEnd(r) \/ ReadEnd(r)
  PROVE  Holds(o, c)'
<1>1. /\ UNCHANGED <<disk, member, bad, onSb, bucket, pass, dirty, cands, sh>>
      /\ req[r].stage \in {"rowend", "end"} /\ req' = [req EXCEPT ![r] = NoRequest]
  BY DEF RowEnd, ReadEnd, devices, history, locks
<1>2. /\ FunctionOn(req', Requests) /\ req'[r] = NoRequest
      /\ \A q \in Requests \ {r} : req'[q] = req[q]
  BY <1>1, RequestParts DEF Shapes, FunctionOn
<1>3. Others(r)
  BY <1>2, OnlyOne, RequestParts
<1> QED
  BY <1>1, <1>2, <1>3, ShStands, GoneData

LEMMA RowLockData ==
  ASSUME NEW r \in Requests, QuiesceInv, LockInv, LockInv', NEW o, NEW c, Holds(o, c),
         RowLock(r) \/ RowWalk(r)
  PROVE  Holds(o, c)'
<1>1. /\ UNCHANGED <<disk, member, bad, onSb, bucket, pass, dirty, cands>>
      /\ req[r].stage \in {"lock", "walk"}
  BY DEF RowLock, RowWalk, devices, history
<1>2. CASE Unprep(r)
  BY <1>1, <1>2, UnprepData DEF Prepared
<1>3. CASE ~Unprep(r)
  <2> DEFINE F == {"stage", "at"}
  <2>1. /\ Others(r) /\ Same(req[r], req'[r], F) /\ req'[r].stage \in {"walk", "recheck"}
        /\ \A s \in Stripes : sh'[s].uptodate \in {sh[s].uptodate, {}} /\ sh'[s].page = sh[s].page
    <3>1. CASE RowLock(r)
      BY <1>3, <3>1, RowLockDoes, RequestParts
    <3>2. CASE RowWalk(r)
      BY <1>3, <3>2, RowWalkDoes
    <3> QED
      BY <3>1, <3>2
  <2>2. "kind" \notin F /\ "may" \notin F /\ "todo" \notin F
    OBVIOUS
  <2> HIDE DEF F
  <2>3. req'[r].todo = req[r].todo
    BY <2>1, <2>2, SameIs
  <2>4. req'[r].stage \notin {"land", "note", "rowland", "pick", "gen", "end"} \cup InRow
    BY <2>1 DEF InRow
  <2>5. \A s \in Stripes :
           /\ sh'[s].uptodate \subseteq sh[s].uptodate
           /\ \A i \in sh'[s].uptodate : sh'[s].page[i] = sh[s].page[i]
    BY <2>1
  <2> QED
    BY <1>1, <2>1, <2>2, <2>3, <2>4, <2>5, QuietData
<1> QED
  BY <1>2, <1>3

-----------------------------------------------------------------------------
(* Readers of the row. *)

LEMMA AddsOne ==
  ASSUME NEW f, NEW i, NEW x, i \notin DOMAIN f
  PROVE  /\ DOMAIN Adding(f, i, x) = DOMAIN f \cup {i}
         /\ \A j \in DOMAIN f : Adding(f, i, x)[j] = f[j]
         /\ Adding(f, i, x)[i] = x
BY DEF Adding

LEMMA ReadPickData ==
  ASSUME NEW r \in Requests, QuiesceInv, LockInv, LockInv', Careful, NEW o, NEW c, Holds(o, c),
         ReadPick(r)
  PROVE  Holds(o, c)'
<1>1. /\ UNCHANGED <<disk, member, bad, onSb, bucket, pass, dirty, cands, sh>>
      /\ req[r].stage = "pick"
  BY DEF ReadPick, devices, history, locks
<1> DEFINE F == {"stage", "src"}
<1>2. Others(r) /\ Same(req[r], req'[r], F) /\ req'[r].stage \in {"gen", "get"}
  BY ReadPickDoes, RequestParts
<1>3. "kind" \notin F /\ "may" \notin F /\ "todo" \notin F /\ "got" \notin F
  OBVIOUS
<1> HIDE DEF F
<1>4. /\ req'[r].todo = req[r].todo /\ req'[r].kind = req[r].kind /\ req'[r].may = req[r].may
      /\ req'[r].got = req[r].got
  BY <1>2, <1>3, SameIs
<1>5. CASE req'[r].stage = "get"
  <2>1. req'[r].stage \notin {"land", "note", "rowland", "pick", "gen", "end"} \cup InRow
    BY <1>5 DEF InRow
  <2> QED
    BY <1>1, <1>2, <1>3, <1>4, <2>1, ShStands, QuietData
<1>6. CASE req'[r].stage = "gen"
  <2> DEFINE s == CHOOSE t \in req[r].todo : TRUE
             lost == {d \in req[r].blk : member[d] \notin {"insync", "ahead"}}
             S == {i \in Disks \ lost : Usable(s, i)}
             able == /\ Cardinality(lost) = 1
                     /\ Cardinality(FirstK(S)) = K
                     /\ req[r].blk \ lost \subseteq FirstK(S)
  <2>1. req' = IF able THEN [req EXCEPT ![r].src = FirstK(S), ![r].stage = "gen"]
                       ELSE [req EXCEPT ![r].stage = "get"]
    BY DEF ReadPick, ToStripe
  <2>2. S \in SUBSET Disks
    OBVIOUS
  <2>3. lost # {} => \E d \in req[r].blk : member[d] \notin {"insync", "ahead"}
    OBVIOUS
  <2>4. able => Cardinality(lost) = 1 /\ Cardinality(FirstK(S)) = K
    OBVIOUS
  <2> HIDE DEF S, able, lost
  <2>5. able
    BY <1>6, <2>1, RequestParts DEF Shapes, FunctionOn, RequestFields
  <2>6. req'[r].src = FirstK(S)
    BY <2>1, <2>5, RequestParts DEF Shapes, FunctionOn, RequestFields
  <2>7. Cardinality(req'[r].src) = K /\ req'[r].src \subseteq Disks
    BY <2>2, <2>4, <2>5, <2>6, FirstKIs
  <2>8. ~dirty
    <3>1. lost # {}
      BY <2>4, <2>5, FS_EmptySet
    <3>2. PICK d \in req[r].blk : member[d] \notin {"insync", "ahead"}
      BY <2>3, <3>1
    <3>3. d \in Disks
      BY RequestParts, DisksAre DEF Form
    <3>4. PICK u \in Stripes : TRUE
      BY RowAssumption
    <3>5. ~Usable(u, d)
      BY <3>2 DEF Usable
    <3> QED
      BY <3>3, <3>4, <3>5 DEF Careful
  <2>9. ReadOk(r, c)
    BY DEF Holds
  <2>10. DOMAIN req[r].got = {}
    BY <1>1, <2>9 DEF ReadOk
  <2>11. ReadOk(r, c)'
    BY <1>1, <1>4, <1>6, <2>7, <2>8, <2>9, <2>10 DEF ReadOk, InRow
  <2> QED
    BY <1>1, <1>2, <1>6, <2>11, ShStands, QuietStep
<1> QED
  BY <1>2, <1>5, <1>6

\* When no writer is in the bucket, the sources' blocks are the stripe's.
LEMMA ReadGenData ==
  ASSUME NEW r \in Requests, QuiesceInv, LockInv, LockInv', Careful, NEW o, NEW c, Holds(o, c),
         ReadGen(r)
  PROVE  Holds(o, c)'
<1>1. /\ UNCHANGED <<disk, member, bad, onSb, bucket, pass, dirty, cands, sh>>
      /\ req[r].stage = "gen"
  BY DEF ReadGen, devices, history, locks
<1> DEFINE F == {"stage", "gen0"}
<1>2. /\ Others(r) /\ Same(req[r], req'[r], F)
      /\ \/ bucket.inflight = 0 /\ req'[r].stage = "count" /\ req'[r].gen0 = bucket.gen
         \/ bucket.inflight # 0 /\ req'[r].stage = "get"
  BY ReadGenDoes, RequestParts
<1>3. "kind" \notin F /\ "may" \notin F /\ "todo" \notin F /\ "got" \notin F /\ "src" \notin F
  OBVIOUS
<1> HIDE DEF F
<1>4. /\ req'[r].todo = req[r].todo /\ req'[r].kind = req[r].kind /\ req'[r].may = req[r].may
      /\ req'[r].got = req[r].got /\ req'[r].src = req[r].src
  BY <1>2, <1>3, SameIs
<1>5. CASE req'[r].stage = "get"
  <2>1. req'[r].stage \notin {"land", "note", "rowland", "pick", "gen", "end"} \cup InRow
    BY <1>5 DEF InRow
  <2> QED
    BY <1>1, <1>2, <1>3, <1>4, <2>1, ShStands, QuietData
<1>6. CASE bucket.inflight = 0 /\ req'[r].stage = "count" /\ req'[r].gen0 = bucket.gen
  <2>1. InFlight = {}
    BY <1>6, FS_EmptySet DEF QuiesceInv, BucketCounts
  <2>2. ReadOk(r, c) /\ \A s \in Stripes : StripeOk(s, o[s], c[s])
    BY DEF Holds
  <2>3. /\ req[r].src \subseteq Disks /\ ~dirty /\ Cardinality(req[r].src) = K
        /\ DOMAIN req[r].got = {}
    BY <1>1, <2>2 DEF ReadOk
  <2>4. req[r].todo \subseteq Stripes
    BY RequestParts DEF Counted
  <2>5. ASSUME NEW s \in req[r].todo, NEW i \in req[r].src
        PROVE  disk[s][i] = Codeword(c[s])[i]
    <3>1. Usable(s, i) /\ \A q \in Requests : req[q].stage = "note" /\ req[q].at = s => i \notin req[q].failed
      BY <1>1, <1>6, <2>4 DEF Careful
    <3>2. ~Unwritten(s, i)
      <4> SUFFICES ASSUME NEW q \in Requests, Writes(q, s), i \in req[q].out \cup req[q].failed
                   PROVE  FALSE
        BY DEF Unwritten
      <4>1. req[q].stage = "note" /\ req[q].at = s
        BY <2>1 DEF Writes, InFlight
      <4>2. req[q].out = {}
        BY <4>1, RequestParts DEF Form
      <4> QED
        BY <3>1, <4>1, <4>2
    <3>3. Kept(s, i) /\ Plain(s, i)
      BY <2>3, <3>1 DEF Kept, Valid, Plain
    <3>4. s \in Stripes /\ i \in Disks
      BY <2>3, <2>4
    <3> QED
      BY <2>2, <3>2, <3>3, <3>4 DEF StripeOk
  <2>6. InFlight' = {}
    <3>1. InFlight' \subseteq InFlight
      BY <1>2, <1>6, SameInFlight
    <3> QED
      BY <2>1, <3>1
  <2>7. bucket.gen \in Nat
    BY RequestParts
  <2>8. ReadOk(r, c)'
    BY <1>1, <1>4, <1>6, <2>2, <2>3, <2>5, <2>6, <2>7 DEF ReadOk, InRow
  <2> QED
    BY <1>1, <1>2, <1>6, <2>8, ShStands, QuietStep
<1> QED
  BY <1>2, <1>5, <1>6

LEMMA ReadCountData ==
  ASSUME NEW r \in Requests, QuiesceInv, LockInv, LockInv', NEW o, NEW c, Holds(o, c),
         ReadCount(r) \/ ReadConfirm(r) \/ ReadWaits(r)
  PROVE  Holds(o, c)'
<1>1. UNCHANGED <<disk, member, bad, onSb, bucket, pass, dirty, cands, sh>>
  BY DEF ReadCount, ReadConfirm, ReadWaits, devices, history, locks
<1> DEFINE F == {"stage"}
<1>2. /\ Others(r) /\ Same(req[r], req'[r], F)
      /\ req[r].stage \in {"count", "confirm", "quiesced"}
      /\ req'[r].stage \in {"confirm", "quiesced", "reading"}
  BY ReadCountDoes, RequestParts
<1>3. /\ "kind" \notin F /\ "may" \notin F /\ "todo" \notin F /\ "got" \notin F /\ "src" \notin F
      /\ "gen0" \notin F
  OBVIOUS
<1> HIDE DEF F
<1>4. /\ req'[r].todo = req[r].todo /\ req'[r].kind = req[r].kind /\ req'[r].may = req[r].may
      /\ req'[r].got = req[r].got /\ req'[r].src = req[r].src /\ req'[r].gen0 = req[r].gen0
  BY <1>2, <1>3, SameIs
<1>5. InFlight' \subseteq InFlight
  BY <1>2, SameInFlight
<1>6. ReadOk(r, c)
  BY DEF Holds
<1>7. ReadOk(r, c)'
  <2>1. req[r].stage \in InRow /\ req'[r].stage \in InRow /\ req'[r].stage # "end"
    BY <1>2 DEF InRow
  <2> QED
    BY <1>1, <1>2, <1>4, <1>5, <1>6, <2>1 DEF ReadOk
<1> QED
  BY <1>1, <1>2, <1>7, ShStands, QuietStep

LEMMA ReadMemberData ==
  ASSUME NEW r \in Requests, NEW i \in Disks, QuiesceInv, LockInv, LockInv', NEW o, NEW c,
         Holds(o, c), ReadMember(r, i)
  PROVE  Holds(o, c)'
<1>1. UNCHANGED <<disk, member, bad, onSb, bucket, pass, dirty, cands, sh>>
  BY DEF ReadMember, devices, history, locks
<1> DEFINE F == {"got"}
<1>2. /\ Others(r) /\ Same(req[r], req'[r], F) /\ req[r].stage = "reading" /\ i \in req[r].src
      /\ \E s \in Stripes : req[r].todo = {s} /\ req'[r].got = Adding(req[r].got, i, disk[s][i])
  BY ReadMemberDoes
<1>3. /\ "kind" \notin F /\ "may" \notin F /\ "todo" \notin F /\ "stage" \notin F /\ "src" \notin F
      /\ "gen0" \notin F
  OBVIOUS
<1> HIDE DEF F
<1>4. /\ req'[r].todo = req[r].todo /\ req'[r].kind = req[r].kind /\ req'[r].may = req[r].may
      /\ req'[r].stage = req[r].stage /\ req'[r].src = req[r].src /\ req'[r].gen0 = req[r].gen0
  BY <1>2, <1>3, SameIs
<1>5. InFlight' \subseteq InFlight
  BY <1>2, <1>4, SameInFlight
<1>6. ReadOk(r, c)
  BY DEF Holds
<1>7. i \notin DOMAIN req[r].got
  BY DEF ReadMember
<1>8. PICK s \in Stripes : req[r].todo = {s} /\ req'[r].got = Adding(req[r].got, i, disk[s][i])
  BY <1>2
<1>9. /\ DOMAIN req'[r].got = DOMAIN req[r].got \cup {i}
      /\ \A j \in DOMAIN req[r].got : req'[r].got[j] = req[r].got[j]
      /\ req'[r].got[i] = disk[s][i]
  <2> DEFINE f == req[r].got
             x == disk[s][i]
             g == req'[r].got
  <2>1. g = Adding(f, i, x) /\ i \notin DOMAIN f
    BY <1>7, <1>8
  <2> HIDE DEF f, x, g
  <2>2. DOMAIN g = DOMAIN f \cup {i} /\ (\A j \in DOMAIN f : g[j] = f[j]) /\ g[i] = x
    BY <2>1, AddsOne
  <2> QED
    BY <2>2 DEF f, x, g
<1>10. req[r].gen0 = bucket.gen =>
         \A t \in req[r].todo, j \in req[r].src :
           /\ disk[t][j] = Codeword(c[t])[j]
           /\ j \in DOMAIN req'[r].got => req'[r].got[j] = Codeword(c[t])[j]
  <2> SUFFICES ASSUME req[r].gen0 = bucket.gen, NEW t \in req[r].todo, NEW j \in req[r].src
               PROVE  /\ disk[t][j] = Codeword(c[t])[j]
                      /\ j \in DOMAIN req'[r].got => req'[r].got[j] = Codeword(c[t])[j]
    OBVIOUS
  <2>1. t = s
    BY <1>8
  <2>2. /\ disk[t][j] = Codeword(c[t])[j]
        /\ j \in DOMAIN req[r].got => req[r].got[j] = Codeword(c[t])[j]
    BY <1>2, <1>6 DEF ReadOk, InRow
  <2> QED
    BY <1>9, <2>1, <2>2
<1>11. ReadOk(r, c)'
  <2>1. /\ req[r].stage \in InRow /\ req'[r].stage \in InRow /\ req'[r].stage = "reading"
    BY <1>2, <1>4 DEF InRow
  <2>2. DOMAIN req'[r].got \subseteq req[r].src
    BY <1>2, <1>6, <1>9, <2>1 DEF ReadOk
  <2>3. /\ req[r].gen0 <= bucket.gen /\ (req[r].gen0 = bucket.gen => InFlight = {})
        /\ Cardinality(req[r].src) = K /\ req[r].src \subseteq Disks /\ ~dirty
        /\ req[r].kind = "read" => \A t \in req[r].todo, d \in Data : cands[t][d] \subseteq req[r].may[d]
    BY <1>6, <2>1 DEF ReadOk
  <2> QED
    BY <1>1, <1>4, <1>5, <1>10, <2>1, <2>2, <2>3 DEF ReadOk
<1> QED
  BY <1>1, <1>2, <1>4, <1>11, ShStands, QuietStep

LEMMA ReadWorkData ==
  ASSUME NEW r \in Requests, QuiesceInv, LockInv, LockInv', NEW o,
         NEW c \in [Stripes -> [Data -> Block]], Holds(o, c), ReadWork(r)
  PROVE  Holds(o, c)'
<1>1. UNCHANGED <<disk, member, bad, onSb, bucket, pass, dirty, cands, sh>>
  BY DEF ReadWork, devices, history, locks
<1>2. /\ Others(r) /\ req[r].stage = "reading" /\ DOMAIN req[r].got = req[r].src
      /\ \/ /\ Undisturbed(r) /\ Same(req[r], req'[r], {"stage", "answer"})
            /\ req'[r].stage = "end"
            /\ req'[r].answer = [d \in req[r].blk |-> Solve(req[r].got, req[r].src)[d]]
         \/ Same(req[r], req'[r], {"stage", "retry"}) /\ req'[r].stage = "get"
  BY ReadWorkDoes, RequestParts DEF ReadWork
<1>3. CASE Same(req[r], req'[r], {"stage", "retry"}) /\ req'[r].stage = "get"
  <2> DEFINE F == {"stage", "retry"}
  <2>1. "kind" \notin F /\ "may" \notin F /\ "todo" \notin F /\ Same(req[r], req'[r], F)
    BY <1>3
  <2> HIDE DEF F
  <2>2. req'[r].stage \notin {"land", "note", "rowland", "pick", "gen", "end"} \cup InRow
    BY <1>3 DEF InRow
  <2>3. req'[r].todo = req[r].todo
    BY <2>1, SameIs
  <2> QED
    BY <1>1, <1>2, <2>1, <2>2, <2>3, ShStands, QuietData
<1>4. CASE /\ Undisturbed(r) /\ Same(req[r], req'[r], {"stage", "answer"})
           /\ req'[r].stage = "end"
           /\ req'[r].answer = [d \in req[r].blk |-> Solve(req[r].got, req[r].src)[d]]
  <2> DEFINE F == {"stage", "answer"}
  <2>1. "kind" \notin F /\ "may" \notin F /\ "todo" \notin F /\ Same(req[r], req'[r], F)
    BY <1>4
  <2> HIDE DEF F
  <2>2. req'[r].todo = req[r].todo /\ req'[r].kind = req[r].kind /\ req'[r].may = req[r].may
    BY <2>1, SameIs
  <2>3. ReadOk(r, c) /\ \A s \in Stripes : StripeOk(s, o[s], c[s])
    BY DEF Holds
  <2>4. /\ \A s \in req[r].todo, i \in req[r].src : req[r].got[i] = Codeword(c[s])[i]
        /\ Cardinality(req[r].src) = K /\ req[r].src \subseteq Disks
    BY <1>2, <1>4, <2>3 DEF ReadOk, InRow, Undisturbed
  <2>5. PICK s \in Stripes : req[r].todo = {s}
    BY <1>2, RequestParts DEF Counted, Reading
  <2>6. req[r].kind = "read"
    BY <1>2, RequestParts DEF Counted, Reading
  <2>7. Solve(req[r].got, req[r].src) = c[s]
    <3>1. \A i \in req[r].src : req[r].got[i] = Codeword(c[s])[i]
      BY <2>4, <2>5
    <3>2. c[s] \in [Data -> Block] /\ req[r].src \in SUBSET Disks
      BY <2>4
    <3> QED
      BY <2>4, <3>1, <3>2, SolveIs
  <2>8. ASSUME NEW d \in DOMAIN req'[r].answer
        PROVE  d \in Data /\ req'[r].answer[d] \in req'[r].may[d]
    <3>1. d \in req[r].blk /\ req'[r].answer[d] = c[s][d]
      BY <1>4, <2>7, <2>8
    <3>2. d \in Data
      BY <3>1, RequestParts DEF Form
    <3>3. c[s][d] \in cands[s][d]
      BY <2>3, <3>2 DEF StripeOk
    <3>4. cands[s][d] \subseteq req[r].may[d]
      BY <2>3, <2>5, <2>6, <3>2 DEF ReadOk
    <3> QED
      BY <2>2, <3>1, <3>2, <3>3, <3>4
  <2>9. ReadOk(r, c)'
    BY <1>1, <1>4, <2>2, <2>3, <2>8 DEF ReadOk, InRow
  <2> QED
    BY <1>1, <1>2, <1>4, <2>9, ShStands, QuietStep
<1> QED
  BY <1>2, <1>3, <1>4

LEMMA SubmitData ==
  ASSUME NEW r \in Requests, QuiesceInv, LockInv, LockInv', NEW o, NEW c, Holds(o, c), Submit(r)
  PROVE  Holds(o, c)'
<1>1. UNCHANGED <<disk, member, bad, onSb, bucket, pass, dirty, cands, sh>>
  BY DEF Submit, devices, locks
<1>2. /\ Others(r) /\ req[r].stage = "idle"
      /\ \/ req'[r].kind = "write" /\ req'[r].stage \in {"get", "prep"}
         \/ /\ req'[r].kind = "read" /\ req'[r].stage = "pick" /\ req'[r].got = <<>>
            /\ \E s \in Stripes : req'[r].todo = {s} /\ req'[r].may = cands[s]
  BY SubmitDoes, RequestParts
<1>3. ReadOk(r, c)'
  <2>1. CASE req'[r].kind = "write" /\ req'[r].stage \in {"get", "prep"}
    BY <2>1 DEF ReadOk, InRow
  <2>2. CASE /\ req'[r].kind = "read" /\ req'[r].stage = "pick" /\ req'[r].got = <<>>
             /\ \E s \in Stripes : req'[r].todo = {s} /\ req'[r].may = cands[s]
    <3>1. \A s \in req'[r].todo, d \in Data : cands'[s][d] \subseteq req'[r].may[d]
      BY <1>1, <2>2
    <3>2. DOMAIN req'[r].got = {}
      BY <2>2
    <3> QED
      BY <2>2, <3>1, <3>2 DEF ReadOk, InRow
  <2> QED
    BY <1>2, <2>1, <2>2
<1> QED
  BY <1>1, <1>2, <1>3, ShStands, QuietStep

-----------------------------------------------------------------------------
(* The stripe cache reads, and writes. *)

Gone(s) == {i \in Disks : ~Usable(s, i)}

\* What is left over of the members of a stripe that a handler has not given up.
LEMMA KnownEnough ==
  ASSUME LockInv, NEW s \in Stripes, NEW o, NEW c, StripeOk(s, o, c),
         Cardinality(Gone(s)) <= M
  PROVE  Cardinality(Known(s)) >= K
<1> DEFINE U == {i \in Disks : Usable(s, i)}
<1>1. U \in SUBSET Disks /\ {i \in Disks : i \notin U} = Gone(s)
  BY DEF Gone
<1>2. Known(s) \in SUBSET Disks /\ U \in SUBSET Known(s)
  BY DEF Known, StripeOk
<1> HIDE DEF U
<1>3. Cardinality(U) >= K
  BY <1>1, EnoughLeft
<1> QED
  BY <1>2, <1>3, MoreLeft

LEMMA HandleReadData ==
  ASSUME NEW r \in Requests, QuiesceInv, LockInv, LockInv', Careful, NEW o,
         NEW c \in [Stripes -> [Data -> Block]], Holds(o, c), HandleRead(r)
  PROVE  Holds(o, c)'
<1>1. UNCHANGED <<disk, member, bad, onSb, bucket, pass, dirty, cands>> /\ ~TooManyGone(r)
  BY DEF HandleRead, devices, history
<1>2. PICK s \in Stripes : s = req[r].at
  BY HandleReadDoes
<1>20. PICK filled, page :
         /\ IF req[r].blk \subseteq Known(req[r].at) THEN filled = req[r].blk
            ELSE filled = FirstK(Known(req[r].at)) \union Data
         /\ page = [i \in Disks |-> IF i \in Data \ Known(req[r].at) THEN Contents(req[r].at)[i]
                                                                    ELSE Page(req[r].at)[i]]
         /\ req'[r].answer = [d \in req[r].blk |-> page[d]]
         /\ \A t \in Stripes :
              /\ sh'[t].owner = IF t = req[r].at THEN None ELSE sh[t].owner
              /\ sh'[t].mark = sh[t].mark /\ sh'[t].held \subseteq sh[t].held
              /\ sh'[t].uptodate = IF t = req[r].at THEN sh[t].uptodate \union filled
                                                    ELSE sh[t].uptodate
              /\ sh'[t].page = IF t = req[r].at
                   THEN [i \in Disks |-> IF i \in filled THEN page[i] ELSE sh[t].page[i]]
                   ELSE sh[t].page
  BY HandleReadDoes
<1>3. /\ IF req[r].blk \subseteq Known(s) THEN filled = req[r].blk
         ELSE filled = FirstK(Known(s)) \union Data
      /\ page = [i \in Disks |-> IF i \in Data \ Known(s) THEN Contents(s)[i] ELSE Page(s)[i]]
      /\ req'[r].answer = [d \in req[r].blk |-> page[d]]
      /\ sh'[s].uptodate = sh[s].uptodate \union filled
      /\ \A i \in Disks : sh'[s].page[i] = IF i \in filled THEN page[i] ELSE sh[s].page[i]
      /\ \A t \in Stripes \ {s} : sh'[t].uptodate = sh[t].uptodate /\ sh'[t].page = sh[t].page
  <2>1. /\ req'[r].answer = [d \in req[r].blk |-> page[d]]
        /\ sh'[s].uptodate = sh[s].uptodate \union filled
        /\ sh'[s].page = [i \in Disks |-> IF i \in filled THEN page[i] ELSE sh[s].page[i]]
        /\ \A t \in Stripes \ {s} : sh'[t].uptodate = sh[t].uptodate /\ sh'[t].page = sh[t].page
    BY <1>2, <1>20
  <2>2. IF req[r].blk \subseteq Known(s) THEN filled = req[r].blk
         ELSE filled = FirstK(Known(s)) \union Data
    BY <1>2, <1>20
  <2>3. page = [i \in Disks |-> IF i \in Data \ Known(s) THEN Contents(s)[i] ELSE Page(s)[i]]
    BY <1>2, <1>20
  <2> QED
    BY <2>1, <2>2, <2>3
<1> DEFINE F == {"stage", "answer"}
<1>4. /\ Others(r) /\ Same(req[r], req'[r], F) /\ req[r].stage = "handle"
      /\ req[r].kind = "read" /\ req'[r].stage = "end"
  BY HandleReadDoes
<1>5. "kind" \notin F /\ "may" \notin F /\ "todo" \notin F
  OBVIOUS
<1> HIDE DEF F
<1>6. req'[r].todo = req[r].todo /\ req'[r].kind = req[r].kind /\ req'[r].may = req[r].may
  BY <1>4, <1>5, SameIs
<1>7. StripeOk(s, o[s], c[s]) /\ c[s] \in [Data -> Block] /\ PassOk(c) /\ ReadOk(r, c)
  BY DEF Holds
<1>8. \A q \in Requests : ~Writes(q, s)
  <2>1. ~Writes(r, s)
    BY <1>4 DEF Writes
  <2>2. \A q \in Requests \ {r} : ~Writes(q, s)
    BY <1>2, <1>4, OnlyWriter DEF Hands
  <2> QED
    BY <2>1, <2>2
<1>9. /\ \A i : ~Unwritten(s, i)
      /\ Known(s) \subseteq Disks
      /\ \A i \in Known(s) : Page(s)[i] = IF Plain(s, i) THEN Codeword(c[s])[i] ELSE disk[s][i]
      /\ Data \subseteq Known(s) \/ Cardinality(Known(s)) >= K => Contents(s) = c[s]
  BY <1>7, <1>8, ContentsAre
<1>10. req[r].blk \subseteq Data
  BY RequestParts DEF Form
<1>11. ~(req[r].blk \subseteq Known(s)) => Contents(s) = c[s]
  <2> SUFFICES ASSUME NEW d \in req[r].blk, d \notin Known(s) PROVE Contents(s) = c[s]
    OBVIOUS
  <2> DEFINE gone == {i \in Disks : ~Usable(s, i)}
  <2>1. d \in gone
    BY <1>10, DisksAre DEF Known
  <2>2. IsFiniteSet(gone) /\ Cardinality(gone) \in Nat
    <3>1. gone \in SUBSET Disks
      OBVIOUS
    <3> HIDE DEF gone
    <3> QED
      BY <3>1, DisksAre, FS_Subset, FS_CardinalityType
  <2>3. ~(Cardinality(gone) > M)
    BY <1>1, <1>2, <2>1 DEF TooManyGone
  <2>4. Cardinality(gone) <= M
    BY <2>2, <2>3, DisksAre
  <2>5. Cardinality(Known(s)) >= K
    BY <1>7, <2>4, KnownEnough DEF Gone
  <2> QED
    BY <1>9, <2>5
<1>12. ASSUME NEW i \in filled
       PROVE  i \in Disks /\ page[i] = IF Plain(s, i) THEN Codeword(c[s])[i] ELSE disk[s][i]
  <2>1. CASE req[r].blk \subseteq Known(s)
    <3>1. i \in Known(s) /\ i \in Disks
      BY <1>3, <1>9, <1>12, <2>1
    <3>2. page[i] = Page(s)[i]
      BY <1>3, <3>1
    <3> QED
      BY <1>9, <3>1, <3>2
  <2>2. CASE ~(req[r].blk \subseteq Known(s))
    <3>1. FirstK(Known(s)) \in SUBSET Known(s)
      BY <1>9, FirstKIs
    <3>2. i \in Known(s) \/ i \in Data \ Known(s)
      BY <1>3, <1>12, <2>2, <3>1
    <3>3. i \in Disks
      BY <1>9, <3>2, DisksAre
    <3>4. CASE i \in Known(s)
      <4>1. page[i] = Page(s)[i]
        BY <1>3, <3>3, <3>4
      <4> QED
        BY <1>9, <3>3, <3>4, <4>1
    <3>5. CASE i \in Data \ Known(s)
      <4>1. page[i] = c[s][i] /\ Plain(s, i)
        BY <1>3, <1>11, <2>2, <3>3, <3>5 DEF Plain
      <4>2. Codeword(c[s])[i] = c[s][i]
        BY <1>7, <3>5, CodewordIs
      <4> QED
        BY <3>3, <4>1, <4>2
    <3> QED
      BY <3>2, <3>4, <3>5
  <2> QED
    BY <2>1, <2>2
<1>13. ASSUME NEW t \in Stripes PROVE StripeOk(t, o[t], c[t])'
  <2>1. \A i \in Disks : Kept(t, i)' => Kept(t, i)
    BY <1>1, <1>4, KeptStands
  <2>2. \A i \in Disks : Plain(t, i)' <=> Plain(t, i)
    BY <1>1, PlainStands
  <2>3. ASSUME NEW q \in Requests PROVE StillWrites(q, t)
    <3>1. CASE q = r
      BY <1>4, <3>1 DEF StillWrites, Writes
    <3>2. CASE q # r
      BY <1>4, <3>2, TwinWrites DEF Others
    <3> QED
      BY <3>1, <3>2
  <2>4. ASSUME NEW i \in sh'[t].uptodate
        PROVE  \/ i \in sh[t].uptodate /\ sh'[t].page[i] = sh[t].page[i]
               \/ /\ i \in Disks
                  /\ sh'[t].page[i] = IF Plain(t, i) \/ Unwritten(t, i) THEN Codeword(c[t])[i]
                                      ELSE disk[t][i]
    <3>1. CASE t # s
      BY <1>3, <2>4, <3>1
    <3>2. CASE t = s /\ i \notin filled
      <4>1. i \in sh[s].uptodate
        BY <1>3, <2>4, <3>2
      <4>2. i \in Disks
        BY <1>7, <4>1 DEF StripeOk
      <4> QED
        BY <1>3, <3>2, <4>1, <4>2
    <3>3. CASE t = s /\ i \in filled
      <4>1. i \in Disks /\ page[i] = IF Plain(s, i) THEN Codeword(c[s])[i] ELSE disk[s][i]
        BY <1>12, <3>3
      <4>2. sh'[t].page[i] = page[i]
        BY <1>3, <3>3, <4>1
      <4> QED
        BY <1>9, <3>3, <4>1, <4>2
    <3> QED
      BY <3>1, <3>2, <3>3
  <2>5. StripeOk(t, o[t], c[t])
    BY DEF Holds
  <2> QED
    BY <1>1, <2>1, <2>2, <2>3, <2>4, <2>5, StripeStands
<1>14. PassOk(c)'
  <2>1. SamePass({"ok"}) /\ \A t, i : Plain(t, i)' => Plain(t, i)
    BY <1>1, PlainStands, RequestParts DEF SamePass, Shapes
  <2>2. pass.stage \in Claimed => pass.kind # "repair"
    BY <1>4, ClaimedUnwritten
  <2> QED
    BY <1>1, <1>7, <2>1, <2>2, PassStands
<1>15. ReadOk(r, c)'
  <2>1. ASSUME NEW d \in DOMAIN req'[r].answer
        PROVE  d \in Data /\ req'[r].answer[d] \in req'[r].may[d]
    <3>1. d \in req[r].blk /\ req'[r].answer[d] = page[d]
      BY <1>3, <2>1
    <3>2. d \in Data /\ d \in filled
      BY <1>3, <1>10, <3>1
    <3>3. page[d] = Codeword(c[s])[d]
      BY <1>12, <3>2 DEF Plain
    <3>4. page[d] = c[s][d]
      BY <1>7, <3>2, <3>3, CodewordIs
    <3>5. c[s][d] \in cands[s][d]
      BY <1>7, <3>2 DEF StripeOk
    <3>6. s \in req[r].todo
      BY <1>2, <1>4, RequestParts DEF Counted, Holding
    <3>7. cands[s][d] \subseteq req[r].may[d]
      BY <1>4, <1>7, <3>2, <3>6 DEF ReadOk
    <3> QED
      BY <1>6, <3>1, <3>2, <3>4, <3>5, <3>7
  <2> QED
    BY <1>1, <1>4, <1>6, <1>7, <2>1 DEF ReadOk, InRow
<1>16. \A q \in Requests : ReadOk(q, c)'
  <2>1. InFlight' \subseteq InFlight
    BY <1>4, SameInFlight
  <2>2. Steady(c, c)
    BY <1>1, <2>1 DEF Steady
  <2>3. \A q \in Requests \ {r} : req[q].kind = "read" => \A t \in req[q].todo, d \in Data :
           cands'[t][d] \subseteq cands[t][d] \cup req'[q].may[d]
    BY <1>1
  <2> QED
    BY <1>1, <1>4, <1>15, <2>2, <2>3, ReadersStand DEF Holds
<1> QED
  BY <1>13, <1>14, <1>16 DEF Holds

IsData(c) == c \in [Data -> Block]
Overwrites(r, c, n) ==
  IsData(n) /\ \A d \in Data : n[d] = IF d \in req[r].blk THEN req[r].val ELSE c[d]

\* What a stripe's handler computes and is to write.
LEMMA NewPageIs ==
  ASSUME NEW r \in Requests, LockInv, Careful, NEW s \in Stripes, s = req[r].at,
         NEW o, NEW c, IsData(c), StripeOk(s, o, c), \A q \in Requests : ~Writes(q, s),
         Cardinality(Gone(s)) <= M,
         NEW rmw \in BOOLEAN, rmw => ~dirty /\ req[r].blk \union Parity \subseteq Known(s),
         req[r].val \in Block
  PROVE  Overwrites(r, c, NewData(r)) /\ NewPage(r, rmw) = Codeword(NewData(r))
<1>0. c \in [Data -> Block]
  BY DEF IsData
<1>1. Cardinality(Known(s)) >= K
  BY KnownEnough
<1>2. /\ Known(s) \subseteq Disks
      /\ \A i \in Known(s) : Page(s)[i] = IF Plain(s, i) THEN Codeword(c)[i] ELSE disk[s][i]
      /\ Contents(s) = c
  BY <1>0, <1>1, ContentsAre
<1> DEFINE n == NewData(r)
<1>3. n \in [Data -> Block] /\ \A d \in Data : n[d] = IF d \in req[r].blk THEN req[r].val ELSE c[d]
  BY <1>0, <1>2 DEF NewData
<1> HIDE DEF n
<1>4. ASSUME NEW i \in Disks PROVE NewPage(r, rmw)[i] = Codeword(n)[i]
  <2> DEFINE x == Page(s)[i] + Encode(i, n) - Encode(i, c)
  <2>1. NewPage(r, rmw)[i] = IF i \in Data THEN n[i]
                             ELSE IF rmw /\ i \in Known(s) THEN x % Q ELSE Encode(i, n)
    BY <1>2 DEF NewPage, n
  <2> HIDE DEF x
  <2>2. CASE i \in Data
    BY <1>3, <2>1, <2>2, CodewordIs
  <2>3. CASE i \notin Data /\ ~(rmw /\ i \in Known(s))
    BY <1>3, <2>1, <2>3, CodewordIs, DisksAre
  <2>4. CASE i \notin Data /\ rmw /\ i \in Known(s)
    <3>1. i \in Parity
      BY <2>4, DisksAre
    <3>2. Page(s)[i] = Encode(i, c)
      <4>1. Plain(s, i)
        BY <2>4 DEF Plain
      <4> QED
        BY <1>0, <1>2, <2>4, <3>1, <4>1, CodewordIs
    <3>3. Encode(i, c) \in Block /\ Encode(i, n) \in Block
      BY <1>0, <1>3, <3>1, CodewordIs
    <3> DEFINE a == Encode(i, c)  b == Encode(i, n)
    <3>4. x = a + b - a /\ a \in Block /\ b \in Block
      BY <3>2, <3>3 DEF x
    <3>5. NewPage(r, rmw)[i] = x % Q /\ Codeword(n)[i] = b
      BY <1>3, <2>1, <2>4, <3>1, CodewordIs
    <3> HIDE DEF a, b
    <3>6. a \in Int /\ b \in Int /\ 0 <= b /\ b < Q /\ Q \in Nat /\ Q > 0
      BY <3>4, RowAssumption DEF Block
    <3>7. x = b
      BY <3>4, <3>6
    <3>8. b % Q = b
      BY <3>6
    <3> QED
      BY <3>5, <3>7, <3>8
  <2> QED
    BY <2>2, <2>3, <2>4
<1>5. NewPage(r, rmw) = [i \in Disks |-> NewPage(r, rmw)[i]]
  BY DEF NewPage
<1>6. Codeword(n) = [i \in Disks |-> Codeword(n)[i]]
  BY DEF Codeword
<1>7. NewPage(r, rmw) = Codeword(n)
  BY <1>4, <1>5, <1>6
<1> QED
  BY <1>3, <1>7 DEF n, IsData, Overwrites

\* Whose block a handler does not write, of those it computes, does not count.
LEMMA NotTarget ==
  ASSUME LockInv, ~pending, NEW r, NEW s \in Stripes, s = req[r].at,
         NEW i \in Disks, i \in req[r].blk \cup Parity, i \notin Targets(r)
  PROVE  ~Usable(s, i) /\ ~Kept(s, i)
<1>1. member[i] = "faulty" \/ <<s, i>> \in bad
  BY DEF Targets, Present
<1>2. ~Usable(s, i)
  BY <1>1 DEF Usable
<1>3. ~Recorded(s, i)
  BY <1>2 DEF LockInv, Recording
<1> QED
  BY <1>1, <1>2, <1>3 DEF Kept, Valid

LEMMA HandleWriteData ==
  ASSUME NEW r \in Requests, QuiesceInv, LockInv, LockInv', Careful,
         NEW o \in [Stripes -> [Data -> Block]], NEW c \in [Stripes -> [Data -> Block]],
         Holds(o, c), HandleWrite(r)
  PROVE  \E u, v \in [Stripes -> [Data -> Block]] : Holds(u, v)'
<1>1. UNCHANGED <<disk, member, bad, onSb, pass, dirty, pending>>
  BY DEF HandleWrite, devices
<1>2. PICK s \in Stripes : s = req[r].at
  BY HandleWriteDoes
<1>3. PICK rmw \in BOOLEAN :
        /\ rmw => ~dirty /\ req[r].blk \union Parity \subseteq Known(req[r].at)
        /\ req'[r].page = NewPage(r, rmw)
        /\ \A t \in Stripes :
             /\ sh'[t].owner = sh[t].owner /\ sh'[t].mark = sh[t].mark
             /\ sh'[t].held = sh[t].held
             /\ sh'[t].uptodate = IF t = req[r].at THEN sh[t].uptodate \union Filled(r, rmw)
                                                   ELSE sh[t].uptodate
             /\ sh'[t].page = IF t = req[r].at
                  THEN [i \in Disks |-> IF i \in Filled(r, rmw) THEN req'[r].page[i]
                                                                ELSE sh[t].page[i]]
                  ELSE sh[t].page
  BY HandleWriteDoes
<1>4. /\ rmw => ~dirty /\ req[r].blk \union Parity \subseteq Known(s)
      /\ req'[r].page = NewPage(r, rmw)
      /\ sh'[s].uptodate = sh[s].uptodate \union Filled(r, rmw)
      /\ \A i \in Disks : sh'[s].page[i] = IF i \in Filled(r, rmw) THEN req'[r].page[i] ELSE sh[s].page[i]
      /\ \A t \in Stripes \ {s} : sh'[t].uptodate = sh[t].uptodate /\ sh'[t].page = sh[t].page
  <2>1. rmw => ~dirty /\ req[r].blk \union Parity \subseteq Known(s)
    BY <1>2, <1>3
  <2>2. /\ req'[r].page = NewPage(r, rmw)
        /\ sh'[s].uptodate = sh[s].uptodate \union Filled(r, rmw)
        /\ sh'[s].page = [i \in Disks |-> IF i \in Filled(r, rmw) THEN req'[r].page[i] ELSE sh[s].page[i]]
        /\ \A t \in Stripes \ {s} : sh'[t].uptodate = sh[t].uptodate /\ sh'[t].page = sh[t].page
    BY <1>2, <1>3
  <2> QED
    BY <2>1, <2>2
<1> DEFINE F == {"stage", "out", "failed", "page"}
<1>5. /\ Others(r) /\ Same(req[r], req'[r], F) /\ req[r].stage = "handle" /\ req[r].kind = "write"
      /\ req'[r].stage = "land" /\ req'[r].out = Targets(r) /\ req'[r].failed = {}
      /\ ~pending /\ ~TooManyGone(r) /\ CountIn
  BY HandleWriteDoes
<1>6. /\ "kind" \notin F /\ "at" \notin F /\ "blk" \notin F /\ "val" \notin F
  OBVIOUS
<1> HIDE DEF F
<1>7. /\ req'[r].kind = req[r].kind /\ req'[r].at = s /\ req'[r].blk = req[r].blk
      /\ req'[r].val = req[r].val
  BY <1>2, <1>5, <1>6, SameIs
<1>8. StripeOk(s, o[s], c[s]) /\ c[s] \in [Data -> Block] /\ PassOk(c)
  BY DEF Holds
<1>9. \A q \in Requests : ~Writes(q, s)
  <2>1. ~Writes(r, s)
    BY <1>5 DEF Writes
  <2>2. \A q \in Requests \ {r} : ~Writes(q, s)
    BY <1>2, <1>5, OnlyWriter DEF Hands
  <2> QED
    BY <2>1, <2>2
<1>10. o[s] = c[s] /\ (\A i : ~Unwritten(s, i)) /\ (dirty => Known(s) = Disks)
  BY <1>8, <1>9, ContentsAre
<1>11. req[r].blk \subseteq Data /\ req[r].val \in Block
  BY RequestParts DEF Form
<1>12. Cardinality(Gone(s)) <= M
  <2> DEFINE gone == {i \in Disks : ~Usable(s, i)}
  <2>1. ~(Cardinality(gone) > M)
    BY <1>2, <1>5 DEF TooManyGone
  <2>2. gone \in SUBSET Disks
    OBVIOUS
  <2> HIDE DEF gone
  <2>3. Cardinality(gone) \in Nat
    BY <2>2, DisksAre, FS_Subset, FS_CardinalityType
  <2>4. Cardinality(gone) <= M
    BY <2>1, <2>3, DisksAre
  <2> QED
    BY <2>4 DEF gone, Gone
<1>13. /\ NewData(r) \in [Data -> Block]
       /\ \A d \in Data : NewData(r)[d] = IF d \in req[r].blk THEN req[r].val ELSE c[s][d]
       /\ NewPage(r, rmw) = Codeword(NewData(r))
  <2> DEFINE x == o[s]  y == c[s]
  <2>1. StripeOk(s, x, y) /\ IsData(y)
    BY <1>8 DEF IsData
  <2> HIDE DEF x, y
  <2>3. rmw => ~dirty /\ req[r].blk \union Parity \subseteq Known(s)
    BY <1>4
  <2>4. req[r].val \in Block
    BY <1>11
  <2>2. Overwrites(r, y, NewData(r)) /\ NewPage(r, rmw) = Codeword(NewData(r))
    BY <1>2, <1>9, <1>12, <2>1, <2>3, <2>4, NewPageIs
  <2> QED
    BY <2>2 DEF y, Overwrites, IsData
<1>14. PICK n \in [Data -> Block] :
         /\ \A d \in Data : n[d] = IF d \in req[r].blk THEN req[r].val ELSE c[s][d]
         /\ req'[r].page = Codeword(n)
  BY <1>4, <1>13
<1> DEFINE u == [o EXCEPT ![s] = c[s]]
           v == [c EXCEPT ![s] = n]
<1>15. /\ u \in [Stripes -> [Data -> Block]] /\ v \in [Stripes -> [Data -> Block]]
       /\ u[s] = c[s] /\ v[s] = n /\ \A t \in Stripes \ {s} : u[t] = o[t] /\ v[t] = c[t]
  BY <1>8
<1> HIDE DEF u, v
<1>16. \A t \in Stripes, d \in Data :
         cands'[t][d] = IF t = s /\ d \in req[r].blk THEN cands[t][d] \cup {req[r].val} ELSE cands[t][d]
  BY <1>2 DEF HandleWrite, Begin
<1>17. ASSUME NEW t \in Stripes \ {s} PROVE StripeOk(t, u[t], v[t])'
  <2>1. \A i \in Disks : Kept(t, i)' => Kept(t, i)
    BY <1>1, <1>5, KeptStands
  <2>2. \A i \in Disks : Plain(t, i)' <=> Plain(t, i)
    BY <1>1, PlainStands
  <2>3. ASSUME NEW q \in Requests PROVE StillWrites(q, t)
    <3>1. CASE q = r
      BY <1>5, <1>7, <3>1 DEF StillWrites, Writes
    <3>2. CASE q # r
      BY <1>5, <3>2, TwinWrites DEF Others
    <3> QED
      BY <3>1, <3>2
  <2>4. StripeOk(t, o[t], c[t])
    BY DEF Holds
  <2>5. \A d \in Data : cands'[t][d] = cands[t][d]
    BY <1>16
  <2>6. StripeOk(t, o[t], c[t])'
    BY <1>1, <1>4, <2>1, <2>2, <2>3, <2>4, <2>5, StripeStands
  <2> QED
    BY <1>15, <2>6
<1>18. StripeOk(s, c[s], n)'
  <2>1. \A d \in Data : cands'[s][d] = {c[s][d], n[d]}
    <3> SUFFICES ASSUME NEW d \in Data PROVE cands'[s][d] = {c[s][d], n[d]}
      OBVIOUS
    <3>1. cands[s][d] = {c[s][d]}
      BY <1>8, <1>10 DEF StripeOk
    <3> QED
      BY <1>14, <1>16, <3>1
  <2>2. ASSUME NEW q \in Requests \ {r} PROVE ~Writes(q, s)'
    BY <1>5, <1>9, TwinWrites DEF Others, StillWrites
  <2>3. Writes(r, s)'
    BY <1>5, <1>7 DEF Writes
  <2>4. \A i : Unwritten(s, i)' <=> i \in Targets(r)
    BY <1>5, <2>2, <2>3 DEF Unwritten
  <2>5. ASSUME NEW i \in Disks, Kept(s, i)', Plain(s, i)'
        PROVE  disk'[s][i] = Codeword(IF Unwritten(s, i)' THEN c[s] ELSE n)[i]
    <3>1. Kept(s, i) /\ Plain(s, i)
      BY <1>1, <1>5, <2>5, KeptStands, PlainStands
    <3>2. disk'[s][i] = Codeword(c[s])[i]
      BY <1>1, <1>8, <1>10, <3>1 DEF StripeOk
    <3>3. CASE i \in Targets(r)
      BY <2>4, <3>2, <3>3
    <3>4. CASE i \notin Targets(r)
      <4>1. i \notin req[r].blk \cup Parity
        BY <1>2, <1>5, <3>1, <3>4, NotTarget
      <4>2. i \in Data /\ n[i] = c[s][i]
        BY <1>14, <4>1, DisksAre
      <4>3. Codeword(n)[i] = Codeword(c[s])[i]
        BY <1>8, <4>2, CodewordIs
      <4> QED
        BY <2>4, <3>2, <3>4, <4>3
    <3> QED
      BY <3>3, <3>4
  <2>6. sh[s].uptodate \subseteq Disks
    BY <1>8 DEF StripeOk
  <2>7. Filled(r, rmw) \subseteq Disks
    BY <1>11, DisksAre DEF Filled
  <2>8. ASSUME NEW i \in sh'[s].uptodate
        PROVE  sh'[s].page[i] = IF Plain(s, i)' \/ Unwritten(s, i)' THEN Codeword(n)[i] ELSE disk'[s][i]
    <3>1. i \in Disks
      BY <1>4, <2>6, <2>7, <2>8
    <3>2. CASE i \in Filled(r, rmw)
      <4>1. sh'[s].page[i] = Codeword(n)[i]
        BY <1>4, <1>14, <3>1, <3>2
      <4>2. CASE dirty
        <5>1. Usable(s, i)
          BY <3>1, <4>2 DEF Careful
        <5>2. i \in Data \/ i \in Targets(r)
          BY <1>2, <1>5, <3>1, <5>1, DisksAre, NotTarget
        <5>3. Plain(s, i)' \/ Unwritten(s, i)'
          BY <2>4, <5>2 DEF Plain
        <5> QED
          BY <4>1, <5>3
      <4>3. CASE ~dirty
        <5>1. Plain(s, i)'
          BY <1>1, <4>3 DEF Plain
        <5> QED
          BY <4>1, <5>1
      <4> QED
        BY <4>2, <4>3
    <3>3. CASE i \notin Filled(r, rmw)
      <4>1. i \in Data /\ i \notin req[r].blk
        BY <3>1, <3>3, DisksAre DEF Filled
      <4>2. i \in sh[s].uptodate /\ sh'[s].page[i] = sh[s].page[i]
        BY <1>4, <2>8, <3>1, <3>3
      <4>3. Plain(s, i) /\ Plain(s, i)'
        BY <4>1 DEF Plain
      <4>4. sh[s].page[i] = Codeword(c[s])[i]
        BY <1>8, <4>2, <4>3 DEF StripeOk
      <4>5. n[i] = c[s][i]
        BY <1>14, <4>1
      <4>6. Codeword(n)[i] = Codeword(c[s])[i]
        BY <1>8, <4>1, <4>5, CodewordIs
      <4> QED
        BY <4>2, <4>3, <4>4, <4>6
    <3> QED
      BY <3>2, <3>3
  <2>9. ASSUME NEW q \in Requests, Writes(q, s)'
        PROVE  /\ req'[q].page = Codeword(n)
               /\ \A d \in Data : n[d] = IF d \in req'[q].blk THEN req'[q].val ELSE c[s][d]
    <3>1. q = r
      BY <2>2, <2>9
    <3> QED
      BY <1>7, <1>14, <3>1
  <2>10. sh'[s].uptodate \subseteq Disks
    BY <1>4, <2>6, <2>7
  <2>11. (\A q \in Requests : ~Writes(q, s)') => c[s] = n
    BY <2>3
  <2> QED
    BY <2>1, <2>5, <2>8, <2>9, <2>10, <2>11 DEF StripeOk
<1>19. \A t \in Stripes : StripeOk(t, u[t], v[t])'
  <2> SUFFICES ASSUME NEW t \in Stripes PROVE StripeOk(t, u[t], v[t])'
    OBVIOUS
  <2>1. CASE t = s
    BY <1>15, <1>18, <2>1
  <2>2. CASE t # s
    BY <1>17, <2>2
  <2> QED
    BY <2>1, <2>2
<1>20. PassOk(v)'
  <2>1. SamePass({"ok"})
    BY <1>1, RequestParts DEF SamePass, Shapes
  <2>2. pass.stage \notin Claimed
    BY <1>5, ClaimedUnwritten
  <2> QED
    BY <1>8, <2>1, <2>2, PassStands
<1>21. \A q \in Requests : ReadOk(q, v)'
  <2>1. ~budget.forever => Steady(c, v)
    <3>1. bucket.gen \in Nat
      BY RequestParts
    <3>2. ~budget.forever => bucket'.gen = bucket.gen + 1
      BY <1>5, CountInIs
    <3> QED
      BY <3>1, <3>2 DEF Steady
  <2>2. ASSUME NEW q \in Requests \ {r}, req[q].kind = "read", NEW t \in req[q].todo, NEW d \in Data
        PROVE  cands'[t][d] \subseteq cands[t][d] \cup req'[q].may[d]
    <3>1. PICK w \in Stripes : req[q].todo = {w}
      BY <2>2, RequestParts DEF Counted
    <3>2. t = w
      BY <3>1
    <3>3. CASE t = s /\ d \in req[r].blk
      <4>1. req[q].todo \subseteq {req[r].at} /\ d \in req[r].blk \cap Data
        BY <1>2, <3>1, <3>2, <3>3
      <4>2. req[r].val \in req'[q].may[d]
        BY <2>2, <4>1, HandleWriteDoes
      <4>3. cands'[t][d] = cands[t][d] \cup {req[r].val}
        BY <1>16, <3>3
      <4> QED
        BY <4>2, <4>3
    <3>4. CASE ~(t = s /\ d \in req[r].blk)
      BY <1>16, <3>1, <3>2, <3>4
    <3> QED
      BY <3>3, <3>4
  <2>3. ReadOk(r, v)'
    BY <1>5, <1>7 DEF ReadOk, InRow
  <2> QED
    BY <1>1, <1>5, <2>1, <2>2, <2>3, ReadersStand DEF Holds
<1>22. Holds(u, v)'
  BY <1>19, <1>20, <1>21 DEF Holds
<1> QED
  BY <1>15, <1>22

-----------------------------------------------------------------------------
(* Member writes land, and are noted. *)

\* One member's block of a stripe lands, or not.
LandsOn(r, s, i) ==
  \/ /\ \A j \in Disks : disk'[s][j] = IF j = i THEN req[r].page[i] ELSE disk[s][j]
     /\ req'[r].failed = req[r].failed
  \/ /\ \A j \in Disks : disk'[s][j] = disk[s][j]
     /\ req'[r].failed = req[r].failed \cup {i}

LEMMA StripeLands ==
  ASSUME NEW r \in Requests, Others(r), NEW s \in Stripes, NEW i \in Disks, NEW o, NEW c,
         StripeOk(s, o, c), Writes(r, s), Writes(r, s)',
         \A q \in Requests \ {r} : ~Writes(q, s),
         req'[r].page = req[r].page, req'[r].blk = req[r].blk, req'[r].val = req[r].val,
         i \in req[r].out, i \notin req[r].failed, req'[r].out = req[r].out \ {i},
         LandsOn(r, s, i),
         UNCHANGED <<member, bad, onSb, pass, dirty, sh, cands>>,
         \A j \in Disks : Kept(s, j)' => Kept(s, j)
  PROVE  StripeOk(s, o, c)'
<1> PICK landed \in BOOLEAN :
      /\ \A j \in Disks : disk'[s][j] = IF landed /\ j = i THEN req[r].page[i] ELSE disk[s][j]
      /\ req'[r].failed = IF landed THEN req[r].failed ELSE req[r].failed \cup {i}
  <2>1. CASE /\ \A j \in Disks : disk'[s][j] = IF j = i THEN req[r].page[i] ELSE disk[s][j]
             /\ req'[r].failed = req[r].failed
    <3>1. \A j \in Disks : disk'[s][j] = IF TRUE /\ j = i THEN req[r].page[i] ELSE disk[s][j]
      BY <2>1
    <3> QED
      BY <2>1, <3>1
  <2>2. CASE /\ \A j \in Disks : disk'[s][j] = disk[s][j]
             /\ req'[r].failed = req[r].failed \cup {i}
    <3>1. \A j \in Disks : disk'[s][j] = IF FALSE /\ j = i THEN req[r].page[i] ELSE disk[s][j]
      BY <2>2
    <3> QED
      BY <2>2, <3>1
  <2> QED
    BY <2>1, <2>2 DEF LandsOn
<1>1. \A q \in Requests \ {r} : ~Writes(q, s)'
  BY TwinWrites DEF Others, StillWrites
<1>2. ASSUME NEW j
      PROVE  /\ Unwritten(s, j) <=> j \in req[r].out \cup req[r].failed
             /\ Unwritten(s, j)' <=> j \in req'[r].out \cup req'[r].failed
  BY <1>1 DEF Unwritten
<1>3. /\ landed => \A j : Unwritten(s, j)' <=> Unwritten(s, j) /\ j # i
      /\ ~landed => \A j : Unwritten(s, j)' <=> Unwritten(s, j)
      /\ Unwritten(s, i)
  BY <1>2
<1>4. req[r].page = Codeword(c) /\ \A d \in Data : c[d] = IF d \in req[r].blk THEN req[r].val ELSE o[d]
  BY DEF StripeOk
<1>5. ASSUME NEW j \in Disks, Kept(s, j)', Plain(s, j)'
      PROVE  disk'[s][j] = Codeword(IF Unwritten(s, j)' THEN o ELSE c)[j]
  <2>1. Kept(s, j) /\ Plain(s, j)
    BY <1>5, PlainStands
  <2>2. disk[s][j] = Codeword(IF Unwritten(s, j) THEN o ELSE c)[j]
    BY <2>1 DEF StripeOk
  <2>3. CASE landed /\ j = i
    <3>1. ~(Unwritten(s, j)')
      BY <1>3, <2>3
    <3>2. disk'[s][j] = Codeword(c)[j]
      BY <1>4, <2>3
    <3> QED
      BY <3>1, <3>2
  <2>4. CASE ~(landed /\ j = i)
    <3>1. Unwritten(s, j)' <=> Unwritten(s, j)
      BY <1>3, <2>4
    <3>2. disk'[s][j] = disk[s][j]
      BY <2>4
    <3> QED
      BY <2>2, <3>1, <3>2
  <2> QED
    BY <2>3, <2>4
<1>6. ASSUME NEW j \in sh'[s].uptodate
      PROVE  sh'[s].page[j] = IF Plain(s, j)' \/ Unwritten(s, j)' THEN Codeword(c)[j] ELSE disk'[s][j]
  <2>1. j \in Disks /\ sh[s].page[j] = IF Plain(s, j) \/ Unwritten(s, j) THEN Codeword(c)[j] ELSE disk[s][j]
    BY <1>6 DEF StripeOk
  <2>2. Plain(s, j)' <=> Plain(s, j)
    BY PlainStands
  <2>3. sh'[s].page[j] = sh[s].page[j]
    OBVIOUS
  <2>4. CASE landed /\ j = i
    <3>1. sh[s].page[j] = Codeword(c)[j]
      BY <1>3, <2>1, <2>4
    <3>2. disk'[s][j] = Codeword(c)[j]
      BY <1>4, <2>1, <2>4
    <3> QED
      BY <2>3, <3>1, <3>2
  <2>5. CASE ~(landed /\ j = i)
    <3>1. Unwritten(s, j)' <=> Unwritten(s, j)
      BY <1>3, <2>5
    <3>2. disk'[s][j] = disk[s][j]
      BY <2>1, <2>5
    <3> QED
      BY <2>1, <2>2, <2>3, <3>1, <3>2
  <2> QED
    BY <2>4, <2>5
<1>7. ASSUME NEW q \in Requests, Writes(q, s)'
      PROVE  /\ req'[q].page = Codeword(c)
             /\ \A d \in Data : c[d] = IF d \in req'[q].blk THEN req'[q].val ELSE o[d]
  <2>1. q = r
    BY <1>1, <1>7
  <2> QED
    BY <1>4, <2>1
<1>8. /\ \A d \in Data : cands'[s][d] = {o[d], c[d]}
      /\ sh'[s].uptodate \subseteq Disks
  BY DEF StripeOk
<1> QED
  BY <1>5, <1>6, <1>7, <1>8 DEF StripeOk

\* A writer that has bios out: every reader sees it in the bucket.
LEMMA WritingSeen ==
  ASSUME NEW r \in Requests, QuiesceInv, LockInv, LockInv', Others(r), NEW o, NEW c, NEW e, Holds(o, c),
         req[r].stage \in {"land", "rowland"}, bucket'.gen = bucket.gen, dirty' = dirty,
         \A t \in Stripes, d \in Data : cands'[t][d] \subseteq cands[t][d],
         req'[r].stage \notin InRow \cup {"pick", "gen", "end"}, req'[r].kind # "read"
  PROVE  \A q \in Requests : ReadOk(q, e)'
<1>1. Steady(c, e)
  BY DEF Steady, InFlight
<1>2. ReadOk(r, e)'
  BY DEF ReadOk, InRow
<1>3. \A q \in Requests \ {r} : req[q].kind = "read" => \A t \in req[q].todo, d \in Data :
         cands'[t][d] \subseteq cands[t][d] \cup req'[q].may[d]
  BY RequestParts DEF Counted
<1> QED
  BY <1>1, <1>2, <1>3, ReadersStand DEF Holds

LEMMA LandData ==
  ASSUME NEW r \in Requests, NEW i \in Disks, QuiesceInv, LockInv, LockInv', NEW o, NEW c,
         Holds(o, c), Land(r, i)
  PROVE  Holds(o, c)'
<1>1. UNCHANGED <<member, bad, onSb, pass, dirty, sh, cands>>
  BY DEF Land, history
<1> DEFINE F == {"out", "failed", "stage"}
<1>2. /\ Others(r) /\ Same(req[r], req'[r], F) /\ req[r].stage = "land"
      /\ i \in req[r].out /\ req'[r].out = req[r].out \ {i} /\ req[r].at \in Stripes
      /\ req'[r].stage \in {"note", "land"}
      /\ \/ /\ req'[r].failed = req[r].failed
            /\ disk' = [disk EXCEPT ![req[r].at][i] = req[r].page[i]]
         \/ req'[r].failed = req[r].failed \cup {i} /\ disk' = disk
      /\ bucket'.gen = bucket.gen
  <2>1. bucket' = bucket \/ bucket' = [bucket EXCEPT !.inflight = @ - 1]
    BY LandDoes
  <2>2. bucket'.gen = bucket.gen
    BY <2>1, RequestParts DEF Shapes
  <2> QED
    BY <2>2, LandDoes
<1>3. /\ "kind" \notin F /\ "at" \notin F /\ "blk" \notin F /\ "val" \notin F /\ "page" \notin F
  OBVIOUS
<1> HIDE DEF F
<1>4. /\ req'[r].kind = req[r].kind /\ req'[r].at = req[r].at /\ req'[r].blk = req[r].blk
      /\ req'[r].val = req[r].val /\ req'[r].page = req[r].page
  BY <1>2, <1>3, SameIs
<1>5. req[r].kind = "write" /\ i \notin req[r].failed
  BY <1>2, RequestParts DEF Counted, Writers, Form
<1>6. PICK s \in Stripes : s = req[r].at
  BY <1>2
<1>7. \A t \in Stripes, j \in Disks : Kept(t, j)' => Kept(t, j)
  BY <1>1, <1>2, KeptStands
<1>8. LandsOn(r, s, i) /\ \A t \in Stripes \ {s} : disk'[t] = disk[t]
  <2>1. CASE /\ req'[r].failed = req[r].failed
             /\ disk' = [disk EXCEPT ![req[r].at][i] = req[r].page[i]]
    <3>1. DOMAIN disk = Stripes /\ \A t \in Stripes : DOMAIN disk[t] = Disks
      BY DEF LockInv, Shaped
    <3>2. \A j \in Disks : disk'[s][j] = IF j = i THEN req[r].page[i] ELSE disk[s][j]
      BY <1>6, <2>1, <3>1
    <3>3. \A t \in Stripes \ {s} : disk'[t] = disk[t]
      BY <1>6, <2>1, <3>1
    <3> QED
      BY <2>1, <3>2, <3>3 DEF LandsOn
  <2>2. CASE req'[r].failed = req[r].failed \cup {i} /\ disk' = disk
    BY <2>2 DEF LandsOn
  <2> QED
    BY <1>2, <2>1, <2>2
<1>9. StripeOk(s, o[s], c[s])'
  <2>1. StripeOk(s, o[s], c[s])
    BY DEF Holds
  <2>2. Writes(r, s) /\ Writes(r, s)'
    BY <1>2, <1>4, <1>6 DEF Writes
  <2>3. \A q \in Requests \ {r} : ~Writes(q, s)
    BY <1>2, <1>6, OnlyWriter DEF Hands
  <2>4. \A j \in Disks : Kept(s, j)' => Kept(s, j)
    BY <1>7
  <2> QED
    BY <1>1, <1>2, <1>4, <1>5, <1>8, <2>1, <2>2, <2>3, <2>4, StripeLands
<1>10. ASSUME NEW t \in Stripes \ {s} PROVE StripeOk(t, o[t], c[t])'
  <2>1. \A j \in Disks : Plain(t, j)' <=> Plain(t, j)
    BY <1>1, PlainStands
  <2>2. ASSUME NEW q \in Requests PROVE StillWrites(q, t)
    <3>1. CASE q = r
      BY <1>2, <1>4, <1>6, <3>1 DEF StillWrites, Writes
    <3>2. CASE q # r
      BY <1>2, <3>2, TwinWrites DEF Others
    <3> QED
      BY <3>1, <3>2
  <2>3. StripeOk(t, o[t], c[t]) /\ disk'[t] = disk[t]
    BY <1>8 DEF Holds
  <2> QED
    BY <1>1, <1>7, <2>1, <2>2, <2>3, StripeStands
<1>11. PassOk(c)'
  <2>1. SamePass({"ok"})
    BY <1>1, RequestParts DEF SamePass, Shapes
  <2>2. pass.stage \notin Claimed /\ PassOk(c)
    BY <1>2, ClaimedUnwritten DEF Holds
  <2> QED
    BY <2>1, <2>2, PassStands
<1>12. \A q \in Requests : ReadOk(q, c)'
  BY <1>1, <1>2, <1>4, <1>5, WritingSeen DEF InRow
<1> QED
  BY <1>9, <1>10, <1>11, <1>12 DEF Holds

LEMMA RowLandData ==
  ASSUME NEW r \in Requests, NEW i \in Disks, QuiesceInv, LockInv, LockInv', NEW o, NEW c,
         Holds(o, c), RowLand(r, i)
  PROVE  Holds(o, c)'
<1>1. UNCHANGED <<member, bad, onSb, pass, dirty, sh, cands, bucket>>
  BY DEF RowLand, locks, history
<1> DEFINE F == {"out", "failed"}
<1>2. /\ Others(r) /\ Same(req[r], req'[r], F) /\ req[r].stage = "rowland"
      /\ i \in req[r].out /\ req'[r].out = req[r].out \ {i}
      /\ \/ /\ req'[r].failed = req[r].failed
            /\ disk' = [s \in Stripes |-> [disk[s] EXCEPT ![i] = req[r].page[i]]]
         \/ req'[r].failed = req[r].failed \cup {i} /\ disk' = disk
  BY RowLandDoes, RequestParts
<1>3. /\ "kind" \notin F /\ "stage" \notin F /\ "blk" \notin F /\ "val" \notin F /\ "page" \notin F
      /\ "missing" \notin F
  OBVIOUS
<1> HIDE DEF F
<1>4. /\ req'[r].kind = req[r].kind /\ req'[r].stage = req[r].stage /\ req'[r].blk = req[r].blk
      /\ req'[r].val = req[r].val /\ req'[r].page = req[r].page /\ req'[r].missing = req[r].missing
  BY <1>2, <1>3, SameIs
<1>5. req[r].kind = "write" /\ i \notin req[r].failed
  BY <1>2, RequestParts DEF Counted, Writers, Fenced, Form
<1>6. ASSUME NEW s \in Stripes PROVE StripeOk(s, o[s], c[s])'
  <2>1. StripeOk(s, o[s], c[s])
    BY DEF Holds
  <2>2. Writes(r, s) /\ Writes(r, s)'
    BY <1>2, <1>4 DEF Writes
  <2>3. \A q \in Requests \ {r} : ~Writes(q, s)
    BY <1>2, OnlyRowWriter
  <2>4. \A j \in Disks : Kept(s, j)' => Kept(s, j)
    BY <1>1, <1>2, <1>4, KeptStands
  <2>5. LandsOn(r, s, i)
    <3>1. CASE /\ req'[r].failed = req[r].failed
               /\ disk' = [t \in Stripes |-> [disk[t] EXCEPT ![i] = req[r].page[i]]]
      <4>1. DOMAIN disk[s] = Disks
        BY DEF LockInv, Shaped
      <4>2. disk'[s] = [disk[s] EXCEPT ![i] = req[r].page[i]]
        BY <3>1
      <4>3. \A j \in Disks : disk'[s][j] = IF j = i THEN req[r].page[i] ELSE disk[s][j]
        BY <4>1, <4>2
      <4> QED
        BY <3>1, <4>3 DEF LandsOn
    <3>2. CASE req'[r].failed = req[r].failed \cup {i} /\ disk' = disk
      BY <3>2 DEF LandsOn
    <3> QED
      BY <1>2, <3>1, <3>2
  <2> QED
    BY <1>1, <1>2, <1>4, <1>5, <2>1, <2>2, <2>3, <2>4, <2>5, StripeLands
<1>7. PassOk(c)'
  <2>1. SamePass({"ok"})
    BY <1>1, RequestParts DEF SamePass, Shapes
  <2>2. pass.stage \notin Claimed /\ PassOk(c)
    BY <1>2, ClaimedUnwritten DEF Holds
  <2> QED
    BY <2>1, <2>2, PassStands
<1>8. \A q \in Requests : ReadOk(q, c)'
  BY <1>1, <1>2, <1>4, <1>5, WritingSeen DEF InRow
<1> QED
  BY <1>6, <1>7, <1>8 DEF Holds

\* A member whose write failed counts no more; the others go on counting.
LEMMA PunishKept ==
  ASSUME NEW r \in Requests, LockInv, Others(r), SamePass({"ok"}), onSb' = onSb, bad \subseteq bad',
         \A j \in Disks : member'[j] = member[j] \/ member'[j] = "faulty",
         NEW s \in Stripes, NEW i \in Disks, Kept(s, i)',
         req[r].stage \notin {"ack", "sbwait"},
         req[r].stage = "rowland" /\ i \in req[r].missing =>
           req'[r].stage = "sbwait" /\ i \in req'[r].missing
  PROVE  Kept(s, i)
<1>1. Usable(s, i)' => Usable(s, i)
  BY DEF Usable
<1>2. /\ pass'.kind = pass.kind /\ pass'.stage = pass.stage /\ pass'.target = pass.target
      /\ pass'.left = pass.left
  BY SamePassIs
<1>3. Valid(s, i)' => Valid(s, i)
  BY <1>1, <1>2 DEF Valid
<1>4. Recorded(s, i)' => Recorded(s, i)
  BY DEF Recorded
<1>5. ASSUME NEW q \in Requests,
             \/ req[q].stage = "ack" /\ req[q].at = s /\ i \in req[q].failed
             \/ req[q].stage = "rowland" /\ i \in req[q].missing
             \/ req[q].stage = "sbwait" /\ i \in req[q].failed \cup req[q].missing
      PROVE  Excused(s, i)'
  <2>1. CASE q = r
    BY <1>5, <2>1 DEF Excused
  <2>2. CASE q # r
    <3>1. Twin(req[q], req'[q])
      BY <2>2 DEF Others
    <3> QED
      BY <1>5, <3>1, TwinIs DEF Excused
  <2> QED
    BY <2>1, <2>2
<1>6. Excused(s, i) => Excused(s, i)'
  BY <1>5 DEF Excused
<1> QED
  BY <1>3, <1>4, <1>6 DEF Kept

LEMMA PunishedNotKept ==
  ASSUME NEW r \in Requests, NEW s \in Stripes, NEW i \in Disks, i \in req'[r].failed,
         member'[i] = "faulty" \/ <<s, i>> \in bad',
         \/ req'[r].stage = "ack" /\ req'[r].at = s
         \/ req'[r].stage = "sbwait"
  PROVE  ~Kept(s, i)' /\ ~Usable(s, i)'
<1>1. ~Usable(s, i)'
  BY DEF Usable
<1>2. ~Valid(s, i)'
  BY <1>1 DEF Valid
<1>3. Excused(s, i)'
  BY DEF Excused
<1> QED
  BY <1>1, <1>2, <1>3 DEF Kept

\* The last of a stripe's writes: from now on it holds the new data.
LEMMA StripeNoted ==
  ASSUME NEW r \in Requests, NEW s \in Stripes, NEW o, NEW c, StripeOk(s, o, c), Writes(r, s),
         req[r].out = {}, \A q \in Requests \ {r} : ~Writes(q, s), \A q \in Requests : ~Writes(q, s)',
         \A d \in Data : cands'[s][d] = {c[d]}, disk' = disk, sh' = sh, dirty' = dirty,
         \A i \in Disks : Kept(s, i)' => Kept(s, i) /\ i \notin req[r].failed,
         dirty => req[r].failed = {} /\ pass' = pass
  PROVE  StripeOk(s, c, c)'
<1>1. \A i : Unwritten(s, i) <=> i \in req[r].failed
  BY DEF Unwritten
<1>2. \A i : ~(Unwritten(s, i)')
  BY DEF Unwritten
<1>3. \A i : Plain(s, i)' <=> Plain(s, i)
  BY DEF Plain, Mended
<1>4. ASSUME NEW i \in Disks, Kept(s, i)', Plain(s, i)'
      PROVE  disk'[s][i] = Codeword(IF Unwritten(s, i)' THEN c ELSE c)[i]
  BY <1>1, <1>3, <1>4 DEF StripeOk
<1>5. ASSUME NEW i \in sh'[s].uptodate
      PROVE  sh'[s].page[i] = IF Plain(s, i)' \/ Unwritten(s, i)' THEN Codeword(c)[i] ELSE disk'[s][i]
  <2>1. sh[s].page[i] = IF Plain(s, i) \/ Unwritten(s, i) THEN Codeword(c)[i] ELSE disk[s][i]
    BY <1>5 DEF StripeOk
  <2>2. CASE dirty
    BY <1>1, <1>2, <1>3, <2>1, <2>2
  <2>3. CASE ~dirty
    BY <1>3, <2>1, <2>3 DEF Plain
  <2> QED
    BY <2>2, <2>3
<1>6. /\ \A d \in Data : cands'[s][d] = {c[d], c[d]}
      /\ sh'[s].uptodate \subseteq Disks
  BY DEF StripeOk
<1> QED
  BY <1>4, <1>5, <1>6 DEF StripeOk

LEMMA PlainNoted ==
  ASSUME dirty' = dirty, dirty => pass' = pass, NEW s, NEW i
  PROVE  Plain(s, i)' <=> Plain(s, i)
BY DEF Plain, Mended

LEMMA NoteData ==
  ASSUME NEW r \in Requests, QuiesceInv, LockInv, LockInv', Careful',
         NEW o \in [Stripes -> [Data -> Block]], NEW c \in [Stripes -> [Data -> Block]],
         Holds(o, c), Note(r)
  PROVE  \E u, v \in [Stripes -> [Data -> Block]] : Holds(u, v)'
<1>1. /\ UNCHANGED <<disk, onSb, sh, bucket, dirty>>
      /\ Punish({req[r].at}, req[r].failed)
      /\ \A t \in Stripes, d \in Data :
           cands'[t][d] = IF t = req[r].at /\ d \in req[r].blk THEN {req[r].val} ELSE cands[t][d]
  BY DEF Note, Landed, locks
<1> DEFINE F == {"stage"}
<1>2. /\ Others(r) /\ Same(req[r], req'[r], F) /\ req[r].stage = "note" /\ req'[r].stage = "ack"
  BY NoteDoes, RequestParts
<1>3. /\ "kind" \notin F /\ "at" \notin F /\ "failed" \notin F
  OBVIOUS
<1> HIDE DEF F
<1>4. req'[r].kind = req[r].kind /\ req'[r].at = req[r].at /\ req'[r].failed = req[r].failed
  BY <1>2, <1>3, SameIs
<1>5. req[r].kind = "write" /\ req[r].at \in Stripes /\ req[r].failed \in SUBSET Disks /\ req[r].out = {}
  BY <1>2, RequestParts DEF Counted, Writers, Holding, Form
<1>6. /\ SamePass({"ok"}) /\ (req[r].failed = {} => pass' = pass) /\ bad \subseteq bad'
      /\ \A i \in Disks : member'[i] = member[i] \/ member'[i] = "faulty"
      /\ \A i \in req[r].failed : member'[i] = "faulty" \/ <<req[r].at, i>> \in bad'
  <2> DEFINE S == {req[r].at}  E == req[r].failed
  <2>1. Punish(S, E) /\ E \in SUBSET Disks
    BY <1>1, <1>5
  <2>2. req[r].at \in S
    OBVIOUS
  <2> HIDE DEF S, E
  <2>3. /\ SamePass({"ok"}) /\ (E = {} => pass' = pass) /\ bad \subseteq bad'
        /\ \A i \in Disks : member'[i] = member[i] \/ member'[i] = "faulty"
        /\ \A t \in S, i \in E : member'[i] = "faulty" \/ <<t, i>> \in bad'
    BY <2>1, PunishDoes, RequestParts
  <2> QED
    BY <2>2, <2>3 DEF E
<1>7. PICK s \in Stripes : s = req[r].at
  BY <1>5
<1>8. \A i \in req[r].failed : i \in Disks /\ ~Kept(s, i)' /\ ~Usable(s, i)'
  <2> SUFFICES ASSUME NEW i \in req[r].failed PROVE i \in Disks /\ ~Kept(s, i)' /\ ~Usable(s, i)'
    OBVIOUS
  <2>1. i \in Disks /\ i \in req'[r].failed /\ req'[r].at = s
    BY <1>4, <1>5, <1>7
  <2>2. member'[i] = "faulty" \/ <<s, i>> \in bad'
    BY <1>6, <1>7
  <2> QED
    BY <1>2, <2>1, <2>2, PunishedNotKept
<1>9. dirty => req[r].failed = {} /\ pass' = pass
  <2>1. dirty => \A i \in Disks : Usable(s, i)'
    BY <1>1 DEF Careful
  <2> QED
    BY <1>6, <1>8, <2>1
<1>10. \A t \in Stripes, i \in Disks : Kept(t, i)' => Kept(t, i)
  BY <1>1, <1>2, <1>6, PunishKept
<1>11. Writes(r, s) /\ \A q \in Requests : ~Writes(q, s)'
  <2>1. ~Writes(r, s)'
    BY <1>2 DEF Writes
  <2>2. ASSUME NEW q \in Requests \ {r} PROVE ~Writes(q, s)'
    <3>1. ~Writes(q, s)
      BY <1>2, <1>7, OnlyWriter DEF Hands
    <3>2. Twin(req[q], req'[q])
      BY <1>2 DEF Others
    <3> QED
      BY <3>1, <3>2, TwinWrites DEF StillWrites
  <2> QED
    BY <1>2, <1>7, <2>1, <2>2 DEF Writes
<1>12. StripeOk(s, o[s], c[s])
  BY DEF Holds
<1>13. \A d \in Data : cands'[s][d] = {c[s][d]}
  <2> SUFFICES ASSUME NEW d \in Data PROVE cands'[s][d] = {c[s][d]}
    OBVIOUS
  <2>1. /\ cands[s][d] = {o[s][d], c[s][d]}
        /\ c[s][d] = IF d \in req[r].blk THEN req[r].val ELSE o[s][d]
    BY <1>11, <1>12 DEF StripeOk
  <2>2. cands'[s][d] = IF d \in req[r].blk THEN {req[r].val} ELSE cands[s][d]
    BY <1>1, <1>7
  <2> QED
    BY <2>1, <2>2
<1>14. StripeOk(s, c[s], c[s])'
  <2> DEFINE x == o[s]  y == c[s]
  <2>1. StripeOk(s, x, y) /\ \A d \in Data : cands'[s][d] = {y[d]}
    BY <1>12, <1>13
  <2>2. \A q \in Requests \ {r} : ~Writes(q, s)
    BY <1>2, <1>7, OnlyWriter DEF Hands
  <2>3. \A i \in Disks : Kept(s, i)' => Kept(s, i) /\ i \notin req[r].failed
    BY <1>8, <1>10
  <2> HIDE DEF x, y
  <2>4. StripeOk(s, y, y)'
    BY <1>1, <1>5, <1>9, <1>11, <2>1, <2>2, <2>3, StripeNoted
  <2> QED
    BY <2>4 DEF y
<1>15. ASSUME NEW t \in Stripes \ {s} PROVE StripeOk(t, o[t], c[t])'
  <2>1. \A i \in Disks : Kept(t, i)' => Kept(t, i)
    BY <1>10
  <2>2. \A i \in Disks : Plain(t, i)' <=> Plain(t, i)
    BY <1>1, <1>9, PlainNoted
  <2>3. ASSUME NEW q \in Requests PROVE StillWrites(q, t)
    <3>1. CASE q = r
      BY <1>2, <1>4, <1>7, <3>1 DEF StillWrites, Writes
    <3>2. CASE q # r
      BY <1>2, <3>2, TwinWrites DEF Others
    <3> QED
      BY <3>1, <3>2
  <2>4. StripeOk(t, o[t], c[t]) /\ \A d \in Data : cands'[t][d] = cands[t][d]
    BY <1>1, <1>7 DEF Holds
  <2> QED
    BY <1>1, <2>1, <2>2, <2>3, <2>4, StripeStands
<1> DEFINE u == [o EXCEPT ![s] = c[s]]
<1>16. u \in [Stripes -> [Data -> Block]] /\ u[s] = c[s] /\ \A t \in Stripes \ {s} : u[t] = o[t]
  OBVIOUS
<1> HIDE DEF u
<1>17. \A t \in Stripes : StripeOk(t, u[t], c[t])'
  <2> SUFFICES ASSUME NEW t \in Stripes PROVE StripeOk(t, u[t], c[t])'
    OBVIOUS
  <2>1. CASE t = s
    BY <1>14, <1>16, <2>1
  <2>2. CASE t # s
    BY <1>15, <1>16, <2>2
  <2> QED
    BY <2>1, <2>2
<1>18. PassOk(c)'
  <2>1. pass.stage \notin Claimed /\ PassOk(c)
    BY <1>2, ClaimedUnwritten DEF Holds
  <2> QED
    BY <1>6, <2>1, PassStands
<1>19. \A q \in Requests : ReadOk(q, c)'
  <2>1. InFlight' \subseteq InFlight
    BY <1>2, SameInFlight
  <2>2. Steady(c, c)
    BY <1>1, <2>1 DEF Steady
  <2>3. ReadOk(r, c)'
    BY <1>2, <1>4, <1>5 DEF ReadOk, InRow
  <2>4. ASSUME NEW t \in Stripes, NEW d \in Data PROVE cands'[t][d] \subseteq cands[t][d]
    <3>1. CASE t = s
      <4>1. c[s][d] \in cands[s][d]
        BY <1>12 DEF StripeOk
      <4> QED
        BY <1>13, <3>1, <4>1
    <3>2. CASE t # s
      BY <1>1, <1>7, <3>2
    <3> QED
      BY <3>1, <3>2
  <2>5. \A q \in Requests \ {r} : req[q].kind = "read" => \A t \in req[q].todo, d \in Data :
           cands'[t][d] \subseteq cands[t][d] \cup req'[q].may[d]
    BY <2>4, RequestParts DEF Counted
  <2> QED
    BY <1>1, <1>2, <2>2, <2>3, <2>5, ReadersStand DEF Holds
<1>20. Holds(u, c)'
  BY <1>17, <1>18, <1>19 DEF Holds
<1> QED
  BY <1>16, <1>20

LEMMA RowGoData ==
  ASSUME NEW r \in Requests, QuiesceInv, LockInv, LockInv',
         NEW o \in [Stripes -> [Data -> Block]], NEW c \in [Stripes -> [Data -> Block]],
         Holds(o, c), RowGo(r), quiesce = "off"
  PROVE  \E u, v \in [Stripes -> [Data -> Block]] : Holds(u, v)'
<1>1. UNCHANGED <<disk, member, bad, onSb, pass, dirty, sh>>
  BY DEF RowGo, devices
<1> DEFINE F == {"stage", "out", "page"}
<1>2. /\ Others(r) /\ Same(req[r], req'[r], F)
      /\ req[r].stage = "recheck" /\ req'[r].stage = "rowland"
      /\ req'[r].out = Disks \ req[r].missing
      /\ req'[r].page = Codeword([d \in Data |-> req[r].val])
      /\ \A q \in Requests \ {r} : req[q].kind = "read" /\ req[q].todo \subseteq Stripes =>
           \A d \in Data : req[r].val \in req'[q].may[d]
      /\ CountIn /\ Begin(Stripes, Data, req[r].val)
  BY RowGoDoes, RequestParts
<1>3. /\ "kind" \notin F /\ "blk" \notin F /\ "val" \notin F /\ "missing" \notin F /\ "failed" \notin F
  OBVIOUS
<1> HIDE DEF F
<1>4. /\ req'[r].kind = req[r].kind /\ req'[r].blk = req[r].blk /\ req'[r].val = req[r].val
      /\ req'[r].missing = req[r].missing /\ req'[r].failed = req[r].failed
  BY <1>2, <1>3, SameIs
<1>5. /\ req[r].kind = "write" /\ req[r].blk = Data /\ req[r].val \in Block /\ req[r].failed = {}
      /\ req[r].missing \subseteq Disks
  BY <1>2, RequestParts DEF Counted, Writers, Fenced, Form, RowStages, Prepared
<1>6. PICK n \in [Data -> Block] : n = [d \in Data |-> req[r].val]
  BY <1>5
<1>7. (\A d \in Data : n[d] = req[r].val) /\ req'[r].page = Codeword(n)
  BY <1>2, <1>6
<1>8. \A s \in Stripes, q \in Requests : ~Writes(q, s)
  <2> SUFFICES ASSUME NEW s \in Stripes, NEW q \in Requests PROVE ~Writes(q, s)
    OBVIOUS
  <2>1. CASE q = r
    BY <1>2, <2>1 DEF Writes
  <2>2. CASE q # r
    BY <1>2, <2>2, OnlyRowWriter
  <2> QED
    BY <2>1, <2>2
<1>9. \A s \in Stripes, d \in Data : cands'[s][d] = cands[s][d] \cup {req[r].val}
  BY <1>2 DEF Begin
<1>10. \A i \in req[r].missing : member[i] = "faulty"
  BY <1>2, RequestParts DEF RequestOk, Missed, Prepared
<1>11. ASSUME NEW s \in Stripes PROVE StripeOk(s, c[s], n)'
  <2>1. StripeOk(s, o[s], c[s]) /\ c[s] = o[s] /\ \A i : ~Unwritten(s, i)
    BY <1>8 DEF Holds, StripeOk, Unwritten
  <2>2. \A d \in Data : cands'[s][d] = {c[s][d], n[d]}
    <3> SUFFICES ASSUME NEW d \in Data PROVE cands'[s][d] = {c[s][d], n[d]}
      OBVIOUS
    <3>1. cands[s][d] = {c[s][d]}
      BY <2>1 DEF StripeOk
    <3> QED
      BY <1>7, <1>9, <3>1
  <2>3. Writes(r, s)'
    BY <1>2 DEF Writes
  <2>4. ASSUME NEW q \in Requests \ {r} PROVE ~Writes(q, s)'
    BY <1>2, <1>8, TwinWrites DEF Others, StillWrites
  <2>5. \A i : Unwritten(s, i)' <=> i \in Disks \ req[r].missing
    <3>1. req'[r].out \cup req'[r].failed = Disks \ req[r].missing
      BY <1>2, <1>4, <1>5
    <3> QED
      BY <2>3, <2>4, <3>1 DEF Unwritten
  <2>6. ASSUME NEW i \in Disks, Kept(s, i)', Plain(s, i)'
        PROVE  disk'[s][i] = Codeword(IF Unwritten(s, i)' THEN c[s] ELSE n)[i]
    <3>1. i \notin req[r].missing
      <4> SUFFICES ASSUME i \in req[r].missing PROVE FALSE
        OBVIOUS
      <4>1. member'[i] = "faulty"
        BY <1>1, <1>10
      <4>2. ~Valid(s, i)'
        BY <4>1 DEF Valid, Usable
      <4>3. Excused(s, i)'
        BY <1>2, <1>4 DEF Excused
      <4> QED
        BY <2>6, <4>2, <4>3 DEF Kept
    <3>2. Kept(s, i) /\ Plain(s, i)
      <4>1. Usable(s, i)' <=> Usable(s, i)
        BY <1>1 DEF Usable
      <4>2. Valid(s, i)' => Valid(s, i)
        BY <1>1, <4>1 DEF Valid
      <4>3. Recorded(s, i)' => Recorded(s, i)
        BY <1>1 DEF Recorded
      <4>4. ASSUME NEW q \in Requests,
                   \/ req[q].stage = "ack" /\ req[q].at = s /\ i \in req[q].failed
                   \/ req[q].stage = "rowland" /\ i \in req[q].missing
                   \/ req[q].stage = "sbwait" /\ i \in req[q].failed \cup req[q].missing
            PROVE  Excused(s, i)'
        <5>1. CASE q = r
          BY <1>2, <4>4, <5>1
        <5>2. CASE q # r
          BY <1>2, <4>4, <5>2, TwinIs DEF Others, Excused
        <5> QED
          BY <5>1, <5>2
      <4>5. Excused(s, i) => Excused(s, i)'
        BY <4>4 DEF Excused
      <4>6. Kept(s, i)
        BY <2>6, <4>2, <4>3, <4>5 DEF Kept
      <4> QED
        BY <1>1, <2>6, <4>6, PlainStands
    <3>3. disk'[s][i] = Codeword(c[s])[i]
      BY <1>1, <2>1, <3>2 DEF StripeOk
    <3> QED
      BY <2>5, <3>1, <3>3
  <2>7. sh'[s].uptodate = {}
    BY <1>1, <1>2, RequestParts DEF RequestOk, Owner, Clean
  <2>8. ASSUME NEW q \in Requests, Writes(q, s)'
        PROVE  /\ req'[q].page = Codeword(n)
               /\ \A d \in Data : n[d] = IF d \in req'[q].blk THEN req'[q].val ELSE c[s][d]
    <3>1. q = r
      BY <2>4, <2>8
    <3> QED
      BY <1>4, <1>5, <1>7, <3>1
  <2> QED
    BY <2>2, <2>3, <2>6, <2>7, <2>8 DEF StripeOk
<1> DEFINE v == [s \in Stripes |-> n]
<1>12. v \in [Stripes -> [Data -> Block]] /\ \A s \in Stripes : v[s] = n
  OBVIOUS
<1> HIDE DEF v
<1>13. \A s \in Stripes : StripeOk(s, c[s], v[s])'
  BY <1>11, <1>12
<1>14. PassOk(v)'
  <2>1. pass.stage \notin Claimed /\ PassOk(c)
    BY <1>2, ClaimedUnwritten DEF Holds
  <2>2. SamePass({"ok"})
    BY <1>1, RequestParts DEF SamePass, Shapes
  <2> QED
    BY <2>1, <2>2, PassStands
<1>15. \A q \in Requests : ReadOk(q, v)'
  <2>1. ~budget.forever => Steady(c, v)
    <3>1. bucket.gen \in Nat
      BY RequestParts
    <3>2. ~budget.forever => bucket'.gen = bucket.gen + 1
      BY <1>2, CountInIs
    <3> QED
      BY <3>1, <3>2 DEF Steady
  <2>2. \A q \in Requests \ {r} : req[q].kind = "read" => \A t \in req[q].todo, d \in Data :
           cands'[t][d] \subseteq cands[t][d] \cup req'[q].may[d]
    BY <1>2, <1>9, RequestParts DEF Counted
  <2>3. ReadOk(r, v)'
    BY <1>2, <1>4, <1>5 DEF ReadOk, InRow
  <2> QED
    BY <1>1, <1>2, <2>1, <2>2, <2>3, ReadersStand DEF Holds
<1>16. Holds(c, v)'
  BY <1>13, <1>14, <1>15 DEF Holds
<1> QED
  BY <1>12, <1>16

LEMMA RowDoneData ==
  ASSUME NEW r \in Requests, QuiesceInv, LockInv, LockInv', Careful',
         NEW o \in [Stripes -> [Data -> Block]], NEW c \in [Stripes -> [Data -> Block]],
         Holds(o, c), RowDone(r)
  PROVE  Holds(c, c)'
<1>1. /\ UNCHANGED <<disk, onSb, sh, dirty>> /\ Punish(Stripes, req[r].failed)
      /\ bucket' = [bucket EXCEPT !.inflight = @ - 1]
      /\ \A t \in Stripes, d \in Data :
           cands'[t][d] = IF d \in Data THEN {req[r].val} ELSE cands[t][d]
  BY DEF RowDone, Landed
<1> DEFINE F == {"wait", "stage"}
<1>2. /\ Others(r) /\ Same(req[r], req'[r], F) /\ req[r].stage = "rowland" /\ req[r].out = {}
      /\ \/ req'[r].stage = "sbwait"
         \/ req'[r].stage = "rowend" /\ req[r].failed \cup req[r].missing = {}
  BY RowDoneDoes, RequestParts
<1>3. /\ "kind" \notin F /\ "missing" \notin F /\ "failed" \notin F
  OBVIOUS
<1> HIDE DEF F
<1>4. /\ req'[r].kind = req[r].kind /\ req'[r].missing = req[r].missing
      /\ req'[r].failed = req[r].failed
  BY <1>2, <1>3, SameIs
<1>5. /\ req[r].kind = "write" /\ req[r].failed \in SUBSET Disks /\ req[r].blk = Data
  BY <1>2, RequestParts DEF Counted, Writers, Fenced, Form, RowStages
<1>6. /\ SamePass({"ok"}) /\ (req[r].failed = {} => pass' = pass) /\ bad \subseteq bad'
      /\ \A i \in Disks : member'[i] = member[i] \/ member'[i] = "faulty"
      /\ \A s \in Stripes, i \in req[r].failed : member'[i] = "faulty" \/ <<s, i>> \in bad'
  BY <1>1, <1>5, PunishDoes, RequestParts
<1>7. \A s \in Stripes, i \in req[r].failed : i \in Disks /\ ~Kept(s, i)' /\ ~Usable(s, i)'
  <2> SUFFICES ASSUME NEW s \in Stripes, NEW i \in req[r].failed
               PROVE  i \in Disks /\ ~Kept(s, i)' /\ ~Usable(s, i)'
    OBVIOUS
  <2>1. i \in Disks /\ i \in req'[r].failed /\ req'[r].stage = "sbwait"
    BY <1>2, <1>4, <1>5
  <2>2. member'[i] = "faulty" \/ <<s, i>> \in bad'
    BY <1>6
  <2> QED
    BY <2>1, <2>2, PunishedNotKept
<1>8. dirty => req[r].failed = {} /\ pass' = pass
  <2>1. dirty => \A s \in Stripes, i \in Disks : Usable(s, i)'
    BY <1>1 DEF Careful
  <2>2. PICK s \in Stripes : TRUE
    BY RowAssumption
  <2> QED
    BY <1>6, <1>7, <2>1, <2>2
<1>9. \A s \in Stripes, i \in Disks : Kept(s, i)' => Kept(s, i)
  <2> SUFFICES ASSUME NEW s \in Stripes, NEW i \in Disks, Kept(s, i)' PROVE Kept(s, i)
    OBVIOUS
  <2>1. req[r].stage = "rowland" /\ i \in req[r].missing => req'[r].stage = "sbwait" /\ i \in req'[r].missing
    BY <1>2, <1>4
  <2> QED
    BY <1>1, <1>2, <1>6, <2>1, PunishKept
<1>10. \A s \in Stripes, q \in Requests \ {r} : ~Writes(q, s)
  BY <1>2, OnlyRowWriter
<1>11. \A s \in Stripes, q \in Requests : ~Writes(q, s)'
  <2> SUFFICES ASSUME NEW s \in Stripes, NEW q \in Requests PROVE ~Writes(q, s)'
    OBVIOUS
  <2>1. CASE q = r
    BY <1>2, <2>1 DEF Writes
  <2>2. CASE q # r
    BY <1>2, <1>10, <2>2, TwinWrites DEF Others, StillWrites
  <2> QED
    BY <2>1, <2>2
<1>12. ASSUME NEW s \in Stripes, NEW d \in Data PROVE cands'[s][d] = {c[s][d]}
  <2>1. Writes(r, s) /\ StripeOk(s, o[s], c[s])
    BY <1>2 DEF Writes, Holds
  <2>2. c[s][d] = req[r].val
    BY <1>5, <2>1 DEF StripeOk
  <2> QED
    BY <1>1, <2>2
<1>13. ASSUME NEW s \in Stripes PROVE StripeOk(s, c[s], c[s])'
  <2> DEFINE x == o[s]  y == c[s]
  <2>1. StripeOk(s, x, y) /\ \A d \in Data : cands'[s][d] = {y[d]}
    BY <1>12 DEF Holds
  <2>2. Writes(r, s)
    BY <1>2 DEF Writes
  <2>3. \A i \in Disks : Kept(s, i)' => Kept(s, i) /\ i \notin req[r].failed
    BY <1>7, <1>9
  <2> HIDE DEF x, y
  <2>4. StripeOk(s, y, y)'
    BY <1>1, <1>2, <1>8, <1>10, <1>11, <2>1, <2>2, <2>3, StripeNoted
  <2> QED
    BY <2>4 DEF y
<1>14. PassOk(c)'
  <2>1. pass.stage \notin Claimed /\ PassOk(c)
    BY <1>2, ClaimedUnwritten DEF Holds
  <2> QED
    BY <1>6, <2>1, PassStands
<1>15. \A q \in Requests : ReadOk(q, c)'
  <2>1. bucket'.gen = bucket.gen
    BY <1>1, RequestParts DEF Shapes
  <2>2. \A t \in Stripes, d \in Data : cands'[t][d] \subseteq cands[t][d]
    <3> SUFFICES ASSUME NEW t \in Stripes, NEW d \in Data PROVE cands'[t][d] \subseteq cands[t][d]
      OBVIOUS
    <3>1. c[t][d] \in cands[t][d]
      BY DEF Holds, StripeOk
    <3> QED
      BY <1>12, <3>1
  <2>3. req'[r].stage \notin InRow \cup {"pick", "gen", "end"} /\ req'[r].kind # "read"
    BY <1>2, <1>4, <1>5 DEF InRow
  <2> QED
    BY <1>1, <1>2, <2>1, <2>2, <2>3, WritingSeen
<1> QED
  BY <1>13, <1>14, <1>15 DEF Holds

-----------------------------------------------------------------------------
(* The pass, and md's steps. *)

\* Readers and a step of nobody's that writes no block but a stripe's own.
LEMMA ReadersStay ==
  ASSUME QuiesceInv, LockInv, LockInv', Others(Sync), UNCHANGED <<bucket, cands>>, dirty' => dirty,
         NEW o, NEW c, Holds(o, c),
         \A s \in Stripes, i \in Disks : disk'[s][i] \in {disk[s][i], Codeword(c[s])[i]}
  PROVE  \A q \in Requests : ReadOk(q, c)'
<1> DEFINE r == Sync
<1>1. r \notin Requests /\ Others(r)
  BY RowAssumption
<1> HIDE DEF r
<1>2. InFlight' \subseteq InFlight
  BY <1>1, SameInFlight
<1>3. Steady(c, c)
  BY <1>2 DEF Steady
<1>4. \A q \in Requests : ReadOk(q, c)
  BY DEF Holds
<1>5. \A q \in Requests \ {r} : req[q].kind = "read" => \A t \in req[q].todo, d \in Data :
         cands'[t][d] \subseteq cands[t][d] \cup req'[q].may[d]
  OBVIOUS
<1> QED
  BY <1>1, <1>3, <1>4, <1>5, ReadersStand

LEMMA NobodyWrites ==
  ASSUME QuiesceInv, LockInv, LockInv', Others(Sync), UNCHANGED <<disk, bucket, cands>>,
         dirty' => dirty, NEW o, NEW c, Holds(o, c),
         \A s \in Stripes, i \in Disks : Kept(s, i)' => Kept(s, i),
         \A s \in Stripes, i \in Disks : Plain(s, i)' <=> Plain(s, i),
         \A s \in Stripes :
           /\ sh'[s].uptodate \subseteq sh[s].uptodate
           /\ \A i \in sh'[s].uptodate : sh'[s].page[i] = sh[s].page[i],
         PassOk(c)'
  PROVE  Holds(o, c)'
<1>1. \A q \in Requests : ReadOk(q, c)'
  BY ReadersStay
<1>2. ASSUME NEW s \in Stripes PROVE StripeOk(s, o[s], c[s])'
  <2>1. \A q \in Requests : StillWrites(q, s)
    BY TwinWrites, RowAssumption DEF Others
  <2>2. StripeOk(s, o[s], c[s])
    BY DEF Holds
  <2> QED
    BY <2>1, <2>2, StripeStands
<1> QED
  BY <1>1, <1>2 DEF Holds

\* A row that a pass has claimed, or is to claim, is as it was.
LEMMA QuietPass ==
  ASSUME QuiesceInv, LockInv, LockInv', Others(Sync),
         UNCHANGED <<disk, member, bad, onSb, bucket, cands, dirty>>,
         NEW o, NEW c, Holds(o, c), pass.stage \notin {"stripes", "end"},
         pass'.stage = "stripes" => pass'.left = Stripes, pass'.stage = "end" => ~pass'.ok,
         \A s \in Stripes :
           /\ sh'[s].uptodate \subseteq sh[s].uptodate
           /\ \A i \in sh'[s].uptodate : sh'[s].page[i] = sh[s].page[i],
         PassOk(c)'
  PROVE  Holds(o, c)'
<1>1. ASSUME NEW s \in Stripes, NEW i \in Disks, Kept(s, i)' PROVE Kept(s, i)
  <2>1. Usable(s, i)' <=> Usable(s, i)
    BY DEF Usable
  <2>2. Valid(s, i)' => Valid(s, i)
    BY <2>1 DEF Valid
  <2>3. Recorded(s, i)' => Recorded(s, i)
    BY DEF Recorded
  <2>4. Excused(s, i) => Excused(s, i)'
    BY TwinIs, RowAssumption DEF Excused, Others
  <2> QED
    BY <1>1, <2>2, <2>3, <2>4 DEF Kept
<1>2. ASSUME NEW s \in Stripes, NEW i \in Disks PROVE Plain(s, i)' <=> Plain(s, i)
  BY DEF Plain, Mended
<1> QED
  BY <1>1, <1>2, NobodyWrites

LEMMA SourcesAre ==
  /\ Sources \subseteq Disks
  /\ Cardinality(Sources) = K + M => Sources = Disks
<1>1. Sources \subseteq Disks
  <2> DEFINE fit == {i \in Disks : member[i] = "insync" /\ \A s \in Stripes : <<s, i>> \notin bad}
  <2>1. fit \subseteq Disks
    OBVIOUS
  <2>2. Sources = IF pass.kind = "repair" THEN fit
                  ELSE IF pass.target \in Parity THEN fit \intersect Data
                  ELSE FirstK(fit \ {pass.target})
    BY DEF Sources
  <2> HIDE DEF fit
  <2>3. FirstK(fit \ {pass.target}) \in SUBSET (fit \ {pass.target})
    BY <2>1, FirstKIs
  <2> QED
    BY <2>1, <2>2, <2>3
<1>2. IsFiniteSet(Disks) /\ Cardinality(Disks) = K + M
  BY DisksAre
<1> DEFINE S == Sources
<1>3. S \in SUBSET Disks
  BY <1>1
<1> HIDE DEF S
<1>4. Cardinality(S) = Cardinality(Disks) => S = Disks
  BY <1>2, <1>3, FS_Subset
<1> QED
  BY <1>1, <1>2, <1>4 DEF S

LEMMA PassPickData ==
  ASSUME QuiesceInv, LockInv, LockInv', NEW o, NEW c, Holds(o, c), PassFence \/ PassPick
  PROVE  Holds(o, c)'
<1>1. UNCHANGED <<disk, member, bad, onSb, bucket, cands, dirty, sh, req>>
  BY DEF PassFence, PassPick, devices, locks, history
<1>2. Others(Sync)
  BY <1>1, NobodyElse DEF QuiesceInv
<1>3. CASE PassFence
  <2>1. pass.stage = "fence" /\ pass'.stage = "pick"
    BY <1>3, PassFenceDoes DEF QuiesceInv
  <2>2. PassOk(c)'
    BY <2>1 DEF PassOk
  <2> QED
    BY <1>1, <1>2, <2>1, <2>2, QuietPass
<1>4. CASE PassPick
  <2>1. /\ pass.stage = "pick"
        /\ \/ pass'.stage = "end" /\ ~pass.ok /\ SamePass({"stage"})
           \/ pass'.stage = "stripes" /\ SamePass({"stage"})
           \/ /\ pass'.stage = "claim" /\ SamePass({"stage", "members", "got"})
              /\ pass'.members = Sources /\ pass'.got = <<>>
              /\ Cardinality(Sources) = (IF pass.kind = "repair" THEN K + M ELSE K)
    BY <1>4, PassPickDoes DEF QuiesceInv
  <2>2. pass'.ok = pass.ok /\ pass'.left = pass.left /\ pass'.kind = pass.kind
    BY <2>1, SamePassIs
  <2>3. pass.left = Stripes
    BY <2>1 DEF LockInv, PassForm
  <2>4. PassOk(c)'
    <3>1. CASE pass'.stage \in {"end", "stripes"}
      BY <3>1 DEF PassOk
    <3>2. CASE /\ pass'.stage = "claim" /\ pass'.members = Sources /\ pass'.got = <<>>
               /\ Cardinality(Sources) = (IF pass.kind = "repair" THEN K + M ELSE K)
      <4>1. /\ pass'.members \subseteq Disks
            /\ IF pass'.kind = "repair" THEN pass'.members = Disks ELSE Cardinality(pass'.members) = K
        BY <2>2, <3>2, SourcesAre
      <4>2. DOMAIN pass'.got = {}
        BY <3>2
      <4> QED
        BY <3>2, <4>1, <4>2 DEF PassOk
    <3> QED
      BY <2>1, <3>1, <3>2
  <2>5. pass'.stage = "stripes" => pass'.left = Stripes
    BY <2>2, <2>3
  <2>6. pass'.stage = "end" => ~pass'.ok
    BY <2>1, <2>2
  <2> QED
    BY <1>1, <1>2, <2>1, <2>4, <2>5, <2>6, QuietPass
<1> QED
  BY <1>3, <1>4

\* The pass gives the row back.
LEMMA GivesBackData ==
  ASSUME QuiesceInv, LockInv, LockInv', NEW o, NEW c, Holds(o, c), NEW g \in {"pick", "stripes"},
         GivesBack(g), g = "stripes" => pass.left = Stripes,
         UNCHANGED <<disk, member, bad, onSb, bucket, cands, dirty>>,
         pass.stage \notin {"stripes", "end"}
  PROVE  Holds(o, c)'
<1>1. /\ Others(Sync)
      /\ \A s \in Stripes : sh'[s].uptodate = sh[s].uptodate /\ sh'[s].page = sh[s].page
  BY PassReleaseDoes DEF GivesBack, QuiesceInv
<1>2. pass'.stage = g /\ pass'.left = pass.left
  BY SamePassIs DEF GivesBack
<1>3. PassOk(c)'
  BY <1>2 DEF PassOk
<1> QED
  BY <1>1, <1>2, <1>3, QuietPass

LEMMA PassFailsData ==
  ASSUME QuiesceInv, LockInv, LockInv', NEW o, NEW c, Holds(o, c), PassFails
  PROVE  Holds(o, c)'
<1>1. UNCHANGED <<disk, member, bad, onSb, bucket, cands, dirty>>
  BY DEF PassFails, devices, locks, history
<1>2. pass.stage \in {"read", "write"} /\ GivesBack("stripes")
  BY PassFailsDoes DEF QuiesceInv
<1>3. pass.left = Stripes
  BY <1>2 DEF LockInv, PassForm
<1> QED
  BY <1>1, <1>2, <1>3, GivesBackData

LEMMA PassClaimData ==
  ASSUME QuiesceInv, LockInv, LockInv', Careful, NEW o, NEW c, Holds(o, c), PassClaim
  PROVE  Holds(o, c)'
<1>1. UNCHANGED <<disk, member, bad, onSb, bucket, cands, dirty>> /\ pass.stage = "claim"
  BY DEF PassClaim, devices, locks, history
<1>2. CASE GivesBack("pick")
  BY <1>1, <1>2, GivesBackData
<1>3. CASE ~GivesBack("pick")
  <2>1. /\ ~Locked /\ req' = req /\ SamePass({"stage", "claimed"})
        /\ pass'.stage = IF pass'.claimed # Stripes THEN "claim"
                         ELSE IF pass.kind = "repair" THEN "recheck" ELSE "read"
        /\ \A t \in Stripes : sh'[t].uptodate = sh[t].uptodate /\ sh'[t].page = sh[t].page
    BY <1>3, PassClaimDoes
  <2>2. PICK s \in Stripes : sh[s].owner = None /\ pass'.claimed = pass.claimed \cup {s}
    BY <1>3, PassClaimDoes
  <2>3. /\ pass'.kind = pass.kind /\ pass'.members = pass.members /\ pass'.got = pass.got
    BY <2>1, SamePassIs
  <2>4. Others(Sync)
    BY <2>1, NobodyElse DEF QuiesceInv
  <2>5. ASSUME pass'.claimed = Stripes, NEW t \in Stripes, NEW q \in Requests PROVE ~Writes(q, t)
    <3>1. req[q].stage # "rowland"
      BY <2>1, RowAssumption DEF Locked, LockInv, RequestOk, Owner, Owning
    <3>2. ASSUME req[q].stage \in {"land", "note"}, req[q].at = t PROVE FALSE
      <4>1. req[q].kind = "write" /\ sh[t].owner = q
        BY <3>2, RequestParts DEF Counted, Writers, RequestOk, Owner, Hands
      <4>2. t # s
        BY <2>2, <4>1, RowAssumption
      <4>3. t \in pass.claimed
        BY <2>2, <2>5, <4>2
      <4> QED
        BY <3>2, <4>1, <4>3, RequestParts DEF RequestOk, Bounced, Hands
    <3> QED
      BY <3>1, <3>2 DEF Writes
  <2>6. PassOk(c) /\ \A t \in Stripes : StripeOk(t, o[t], c[t])
    BY DEF Holds
  <2>7. ASSUME pass'.claimed = Stripes, NEW t \in Stripes, NEW i \in pass.members, Plain(t, i)'
        PROVE  disk'[t][i] = Codeword(c[t])[i]
    <3>1. i \in Disks /\ Usable(t, i)
      BY <1>1, <2>6 DEF PassOk, Careful
    <3>2. Kept(t, i) /\ ~Unwritten(t, i)
      BY <2>5, <2>7, <3>1 DEF Kept, Valid, Unwritten
    <3>3. Plain(t, i)
      BY <1>1, <2>1, <2>7 DEF Plain, Mended
    <3> QED
      BY <1>1, <2>6, <3>1, <3>2, <3>3 DEF StripeOk
  <2>8. PassOk(c)'
    <3>1. /\ pass'.members \subseteq Disks /\ DOMAIN pass'.got = {}
          /\ IF pass'.kind = "repair" THEN pass'.members = Disks ELSE Cardinality(pass'.members) = K
      BY <1>1, <2>3, <2>6 DEF PassOk
    <3>2. pass'.stage \in {"recheck", "read"} =>
            \A t \in Stripes, i \in pass'.members : Plain(t, i)' => disk'[t][i] = Codeword(c[t])[i]
      BY <2>1, <2>3, <2>7
    <3>3. pass'.stage # "write"
      BY <2>1
    <3> QED
      BY <3>1, <3>2, <3>3 DEF PassOk
  <2>9. pass'.stage \notin {"stripes", "end"}
    BY <2>1
  <2> QED
    BY <1>1, <2>1, <2>4, <2>8, <2>9, QuietPass
<1> QED
  BY <1>2, <1>3

LEMMA PassReadData ==
  ASSUME QuiesceInv, LockInv, LockInv', NEW o, NEW c, Holds(o, c),
         PassRecheck \/ \E i \in Disks : PassRead(i)
  PROVE  Holds(o, c)'
<1>1. /\ UNCHANGED <<disk, member, bad, onSb, bucket, cands, dirty>> /\ PassOk(c)
      /\ pass.stage \in {"recheck", "read"}
  BY DEF PassRecheck, PassRead, devices, locks, history, Holds
<1>2. CASE GivesBack("pick")
  BY <1>1, <1>2, GivesBackData
<1>3. CASE PassRecheck /\ ~GivesBack("pick")
  <2>1. /\ pass.stage = "recheck" /\ pass'.stage = "read" /\ SamePass({"stage"})
        /\ sh' = sh /\ req' = req
    BY <1>3, PassRecheckDoes DEF QuiesceInv
  <2>2. /\ pass'.kind = pass.kind /\ pass'.members = pass.members /\ pass'.got = pass.got
    BY <2>1, SamePassIs
  <2>3. \A s, i : Plain(s, i)' => Plain(s, i)
    BY <1>1, <2>1 DEF Plain, Mended
  <2>4. PassOk(c)'
    BY <1>1, <2>1, <2>2, <2>3 DEF PassOk
  <2>5. Others(Sync)
    BY <2>1, NobodyElse DEF QuiesceInv
  <2> QED
    BY <1>1, <2>1, <2>4, <2>5, QuietPass
<1>4. ASSUME NEW i \in Disks, PassRead(i) PROVE Holds(o, c)'
  <2> DEFINE x == [s \in Stripes |-> disk[s][i]]
  <2>1. /\ pass.stage = "read" /\ i \in pass.members \ DOMAIN pass.got /\ SamePass({"got"})
        /\ pass'.got = Adding(pass.got, i, x) /\ sh' = sh /\ req' = req
    BY <1>4, PassReadDoes DEF QuiesceInv
  <2>2. \A s \in Stripes : x[s] = disk[s][i]
    OBVIOUS
  <2> HIDE DEF x
  <2>3. /\ pass'.kind = pass.kind /\ pass'.members = pass.members /\ pass'.stage = pass.stage
    BY <2>1, SamePassIs
  <2>4. /\ DOMAIN pass'.got = DOMAIN pass.got \cup {i} /\ pass'.got[i] = x
        /\ \A j \in DOMAIN pass.got : pass'.got[j] = pass.got[j]
    <3> DEFINE f == pass.got  g == pass'.got
    <3>1. g = Adding(f, i, x) /\ i \notin DOMAIN f
      BY <2>1
    <3> HIDE DEF f, g
    <3>2. /\ DOMAIN Adding(f, i, x) = DOMAIN f \cup {i}
          /\ \A j \in DOMAIN f : Adding(f, i, x)[j] = f[j]
          /\ Adding(f, i, x)[i] = x
      BY <3>1 DEF Adding
    <3>3. DOMAIN g = DOMAIN f \cup {i} /\ g[i] = x /\ \A j \in DOMAIN f : g[j] = f[j]
      BY <3>1, <3>2
    <3> QED
      BY <3>3 DEF f, g
  <2>5. \A s, j : Plain(s, j)' => Plain(s, j)
    BY <1>1, <2>1, <2>3 DEF Plain, Mended
  <2>6. /\ DOMAIN pass.got \subseteq pass.members
        /\ \A j \in DOMAIN pass.got, s \in Stripes : pass.got[j][s] = disk[s][j]
    BY <1>1, <2>1 DEF PassOk
  <2>7. /\ DOMAIN pass'.got \subseteq pass'.members
        /\ \A j \in DOMAIN pass'.got, s \in Stripes : pass'.got[j][s] = disk'[s][j]
    <3>1. ASSUME NEW j \in DOMAIN pass'.got, NEW s \in Stripes PROVE pass'.got[j][s] = disk'[s][j]
      <4>1. CASE j = i
        BY <1>1, <2>2, <2>4, <4>1
      <4>2. CASE j # i
        BY <1>1, <2>4, <2>6, <3>1, <4>2
      <4> QED
        BY <4>1, <4>2
    <3>2. DOMAIN pass'.got \subseteq pass'.members
      BY <2>1, <2>3, <2>4, <2>6
    <3> QED
      BY <3>1, <3>2
  <2>8. PassOk(c)'
    <3>1. /\ pass'.members \subseteq Disks
          /\ IF pass'.kind = "repair" THEN pass'.members = Disks ELSE Cardinality(pass'.members) = K
          /\ \A s \in Stripes, j \in pass'.members : Plain(s, j)' => disk'[s][j] = Codeword(c[s])[j]
      BY <1>1, <2>1, <2>3, <2>5 DEF PassOk
    <3>2. pass'.stage = "read"
      BY <2>1, <2>3
    <3> QED
      BY <2>7, <3>1, <3>2 DEF PassOk
  <2>9. Others(Sync)
    BY <2>1, NobodyElse DEF QuiesceInv
  <2> QED
    BY <1>1, <2>1, <2>3, <2>8, <2>9, QuietPass
<1> QED
  BY <1>2, <1>3, <1>4

\* What a pass over the row decodes, or finds, is the row's data.
LEMMA PassDataIs ==
  ASSUME LockInv, NEW c \in [Stripes -> [Data -> Block]], PassOk(c), pass.stage = "read",
         DOMAIN pass.got = pass.members, NEW s \in Stripes
  PROVE  PassData[s] = c[s] /\ \A i \in pass.members : Column(s)[i] = disk[s][i]
<1>1. /\ pass.members \subseteq Disks
      /\ IF pass.kind = "repair" THEN pass.members = Disks ELSE Cardinality(pass.members) = K
      /\ \A i \in pass.members : pass.got[i][s] = disk[s][i]
      /\ \A i \in pass.members : Plain(s, i) => disk[s][i] = Codeword(c[s])[i]
  BY DEF PassOk
<1>2. \A i \in pass.members : Column(s)[i] = disk[s][i]
  BY <1>1 DEF Column
<1>3. CASE pass.kind = "repair"
  <2>1. \A d \in Data : Column(s)[d] = c[s][d]
    <3> SUFFICES ASSUME NEW d \in Data PROVE Column(s)[d] = c[s][d]
      OBVIOUS
    <3>1. d \in pass.members /\ Plain(s, d)
      BY <1>1, <1>3, DisksAre DEF Plain
    <3>2. Column(s)[d] = Codeword(c[s])[d]
      BY <1>1, <1>2, <3>1
    <3> QED
      BY <3>2, CodewordIs
  <2>2. PassData[s] = [d \in Data |-> Column(s)[d]]
    BY <1>3 DEF PassData
  <2>3. c[s] \in [Data -> Block]
    OBVIOUS
  <2> QED
    BY <1>2, <2>1, <2>2, <2>3
<1>4. CASE pass.kind # "repair"
  <2>1. ~dirty
    BY <1>4 DEF LockInv, Bounded, PassForm
  <2>2. \A i \in pass.members : Column(s)[i] = Codeword(c[s])[i]
    BY <1>1, <1>2, <2>1 DEF Plain
  <2>3. Solve(Column(s), pass.members) = c[s]
    <3>1. c[s] \in [Data -> Block] /\ pass.members \in SUBSET Disks /\ Cardinality(pass.members) = K
      BY <1>1, <1>4
    <3> QED
      BY <2>2, <3>1, SolveIs
  <2> QED
    BY <1>2, <1>4, <2>3 DEF PassData
<1> QED
  BY <1>3, <1>4

LEMMA PassComputeData ==
  ASSUME QuiesceInv, LockInv, LockInv', NEW o, NEW c \in [Stripes -> [Data -> Block]],
         Holds(o, c), PassCompute
  PROVE  Holds(o, c)'
<1>1. /\ UNCHANGED <<disk, member, bad, onSb, bucket, cands, dirty, req>> /\ PassOk(c)
  BY DEF PassCompute, devices, locks, history, Holds
<1>2. /\ pass.stage = "read" /\ DOMAIN pass.got = pass.members
      /\ SamePass({"stage", "got", "out"}) /\ pass'.stage = "write"
      /\ pass'.got = [s \in Stripes |-> Codeword(PassData[s])] /\ pass'.out = PassOut
      /\ \A s \in Stripes :
           /\ sh'[s].page = sh[s].page
           /\ sh'[s].uptodate = IF pass.kind = "repair" THEN sh[s].uptodate \ PassOut
                                                        ELSE sh[s].uptodate
  BY PassComputeDoes DEF QuiesceInv
<1>3. pass'.kind = pass.kind /\ pass'.target = pass.target
  BY <1>2, SamePassIs
<1>4. Written' = Written
  BY <1>3 DEF Written
<1>5. \A s \in Stripes : PassData[s] = c[s] /\ \A i \in pass.members : Column(s)[i] = disk[s][i]
  BY <1>1, <1>2, PassDataIs
<1>6. \A s \in Stripes : pass'.got[s] = Codeword(c[s])
  BY <1>2, <1>5
<1>7. ASSUME NEW s \in Stripes, NEW i \in Written \ PassOut
      PROVE  disk[s][i] = Codeword(c[s])[i]
  <2>1. CASE pass.kind = "repair"
    <3>1. i \in Parity /\ i \in pass.members
      BY <1>1, <1>2, <2>1, DisksAre DEF Written, PassOk
    <3>2. Column(s)[i] = Codeword(PassData[s])[i]
      BY <1>7, <2>1, <3>1 DEF PassOut
    <3> QED
      BY <1>5, <3>1, <3>2
  <2>2. CASE pass.kind # "repair"
    BY <1>7, <2>2 DEF Written, PassOut
  <2> QED
    BY <2>1, <2>2
<1>8. PassOk(c)'
  <2>1. pass.kind = "repair" => \A s \in Stripes : PassOut \cap sh'[s].uptodate = {}
    BY <1>2
  <2>2. PassOut \cap Disks \subseteq Written
    BY DEF PassOut, Written
  <2> QED
    BY <1>1, <1>2, <1>3, <1>4, <1>6, <1>7, <2>1, <2>2 DEF PassOk
<1>9. Others(Sync)
  BY <1>1, NobodyElse DEF QuiesceInv
<1>10. \A s \in Stripes :
         /\ sh'[s].uptodate \subseteq sh[s].uptodate
         /\ \A i \in sh'[s].uptodate : sh'[s].page[i] = sh[s].page[i]
  BY <1>2
<1> QED
  BY <1>1, <1>2, <1>8, <1>9, <1>10, QuietPass

LEMMA PassWriteData ==
  ASSUME QuiesceInv, LockInv, LockInv', NEW o, NEW c, Holds(o, c), NEW i \in Disks, PassWrite(i)
  PROVE  Holds(o, c)'
<1>1. UNCHANGED <<member, bad, onSb, bucket, cands, dirty, sh, req>> /\ PassOk(c)
  BY DEF PassWrite, locks, history, Holds
<1>2. /\ pass.stage = "write" /\ i \in pass.out /\ SamePass({"out"}) /\ pass'.out = pass.out \ {i}
      /\ disk' = [s \in Stripes |-> [disk[s] EXCEPT ![i] = pass.got[s][i]]]
  BY PassWriteDoes DEF QuiesceInv
<1>3. /\ pass'.kind = pass.kind /\ pass'.target = pass.target /\ pass'.stage = pass.stage
      /\ pass'.got = pass.got /\ pass'.ok = pass.ok /\ pass'.left = pass.left
  BY <1>2, SamePassIs
<1>4. Written' = Written /\ i \in Written
  BY <1>1, <1>2, <1>3 DEF Written, PassOk
<1>5. \A s \in Stripes : pass.got[s] = Codeword(c[s])
  BY <1>1, <1>2 DEF PassOk
<1>6. \A s \in Stripes, j \in Disks : disk'[s][j] = IF j = i THEN Codeword(c[s])[i] ELSE disk[s][j]
  <2> SUFFICES ASSUME NEW s \in Stripes, NEW j \in Disks
               PROVE  disk'[s][j] = IF j = i THEN Codeword(c[s])[i] ELSE disk[s][j]
    OBVIOUS
  <2>1. DOMAIN disk[s] = Disks
    BY DEF LockInv, Shaped
  <2>2. disk'[s] = [disk[s] EXCEPT ![i] = pass.got[s][i]]
    BY <1>2
  <2> QED
    BY <1>5, <2>1, <2>2
<1>7. Others(Sync)
  BY <1>1, NobodyElse DEF QuiesceInv
<1>8. \A q \in Requests : ReadOk(q, c)'
  <2>1. \A s \in Stripes, j \in Disks : disk'[s][j] \in {disk[s][j], Codeword(c[s])[j]}
    BY <1>6
  <2> QED
    BY <1>1, <1>7, <2>1, ReadersStay
<1>9. PassOk(c)'
  <2>1. \A s \in Stripes, j \in Written \ pass'.out : disk'[s][j] = Codeword(c[s])[j]
    <3> SUFFICES ASSUME NEW s \in Stripes, NEW j \in Written \ pass'.out
                 PROVE  disk'[s][j] = Codeword(c[s])[j]
      OBVIOUS
    <3>1. j \in Disks /\ (j = i \/ j \notin pass.out)
      BY <1>2, DisksAre DEF Written
    <3>2. j # i => disk[s][j] = Codeword(c[s])[j]
      BY <1>1, <1>2, <3>1 DEF PassOk
    <3> QED
      BY <1>6, <3>1, <3>2
  <2>2. /\ pass'.kind = "repair" => \A s \in Stripes : pass'.out \cap sh'[s].uptodate = {}
        /\ pass'.out \cap Disks \subseteq Written
    BY <1>1, <1>2, <1>3 DEF PassOk
  <2> QED
    BY <1>2, <1>3, <1>4, <1>5, <2>1, <2>2 DEF PassOk
<1>10. ASSUME NEW s \in Stripes PROVE StripeOk(s, o[s], c[s])'
  <2>1. \A q \in Requests : ~Writes(q, s)
    BY <1>2, ClaimedUnwritten DEF Claimed
  <2>2. \A q \in Requests : ~Writes(q, s)'
    BY <1>1, <2>1 DEF Writes
  <2>3. (\A j : ~Unwritten(s, j)) /\ \A j : ~(Unwritten(s, j)')
    BY <2>1, <2>2 DEF Unwritten
  <2>4. StripeOk(s, o[s], c[s])
    BY DEF Holds
  <2>5. \A j \in Disks : Plain(s, j)' <=> Plain(s, j)
    BY <1>1, <1>2, <1>3 DEF Plain, Mended
  <2>6. ASSUME NEW j \in Disks, Kept(s, j)', Plain(s, j)'
        PROVE  disk'[s][j] = Codeword(IF Unwritten(s, j)' THEN o[s] ELSE c[s])[j]
    <3>1. Kept(s, j)
      <4>1. Usable(s, j)' <=> Usable(s, j)
        BY <1>1 DEF Usable
      <4>2. Valid(s, j)' => Valid(s, j)
        BY <1>1, <1>3, <4>1 DEF Valid
      <4>3. (Recorded(s, j)' => Recorded(s, j)) /\ (Excused(s, j) => Excused(s, j)')
        BY <1>1 DEF Recorded, Excused
      <4> QED
        BY <2>6, <4>2, <4>3 DEF Kept
    <3>2. disk[s][j] = Codeword(c[s])[j]
      BY <2>3, <2>4, <2>5, <2>6, <3>1 DEF StripeOk
    <3> QED
      BY <1>6, <2>3, <3>2
  <2>7. ASSUME NEW j \in sh'[s].uptodate
        PROVE  sh'[s].page[j] = IF Plain(s, j)' \/ Unwritten(s, j)' THEN Codeword(c[s])[j] ELSE disk'[s][j]
    <3>1. j \in Disks /\ sh[s].page[j] = IF Plain(s, j) THEN Codeword(c[s])[j] ELSE disk[s][j]
      BY <1>1, <2>3, <2>4, <2>7 DEF StripeOk
    <3>2. ~Plain(s, j) => j # i
      <4> SUFFICES ASSUME ~Plain(s, i), i \in sh[s].uptodate PROVE FALSE
        BY <1>1, <2>7
      <4>1. dirty
        BY DEF Plain
      <4>2. pass.kind = "repair"
        BY <1>2, <4>1 DEF LockInv, Bounded, PassForm
      <4> QED
        BY <1>1, <1>2, <4>2 DEF PassOk
    <3> QED
      BY <1>1, <1>6, <2>3, <2>5, <3>1, <3>2
  <2>8. /\ \A d \in Data : cands'[s][d] = {o[s][d], c[s][d]}
        /\ sh'[s].uptodate \subseteq Disks
        /\ o[s] = c[s]
    BY <1>1, <2>1, <2>4 DEF StripeOk
  <2> QED
    BY <2>2, <2>6, <2>7, <2>8 DEF StripeOk
<1> QED
  BY <1>8, <1>9, <1>10 DEF Holds

\* The row is written: the parity is mended, the member that was rebuilt counts.
LEMMA PassDoneData ==
  ASSUME QuiesceInv, LockInv, LockInv', NEW o, NEW c, Holds(o, c), PassDone
  PROVE  Holds(o, c)'
<1>1. UNCHANGED <<disk, bad, onSb, bucket, cands, dirty>> /\ PassOk(c)
  BY DEF PassDone, locks, history, Holds
<1>2. pass.stage = "write" /\ pass.out = {} /\ Release /\ PassedBy
  BY PassDoneDoes DEF QuiesceInv, LockInv
<1>3. /\ Others(Sync)
      /\ \A s \in Stripes : sh'[s].uptodate = sh[s].uptodate /\ sh'[s].page = sh[s].page
  BY <1>2, PassReleaseDoes DEF QuiesceInv
<1>4. /\ pass'.stage = "end"
      /\ \A i \in Disks : member'[i] = IF i = pass.target /\ pass.kind = "recover" /\ member[i] = "rebuilding"
                                         THEN "ahead" ELSE member[i]
      /\ SamePass({"stage", "claimed"})
  BY <1>2 DEF PassedBy
<1>5. pass'.kind = pass.kind /\ pass'.ok = pass.ok
  BY <1>4, SamePassIs
<1>6. \A s \in Stripes, i \in Written : disk[s][i] = Codeword(c[s])[i]
  BY <1>1, <1>2 DEF PassOk
<1>7. pass.kind # "repair" => ~dirty
  BY <1>2 DEF LockInv, Bounded, PassForm
<1>8. \A q \in Requests : ReadOk(q, c)'
  <2>1. \A s \in Stripes, i \in Disks : disk'[s][i] \in {disk[s][i], Codeword(c[s])[i]}
    BY <1>1
  <2> QED
    BY <1>1, <1>3, <2>1, ReadersStay
<1>9. PassOk(c)'
  BY <1>4 DEF PassOk
<1>10. ASSUME NEW s \in Stripes PROVE StripeOk(s, o[s], c[s])'
  <2>1. \A q \in Requests : ~Writes(q, s)
    BY <1>2, ClaimedUnwritten DEF Claimed
  <2>2. \A q \in Requests : ~Writes(q, s)'
    BY <1>3, <2>1, TwinWrites, RowAssumption DEF StillWrites, Others
  <2>3. (\A j : ~Unwritten(s, j)) /\ \A j : ~(Unwritten(s, j)')
    BY <2>1, <2>2 DEF Unwritten
  <2>4. StripeOk(s, o[s], c[s])
    BY DEF Holds
  <2>5. ASSUME NEW j \in Disks, Plain(s, j)', ~Plain(s, j) PROVE j \in Written
    <3>1. dirty /\ j \notin Data
      BY <2>5 DEF Plain
    <3> QED
      BY <1>7, <3>1, DisksAre DEF Written
  <2>6. ASSUME NEW j \in Disks, Kept(s, j)', j \notin Written PROVE Kept(s, j)
    <3>1. member'[j] = member[j]
      BY <1>4, <2>6 DEF Written
    <3>2. Valid(s, j)' => Valid(s, j)
      BY <1>1, <1>4, <3>1 DEF Valid, Usable
    <3>3. Recorded(s, j)' => Recorded(s, j)
      BY <1>1 DEF Recorded
    <3>4. Excused(s, j) => Excused(s, j)'
      BY <1>3, TwinIs, RowAssumption DEF Excused, Others
    <3> QED
      BY <2>6, <3>2, <3>3, <3>4 DEF Kept
  <2>7. ASSUME NEW j \in Disks, Kept(s, j)', Plain(s, j)'
        PROVE  disk'[s][j] = Codeword(IF Unwritten(s, j)' THEN o[s] ELSE c[s])[j]
    <3>1. disk[s][j] = Codeword(c[s])[j]
      <4>1. CASE j \in Written
        BY <1>6, <4>1
      <4>2. CASE j \notin Written
        BY <2>3, <2>4, <2>5, <2>6, <2>7, <4>2 DEF StripeOk
      <4> QED
        BY <4>1, <4>2
    <3> QED
      BY <1>1, <2>3, <3>1
  <2>8. ASSUME NEW j \in sh'[s].uptodate
        PROVE  sh'[s].page[j] = IF Plain(s, j)' \/ Unwritten(s, j)' THEN Codeword(c[s])[j] ELSE disk'[s][j]
    <3>1. j \in Disks /\ sh[s].page[j] = IF Plain(s, j) THEN Codeword(c[s])[j] ELSE disk[s][j]
      BY <1>3, <2>3, <2>4, <2>8 DEF StripeOk
    <3>2. Plain(s, j) => Plain(s, j)'
      BY <1>1, <1>2 DEF Plain, Mended
    <3>3. Plain(s, j)' /\ ~Plain(s, j) => disk[s][j] = Codeword(c[s])[j]
      BY <1>6, <2>5, <3>1
    <3> QED
      BY <1>1, <1>3, <2>3, <3>1, <3>2, <3>3
  <2>9. /\ \A d \in Data : cands'[s][d] = {o[s][d], c[s][d]}
        /\ sh'[s].uptodate \subseteq Disks
        /\ o[s] = c[s]
    BY <1>1, <1>3, <2>1, <2>4 DEF StripeOk
  <2> QED
    BY <2>2, <2>7, <2>8, <2>9 DEF StripeOk
<1> QED
  BY <1>8, <1>9, <1>10 DEF Holds

LEMMA PassByStripesData ==
  ASSUME QuiesceInv, LockInv, LockInv', NEW o, NEW c, Holds(o, c), PassByStripes
  PROVE  Holds(o, c)'
<1>1. UNCHANGED <<disk, bad, onSb, bucket, cands, dirty, sh, req>> /\ pass.stage = "stripes"
  BY DEF PassByStripes, locks, history
<1>2. /\ pass'.stage = "end" /\ pass'.kind = pass.kind /\ pass'.ok = pass.ok
      /\ \/ pass.ok /\ pass.left = {} /\ PassedBy
         \/ ~pass.ok /\ member' = member
  <2>1. CASE pass.ok
    <3>1. Passed /\ pass.left = {}
      BY <2>1 DEF PassByStripes
    <3>2. PassedBy
      BY <3>1, PassedDoes DEF QuiesceInv, LockInv
    <3>3. SamePass({"stage", "claimed"}) /\ pass'.stage = "end"
      BY <3>2 DEF PassedBy
    <3>4. pass'.kind = pass.kind /\ pass'.ok = pass.ok
      BY <3>3, SamePassIs
    <3> QED
      BY <2>1, <3>1, <3>2, <3>3, <3>4
  <2>2. CASE ~pass.ok
    <3>1. member' = member /\ pass' = [pass EXCEPT !.stage = "end"]
      BY <2>2 DEF PassByStripes
    <3> QED
      BY <2>2, <3>1 DEF QuiesceInv, Shapes, PassFields
  <2> QED
    BY <2>1, <2>2
<1>3. ASSUME NEW s \in Stripes, NEW i \in Disks, Kept(s, i)' PROVE Kept(s, i)
  <2>1. Valid(s, i)' => Valid(s, i)
    <3> SUFFICES ASSUME Usable(s, i)' PROVE Valid(s, i)
      BY <1>2 DEF Valid
    <3>1. CASE member'[i] = member[i]
      BY <1>1, <3>1 DEF Valid, Usable
    <3>2. CASE member'[i] # member[i]
      <4>1. PassedBy /\ pass.left = {}
        BY <1>2, <3>2
      <4>2. i = pass.target /\ pass.kind = "recover" /\ member[i] = "rebuilding"
        BY <3>2, <4>1 DEF PassedBy
      <4> QED
        BY <1>1, <4>1, <4>2 DEF Valid, Usable
    <3> QED
      BY <3>1, <3>2
  <2>2. Recorded(s, i)' => Recorded(s, i)
    BY <1>1 DEF Recorded
  <2>3. Excused(s, i) => Excused(s, i)'
    BY <1>1 DEF Excused
  <2> QED
    BY <1>3, <2>1, <2>2, <2>3 DEF Kept
<1>4. ASSUME NEW s \in Stripes, NEW i \in Disks PROVE Plain(s, i)' <=> Plain(s, i)
  <2>1. Mended(s)' <=> Mended(s)
    BY <1>1, <1>2 DEF Mended
  <2> QED
    BY <1>1, <2>1 DEF Plain
<1>5. PassOk(c)'
  BY <1>2 DEF PassOk
<1>6. Others(Sync)
  BY <1>1, NobodyElse DEF QuiesceInv
<1> QED
  BY <1>1, <1>3, <1>4, <1>5, <1>6, ShStands, NobodyWrites

LEMMA PassEndData ==
  ASSUME QuiesceInv, LockInv, LockInv', NEW o, NEW c, Holds(o, c), PassEnd
  PROVE  Holds(o, c)'
<1>1. UNCHANGED <<disk, bad, onSb, bucket, cands, sh, req>>
  BY DEF PassEnd, locks, history
<1>2. /\ pass.stage = "end" /\ pass' = NoPass
      /\ dirty' = (dirty /\ ~(pass.kind = "repair" /\ pass.ok))
      /\ \A i \in Disks : member'[i] = IF member[i] = "ahead" /\ pass.ok THEN "insync" ELSE member[i]
  BY PassEndDoes DEF LockInv
<1>3. pass'.stage = "idle" /\ pass'.kind = "none"
  BY <1>2, NoPassIs
<1>4. ASSUME NEW s \in Stripes, NEW i \in Disks, Kept(s, i)' PROVE Kept(s, i)
  <2>1. Usable(s, i)' => Usable(s, i)
    BY <1>1, <1>2 DEF Usable
  <2>2. Valid(s, i)' => Valid(s, i)
    BY <1>3, <2>1 DEF Valid
  <2>3. (Recorded(s, i)' => Recorded(s, i)) /\ (Excused(s, i) => Excused(s, i)')
    BY <1>1 DEF Recorded, Excused
  <2> QED
    BY <1>4, <2>2, <2>3 DEF Kept
<1>5. ASSUME NEW s \in Stripes, NEW i \in Disks PROVE Plain(s, i)' <=> Plain(s, i)
  <2>1. ~(Mended(s)')
    BY <1>3 DEF Mended
  <2>2. Mended(s) <=> pass.kind = "repair" /\ pass.ok
    BY <1>2 DEF Mended
  <2> QED
    BY <1>2, <2>1, <2>2 DEF Plain
<1>6. PassOk(c)'
  BY <1>3 DEF PassOk
<1>7. Others(Sync) /\ (dirty' => dirty)
  BY <1>1, <1>2, NobodyElse DEF QuiesceInv
<1> QED
  BY <1>1, <1>4, <1>5, <1>6, <1>7, ShStands, NobodyWrites

\* The stripe cache synced a stripe: all of it is the data's image, and the member that
\* is recovered counts.
LEMMA PassStripeData ==
  ASSUME QuiesceInv, LockInv, LockInv', Careful, NEW o,
         NEW c \in [Stripes -> [Data -> Block]], Holds(o, c), NEW s \in Stripes, PassStripe(s)
  PROVE  Holds(o, c)'
<1>1. /\ UNCHANGED <<member, bad, onSb, bucket, cands, req, dirty>> /\ ~pending
      /\ pass.stage = "stripes" /\ s \in pass.left /\ pass.ok /\ SamePass({"left"})
      /\ pass'.left = pass.left \ {s} /\ ~Locked /\ sh[s].held = {} /\ Cardinality(Known(s)) >= K
      /\ \A t \in Stripes :
           /\ sh'[t].uptodate = IF t = s THEN Disks ELSE sh[t].uptodate
           /\ sh'[t].page = IF t = s THEN Codeword(Contents(s)) ELSE sh[t].page
  BY PassStripeDoes DEF QuiesceInv, devices, locks, history
<1>2. PICK out :
        /\ out = IF pass.kind = "recover" THEN {pass.target}
                 ELSE {p \in Parity : Usable(s, p) /\ Page(s)[p] # Codeword(Contents(s))[p]}
        /\ disk' = [disk EXCEPT ![s] = [i \in Disks |-> IF i \in out THEN Codeword(Contents(s))[i]
                                                        ELSE disk[s][i]]]
  BY PassStripeDoes DEF QuiesceInv
<1>3. /\ pass'.kind = pass.kind /\ pass'.target = pass.target /\ pass'.stage = pass.stage
      /\ pass'.ok = pass.ok
  <2>1. SamePass({"left"})
    BY <1>1
  <2> QED
    BY <2>1, SamePassIs
<1>4. pass.kind \in {"recover", "repair"} /\ (pass.kind = "recover" => ~dirty)
  BY <1>1 DEF LockInv, PassForm, Bounded
<1>5. \A q \in Requests : ~Writes(q, s)
  <2>1. \A q \in Requests : req[q].stage # "rowland"
    BY <1>1, RowAssumption DEF Locked, LockInv, RequestOk, Owner, Owning
  <2> QED
    BY <1>1, <2>1, NoWriter
<1>6. \A q \in Requests : ~Writes(q, s)'
  BY <1>1, <1>5 DEF Writes
<1>7. (\A i : ~Unwritten(s, i)) /\ \A i : ~(Unwritten(s, i)')
  BY <1>5, <1>6 DEF Unwritten
<1> DEFINE x == c[s]  y == o[s]
<1>8. x \in [Data -> Block] /\ StripeOk(s, y, x)
  BY DEF Holds
<1> HIDE DEF x, y
<1>9. /\ y = x /\ Contents(s) = x
      /\ \A i \in Known(s) : Page(s)[i] = IF Plain(s, i) THEN Codeword(x)[i] ELSE disk[s][i]
  BY <1>1, <1>5, <1>8, ContentsAre
<1>10. /\ disk'[s] = [i \in Disks |-> IF i \in out THEN Codeword(x)[i] ELSE disk[s][i]]
       /\ \A t \in Stripes \ {s} : disk'[t] = disk[t]
  BY <1>2, <1>9 DEF LockInv, Shaped
<1>11. \A i \in Disks : disk'[s][i] = IF i \in out THEN Codeword(x)[i] ELSE disk[s][i]
  BY <1>10
<1>12. \A q \in Requests : ReadOk(q, c)'
  <2>1. \A t \in Stripes, i \in Disks : disk'[t][i] \in {disk[t][i], Codeword(c[t])[i]}
    BY <1>10, <1>11 DEF x
  <2>2. Others(Sync)
    BY <1>1, NobodyElse DEF QuiesceInv
  <2> QED
    BY <1>1, <2>1, <2>2, ReadersStay
<1>13. PassOk(c)'
  BY <1>1, <1>3 DEF PassOk
<1>14. \A t \in Stripes : \A i :
         /\ Usable(t, i)' <=> Usable(t, i)
         /\ Recorded(t, i)' <=> Recorded(t, i)
         /\ Excused(t, i)' <=> Excused(t, i)
  BY <1>1 DEF Usable, Recorded, Excused
<1>15. \A t \in Stripes, i \in Disks : t # s \/ i \notin out \/ pass.kind # "recover" =>
         (Kept(t, i)' => Kept(t, i))
  <2> SUFFICES ASSUME NEW t \in Stripes, NEW i \in Disks, t # s \/ i \notin out \/ pass.kind # "recover"
               PROVE  Valid(t, i)' => Valid(t, i)
    BY <1>14 DEF Kept
  <2> QED
    BY <1>1, <1>2, <1>3, <1>14 DEF Valid
<1>16. StripeOk(s, y, x)'
  <2>1. \A i : Plain(s, i)'
    BY <1>1, <1>3, <1>4 DEF Plain, Mended
  <2>2. ASSUME NEW i \in Disks, Kept(s, i)' PROVE disk'[s][i] = Codeword(x)[i]
    <3> SUFFICES ASSUME i \notin out PROVE disk[s][i] = Codeword(x)[i]
      BY <1>11
    <3>1. Kept(s, i)
      BY <1>15, <2>2
    <3>2. CASE Plain(s, i)
      BY <1>7, <1>8, <3>1, <3>2 DEF StripeOk
    <3>3. CASE ~Plain(s, i)
      <4>1. pass.kind = "repair" /\ i \in Parity
        BY <1>4, <3>3, DisksAre DEF Plain
      <4>2. Usable(s, i)
        BY <1>1, <3>1, <4>1 DEF Kept, Valid, LockInv, Recording
      <4>3. Page(s)[i] = Codeword(x)[i]
        BY <1>2, <1>9, <4>1, <4>2
      <4>4. i \in Known(s)
        BY <4>2 DEF Known
      <4> QED
        BY <1>9, <3>3, <4>3, <4>4
    <3> QED
      BY <3>2, <3>3
  <2>3. sh'[s].uptodate = Disks /\ sh'[s].page = Codeword(x)
    BY <1>1, <1>9
  <2>4. \A d \in Data : cands'[s][d] = {y[d], x[d]}
    BY <1>1, <1>8 DEF StripeOk
  <2> QED
    BY <1>6, <1>7, <1>9, <2>1, <2>2, <2>3, <2>4 DEF StripeOk
<1>17. ASSUME NEW t \in Stripes, t # s PROVE StripeOk(t, o[t], c[t])'
  <2>1. \A q \in Requests : StillWrites(q, t)
    BY <1>1 DEF StillWrites, Writes
  <2>2. \A i \in Disks : Plain(t, i)' <=> Plain(t, i)
    BY <1>1, <1>3, <1>17 DEF Plain, Mended
  <2>3. StripeOk(t, o[t], c[t])
    BY DEF Holds
  <2>4. \A i \in Disks : Kept(t, i)' => Kept(t, i)
    BY <1>15, <1>17
  <2>5. /\ \A d \in Data : cands'[t][d] = cands[t][d]
        /\ disk'[t] = disk[t] /\ sh'[t].uptodate = sh[t].uptodate /\ sh'[t].page = sh[t].page
    BY <1>1, <1>10, <1>17
  <2> QED
    BY <2>1, <2>2, <2>3, <2>4, <2>5, StripeStands
<1> QED
  BY <1>12, <1>13, <1>16, <1>17 DEF Holds, x, y

\* Around the row: a member is lost, the superblocks are written, the array is quiesced.
LEMMA AroundTheRow ==
  ASSUME QuiesceInv, LockInv, LockInv', UNCHANGED <<disk, sh, bucket, cands, dirty, req>>,
         SamePass({"ok"}), ~dirty \/ pass'.ok = pass.ok, NEW o, NEW c, Holds(o, c),
         \A s \in Stripes, i \in Disks : Kept(s, i)' => Kept(s, i)
  PROVE  Holds(o, c)'
<1>1. pass'.kind = pass.kind /\ pass'.stage = pass.stage /\ pass'.left = pass.left
  BY SamePassIs
<1>2. \A s \in Stripes : \A i : Plain(s, i)' <=> Plain(s, i)
  BY <1>1 DEF Plain, Mended
<1>3. PassOk(c)'
  <2>1. PassOk(c)
    BY DEF Holds
  <2> QED
    BY <1>2, <2>1, PassStands
<1>4. Others(Sync)
  BY NobodyElse DEF QuiesceInv
<1> QED
  BY <1>2, <1>3, <1>4, ShStands, NobodyWrites

LEMMA ArrayData ==
  ASSUME QuiesceInv, LockInv, LockInv', NEW o, NEW c, Holds(o, c),
         \/ StartPass \/ \E i \in Disks : LoseMember(i)
         \/ WriteSuperblock \/ QuiesceStart \/ QuiesceDrained \/ QuiesceEnd \/ UNCHANGED vars
  PROVE  Holds(o, c)'
<1>1. CASE StartPass
  <2>1. /\ UNCHANGED <<disk, member, bad, onSb, bucket, cands, dirty, sh, req>>
        /\ pass.kind = "none" /\ pass'.stage = "fence"
    BY <1>1, StartPassDoes DEF devices, locks, history
  <2>2. pass.stage = "idle"
    BY <2>1 DEF LockInv, PassForm
  <2>3. PassOk(c)'
    BY <2>1 DEF PassOk
  <2>4. Others(Sync)
    BY <2>1, NobodyElse DEF QuiesceInv
  <2> QED
    BY <2>1, <2>2, <2>3, <2>4, QuietPass
<1>2. ASSUME NEW i \in Disks, LoseMember(i) PROVE Holds(o, c)'
  <2>1. /\ UNCHANGED <<disk, bad, onSb, sh, bucket, req, dirty, cands>>
        /\ ~dirty /\ SamePass({"ok"})
        /\ \A j \in Disks : member'[j] = IF j = i THEN "faulty" ELSE member[j]
    BY <1>2, LoseMemberDoes DEF QuiesceInv, locks, history
  <2>2. pass'.kind = pass.kind /\ pass'.stage = pass.stage /\ pass'.left = pass.left
        /\ pass'.target = pass.target
    BY <2>1, SamePassIs
  <2>3. ASSUME NEW s \in Stripes, NEW j \in Disks, Kept(s, j)' PROVE Kept(s, j)
    <3>1. Valid(s, j)' => Valid(s, j)
      BY <2>1, <2>2 DEF Valid, Usable
    <3>2. Recorded(s, j)' => Recorded(s, j)
      BY <2>1 DEF Recorded
    <3>3. Excused(s, j) => Excused(s, j)'
      BY <2>1 DEF Excused
    <3> QED
      BY <2>3, <3>1, <3>2, <3>3 DEF Kept
  <2> QED
    BY <2>1, <2>3, AroundTheRow
<1>3. CASE WriteSuperblock
  <2>1. /\ UNCHANGED <<disk, member, bad, sh, bucket, req, dirty, cands, pass>>
        /\ onSb' = [member |-> member, bad |-> bad]
    BY <1>3 DEF WriteSuperblock, locks, history
  <2>2. SamePass({"ok"})
    BY <2>1 DEF SamePass, QuiesceInv, Shapes, PassFields
  <2>3. ASSUME NEW s \in Stripes, NEW j \in Disks, Kept(s, j)' PROVE Kept(s, j)
    <3>1. Valid(s, j)' => Valid(s, j)
      BY <2>1 DEF Valid, Usable
    <3>2. Recorded(s, j)' => Usable(s, j)
      BY <2>1 DEF Recorded, Usable
    <3> QED
      BY <2>3, <3>1, <3>2 DEF Kept, Valid
  <2> QED
    BY <2>1, <2>2, <2>3, AroundTheRow
<1>4. CASE QuiesceStart \/ QuiesceDrained \/ QuiesceEnd \/ UNCHANGED vars
  <2>1. UNCHANGED <<disk, member, bad, onSb, sh, bucket, req, dirty, cands, pass>>
    BY <1>4 DEF QuiesceStart, QuiesceDrained, QuiesceEnd, vars, devices, locks, history
  <2>2. SamePass({"ok"})
    BY <2>1 DEF SamePass, QuiesceInv, Shapes, PassFields
  <2>3. ASSUME NEW s \in Stripes, NEW j \in Disks, Kept(s, j)' PROVE Kept(s, j)
    <3>1. Valid(s, j)' => Valid(s, j)
      BY <2>1 DEF Valid, Usable
    <3>2. Recorded(s, j)' => Recorded(s, j)
      BY <2>1 DEF Recorded
    <3>3. Excused(s, j) => Excused(s, j)'
      BY <2>1 DEF Excused
    <3> QED
      BY <2>3, <3>1, <3>2, <3>3 DEF Kept
  <2> QED
    BY <2>1, <2>2, <2>3, AroundTheRow
<1> QED
  BY <1>1, <1>2, <1>3, <1>4

LEMMA RowGoes ==
  ASSUME NEW r \in Requests, QuiesceInv, LockInv, LockInv',
         NEW o \in [Stripes -> [Data -> Block]], NEW c \in [Stripes -> [Data -> Block]],
         Holds(o, c), RowGo(r)
  PROVE  ContentInv'
<1>1. CASE quiesce # "off"
  <2>1. /\ Unprep(r) /\ req[r].stage = "recheck"
        /\ UNCHANGED <<disk, member, bad, onSb, bucket, pass, dirty, cands>>
    BY <1>1 DEF RowGo, devices
  <2>2. Holds(o, c)'
    BY <2>1, UnprepData DEF Prepared
  <2> QED
    BY <2>2 DEF ContentInv
<1>2. CASE quiesce = "off"
  BY <1>2, RowGoData DEF ContentInv
<1> QED
  BY <1>1, <1>2

LEMMA ContentInit ==
  ASSUME Init
  PROVE  ContentInv
<1>1. /\ \A q \in Requests : req[q] = NoRequest
      /\ pass = NoPass /\ bad = {} /\ onSb.member = member
      /\ dirty = (budget.start = "torn")
      /\ \A s \in Stripes, d \in Data : cands[s][d] = {0}
      /\ \A i \in Disks : i # 0 => member[i] = "insync"
  BY DEF Init
<1>2. 0 \in Disks /\ (member[0] # "insync" => budget.start # "torn")
      /\ member[0] \in {"insync", "faulty", "rebuilding"}
  BY DisksAre, RowAssumption DEF Init, Disks
<1>3. K \notin Data /\ (budget.start = "torn" => dirty)
  <2>1. K \notin Data
    BY RowAssumption DEF Data
  <2>2. budget.start = "torn" => dirty
    BY <1>1
  <2> QED
    BY <2>1, <2>2
<1>4. \A s \in Stripes : \A i \in Disks :
        disk[s][i] = IF (i = 0 /\ member[0] # "insync") \/ (i = K /\ s = 0 /\ budget.start = "torn")
                       THEN 1 ELSE 0
  BY DEF Init
<1>5. \A s \in Stripes : /\ sh[s].page = disk[s]
                         /\ sh[s].uptodate = IF budget.start = "torn" THEN Disks ELSE {}
  BY DEF Init
<1> DEFINE zero == [d \in Data |-> 0]
           z == [s \in Stripes |-> zero]
<1>6. zero \in [Data -> Block] /\ z \in [Stripes -> [Data -> Block]]
      /\ \A s \in Stripes : z[s] = zero
  BY RowAssumption DEF Block
<1>7. \A i \in Disks : Codeword(zero)[i] = 0
  <2> SUFFICES ASSUME NEW i \in Disks PROVE Codeword(zero)[i] = 0
    OBVIOUS
  <2>1. CASE i \in Data
    BY <1>6, <2>1, CodewordIs
  <2>2. CASE i \in Parity
    <3>1. Codeword(zero)[i] = Encode(i, zero)
      BY <1>6, <2>2, CodewordIs
    <3>2. Encode(i, zero) = 0
      BY <2>2, CodeAssumption
    <3> QED
      BY <3>1, <3>2
  <2> QED
    BY <2>1, <2>2, DisksAre
<1>8. \A d \in Data : zero[d] = 0
  OBVIOUS
<1> HIDE DEF z, zero
<1>9. pass.kind = "none" /\ pass.stage = "idle"
  BY <1>1, NoPassIs
<1>10. \A q \in Requests : req[q].kind = "none" /\ req[q].stage = "idle" /\ req[q].failed = {}
  BY <1>1 DEF NoRequest
<1>11. \A s \in Stripes : (\A q \in Requests : ~Writes(q, s)) /\ \A i : ~Unwritten(s, i)
  BY <1>10 DEF Writes, Unwritten
<1>12. ASSUME NEW s \in Stripes PROVE StripeOk(s, zero, zero)
  <2>1. ASSUME NEW i \in Disks, Plain(s, i), disk[s][i] # 0 PROVE ~Kept(s, i)
    <3>1. i \in Data \/ ~dirty \/ s # 0
      BY <1>9, <2>1 DEF Plain, Mended
    <3>2. i # K \/ s # 0 \/ budget.start # "torn"
      BY <1>3, <3>1
    <3>3. i = 0 /\ member[0] # "insync"
      BY <1>4, <2>1, <3>2
    <3>4. ~Valid(s, i)
      BY <1>2, <1>9, <3>3 DEF Valid, Usable
    <3>5. ~Recorded(s, i)
      BY <1>1, <3>3 DEF Recorded
    <3> QED
      BY <3>4, <3>5 DEF Kept
  <2>2. ASSUME NEW i \in sh[s].uptodate
        PROVE  i \in Disks /\ sh[s].page[i] = IF Plain(s, i) THEN 0 ELSE disk[s][i]
    <3>1. i \in Disks /\ budget.start = "torn" /\ sh[s].page[i] = disk[s][i]
      BY <1>5, <2>2
    <3>2. Plain(s, i) => i # K \/ s # 0
      BY <1>9, <1>3, <3>1 DEF Plain, Mended
    <3>3. Plain(s, i) => disk[s][i] = 0
      BY <1>2, <1>4, <3>1, <3>2
    <3> QED
      BY <3>1, <3>3
  <2>3. \A d \in Data : cands[s][d] = {zero[d], zero[d]}
    BY <1>1, <1>8
  <2> QED
    BY <1>7, <1>11, <2>1, <2>2, <2>3 DEF StripeOk
<1>13. PassOk(z)
  BY <1>9 DEF PassOk
<1>14. \A q \in Requests : ReadOk(q, z)
  BY <1>10 DEF ReadOk, InRow
<1>15. Holds(z, z)
  BY <1>6, <1>12, <1>13, <1>14 DEF Holds
<1> QED
  BY <1>6, <1>15 DEF ContentInv

LEMMA ContentNext ==
  ASSUME QuiesceInv, LockInv, LockInv', Careful, Careful', ContentInv, [Next]_vars
  PROVE  ContentInv'
<1>1. PICK o, c \in [Stripes -> [Data -> Block]] : Holds(o, c)
  BY DEF ContentInv
<1>2. Holds(o, c)' => ContentInv'
  BY DEF ContentInv
<1>3. ASSUME NEW r \in Requests, Submit(r) \/ Serve(r) PROVE ContentInv'
  <2>1. CASE StripeCache(r)
    <3>1. CASE GetWaits(r) \/ Get(r) \/ Bounce(r) \/ Attach(r)
      BY <1>1, <1>2, <3>1, GetData
    <3>2. CASE HandleFailed(r) \/ Ack(r)
      BY <1>1, <1>2, <3>2, DoneData
    <3>3. CASE HandleRead(r)
      BY <1>1, <1>2, <3>3, HandleReadData
    <3>4. CASE HandleWrite(r)
      BY <1>1, <3>4, HandleWriteData DEF ContentInv
    <3>5. CASE \E i \in Disks : Land(r, i)
      BY <1>1, <1>2, <3>5, LandData
    <3>6. CASE Note(r)
      BY <1>1, <3>6, NoteData DEF ContentInv
    <3> QED
      BY <2>1, <3>1, <3>2, <3>3, <3>4, <3>5, <3>6 DEF StripeCache
  <2>2. CASE RowWrite(r)
    <3>1. CASE RowPrep(r) \/ RowFence(r) \/ RowSettled(r)
      BY <1>1, <1>2, <3>1, RowStageData
    <3>2. CASE RowLock(r) \/ RowWalk(r)
      BY <1>1, <1>2, <3>2, RowLockData
    <3>3. CASE RowGo(r)
      BY <1>1, <3>3, RowGoes
    <3>4. CASE \E i \in Disks : RowLand(r, i)
      BY <1>1, <1>2, <3>4, RowLandData
    <3>5. CASE RowDone(r)
      BY <1>1, <3>5, RowDoneData DEF ContentInv
    <3>6. CASE RowEnd(r)
      BY <1>1, <1>2, <3>6, RowEndData
    <3> QED
      BY <2>2, <3>1, <3>2, <3>3, <3>4, <3>5, <3>6 DEF RowWrite
  <2>3. CASE RowRead(r)
    <3>1. CASE ReadPick(r)
      BY <1>1, <1>2, <3>1, ReadPickData
    <3>2. CASE ReadGen(r)
      BY <1>1, <1>2, <3>2, ReadGenData
    <3>3. CASE ReadCount(r) \/ ReadConfirm(r) \/ ReadWaits(r)
      BY <1>1, <1>2, <3>3, ReadCountData
    <3>4. CASE \E i \in Disks : ReadMember(r, i)
      BY <1>1, <1>2, <3>4, ReadMemberData
    <3>5. CASE ReadWork(r)
      BY <1>1, <1>2, <3>5, ReadWorkData
    <3>6. CASE ReadEnd(r)
      BY <1>1, <1>2, <3>6, RowEndData
    <3> QED
      BY <2>3, <3>1, <3>2, <3>3, <3>4, <3>5, <3>6 DEF RowRead
  <2>4. CASE Submit(r)
    BY <1>1, <1>2, <2>4, SubmitData
  <2> QED
    BY <1>3, <2>1, <2>2, <2>3, <2>4 DEF Serve
<1>4. CASE Passing
  <2>1. CASE PassFence \/ PassPick
    BY <1>1, <1>2, <2>1, PassPickData
  <2>2. CASE PassClaim
    BY <1>1, <1>2, <2>2, PassClaimData
  <2>3. CASE PassRecheck \/ \E i \in Disks : PassRead(i)
    BY <1>1, <1>2, <2>3, PassReadData
  <2>4. CASE \E i \in Disks : PassWrite(i)
    BY <1>1, <1>2, <2>4, PassWriteData
  <2>5. CASE PassCompute
    BY <1>1, <1>2, <2>5, PassComputeData
  <2>6. CASE PassDone
    BY <1>1, <1>2, <2>6, PassDoneData
  <2>7. CASE \E s \in Stripes : PassStripe(s)
    BY <1>1, <1>2, <2>7, PassStripeData
  <2>8. CASE PassByStripes
    BY <1>1, <1>2, <2>8, PassByStripesData
  <2>9. CASE PassEnd
    BY <1>1, <1>2, <2>9, PassEndData
  <2>10. CASE PassFails
    BY <1>1, <1>2, <2>10, PassFailsData
  <2> QED
    BY <1>4, <2>1, <2>2, <2>3, <2>4, <2>5, <2>6, <2>7, <2>8, <2>9, <2>10 DEF Passing
<1>5. CASE \/ StartPass \/ \E i \in Disks : LoseMember(i)
           \/ WriteSuperblock \/ QuiesceStart \/ QuiesceDrained \/ QuiesceEnd \/ UNCHANGED vars
  BY <1>1, <1>2, <1>5, ArrayData
<1> QED
  BY <1>3, <1>4, <1>5 DEF Next, Quiescing

\* A stripe that nobody is writing, or that has settled, holds one data: the truth.
LEMMA TruthIs ==
  ASSUME NEW s \in Stripes, NEW o, NEW c \in [Data -> Block], StripeOk(s, o, c), ~Torn(s),
         \A d \in Data : o[d] = c[d]
  PROVE  /\ Truth(s) = Codeword(c) /\ Codeword(o) = Codeword(c)
         /\ \A i \in Disks : Plain(s, i)
<1>1. \A d \in Data : cands[s][d] = {c[d]}
  BY DEF StripeOk
<1>2. \A d \in Data : (CHOOSE v \in cands[s][d] : TRUE) = c[d]
  BY <1>1
<1>3. [d \in Data |-> CHOOSE v \in cands[s][d] : TRUE] = c
  BY <1>2
<1>4. \A i \in Disks : Codeword(o)[i] = Codeword(c)[i]
  <2> SUFFICES ASSUME NEW p \in Parity PROVE Encode(p, o) = Encode(p, c)
    BY DisksAre DEF Codeword
  <2>1. [j \in Data |-> Coef[p - K][j] * o[j]] = [j \in Data |-> Coef[p - K][j] * c[j]]
    OBVIOUS
  <2> QED
    BY <2>1 DEF Encode
<1>5. Codeword(o) = Codeword(c)
  BY <1>4 DEF Codeword
<1> QED
  BY <1>3, <1>5 DEF Truth, Torn, Plain

LEMMA ContentsRead ==
  ASSUME ContentInv
  PROVE  RowReadsCurrent
BY DEF ContentInv, Holds, ReadOk, RowReadsCurrent

LEMMA ContentsCode ==
  ASSUME ContentInv
  PROVE  RowIsOneCodeword
<1>1. PICK o, c \in [Stripes -> [Data -> Block]] : Holds(o, c)
  BY DEF ContentInv
<1> SUFFICES ASSUME NEW s \in Stripes, Settled(s), ~Torn(s)
             PROVE  /\ \A i \in Disks : Usable(s, i) => disk[s][i] = Truth(s)[i]
                    /\ \A i \in sh[s].uptodate : sh[s].page[i] = Truth(s)[i]
  BY DEF RowIsOneCodeword
<1> DEFINE x == c[s]  y == o[s]
<1>2. x \in [Data -> Block] /\ y \in [Data -> Block] /\ StripeOk(s, y, x)
  BY <1>1 DEF Holds
<1> HIDE DEF x, y
<1>3. ASSUME NEW d \in Data PROVE y[d] = x[d]
  <2>1. cands[s][d] = {y[d], x[d]} /\ Cardinality(cands[s][d]) = 1
    BY <1>2 DEF StripeOk, Settled
  <2>2. \A a, b : Cardinality({a, b}) = 1 => a = b
    <3> SUFFICES ASSUME NEW a, NEW b, Cardinality({a, b}) = 1 PROVE a = b
      OBVIOUS
    <3>1. IsFiniteSet({a, b}) /\ IsFiniteSet({a}) /\ Cardinality({a}) = 1
      <4>1. IsFiniteSet({a}) /\ Cardinality({a}) = 1
        BY FS_Singleton
      <4>2. IsFiniteSet({a} \cup {b})
        BY <4>1, FS_AddElement
      <4>3. {a} \cup {b} = {a, b}
        OBVIOUS
      <4> QED
        BY <4>1, <4>2, <4>3
    <3>2. {a} \in SUBSET {a, b}
      OBVIOUS
    <3>3. {a} = {a, b}
      BY <3>1, <3>2, FS_Subset
    <3> QED
      BY <3>3
  <2> QED
    BY <2>1, <2>2
<1>4. /\ Truth(s) = Codeword(x) /\ Codeword(y) = Codeword(x) /\ \A i \in Disks : Plain(s, i)
  BY <1>2, <1>3, TruthIs
<1>5. ASSUME NEW i \in Disks, Usable(s, i) PROVE disk[s][i] = Truth(s)[i]
  BY <1>2, <1>4, <1>5 DEF StripeOk, Kept, Valid
<1>6. ASSUME NEW i \in sh[s].uptodate PROVE sh[s].page[i] = Truth(s)[i]
  BY <1>2, <1>4, <1>6 DEF StripeOk
<1> QED
  BY <1>5, <1>6

LEMMA ContentsAcked ==
  ASSUME QuiesceInv, LockInv, ContentInv
  PROVE  AckedIsRecorded
<1>1. PICK o, c \in [Stripes -> [Data -> Block]] : Holds(o, c)
  BY DEF ContentInv
<1> SUFFICES ASSUME NEW s \in Stripes, ~Writing(s), ~Torn(s), NEW i \in Disks, Recorded(s, i)
             PROVE  disk[s][i] = Truth(s)[i]
  BY DEF AckedIsRecorded, Recorded
<1> DEFINE x == c[s]  y == o[s]
<1>2. x \in [Data -> Block] /\ StripeOk(s, y, x)
  BY <1>1 DEF Holds
<1> HIDE DEF x, y
<1>3. ASSUME NEW q \in Requests
      PROVE  /\ req[q].stage \notin {"rowland", "sbwait"}
             /\ req[q].stage \in {"land", "note", "ack"} => req[q].at # s
  <2>1. /\ req[q].stage \in Writers => req[q].kind = "write"
        /\ req[q].stage \in Holding => req[q].at \in req[q].todo
        /\ req[q].stage \in RowStages => req[q].todo = Stripes
    BY DEF QuiesceInv, Counted, LockInv, RequestOk, Form
  <2>2. req[q].kind = "write" /\ s \in req[q].todo => req[q].stage = "idle"
    BY DEF Writing
  <2>3. req[q].stage \in {"land", "note", "ack", "rowland", "sbwait"} =>
          req[q].stage # "idle" /\ req[q].stage \in Writers
    BY DEF Writers, Fenced
  <2>4. req[q].stage \in {"land", "note", "ack"} => s # req[q].at
    BY <2>1, <2>2, <2>3 DEF Holding
  <2>5. req[q].stage \notin {"rowland", "sbwait"}
    BY <2>1, <2>2, <2>3 DEF RowStages
  <2> QED
    BY <2>4, <2>5
<1>4. (\A q \in Requests : ~Writes(q, s)) /\ ~Excused(s, i) /\ ~Unwritten(s, i)
  BY <1>3 DEF Writes, Excused, Unwritten
<1>5. y = x
  BY <1>2, <1>4 DEF StripeOk
<1>6. Truth(s) = Codeword(x) /\ Plain(s, i)
  BY <1>2, <1>5, TruthIs
<1> QED
  BY <1>2, <1>4, <1>6 DEF StripeOk, Kept

\* The row's locks, and who may write what: the stripe cache, a row write and a pass
\* never have a stripe at once (raidkm_row_write_lock, raidkm_row_claim_row,
\* stripe_bio_overlaps), whatever fails.
THEOREM LockInvHolds == Spec => []LockInv
<1>1. Init => LockInv
  BY LockInit
<1>2. QuiesceInv /\ LockInv /\ [Next]_vars => LockInv'
  BY LockNext
<1> QED
  BY <1>1, <1>2, QuiesceInvHolds, PTL DEF Spec

\* There are data that the members, the caches, the pass and the readers agree on.
THEOREM ContentInvHolds == Spec /\ []Careful => []ContentInv
<1>1. Init => ContentInv
  BY ContentInit
<1>2. /\ QuiesceInv /\ LockInv /\ LockInv' /\ Careful /\ Careful' /\ ContentInv /\ [Next]_vars
      => ContentInv'
  BY ContentNext
<1> QED
  BY <1>1, <1>2, QuiesceInvHolds, LockInvHolds, PTL DEF Spec

\* What a read answers was there when it was sent, or was written since
\* (raidkm_row_read_work, raidkm_row_write_lock).
THEOREM ReadsAreCurrent == Spec /\ []Careful => []RowReadsCurrent
<1>1. ContentInv => RowReadsCurrent
  BY ContentsRead
<1> QED
  BY <1>1, ContentInvHolds, PTL

\* Between writes the members and the cache hold one codeword (raidkm_row_write_go,
\* raidkm_row_rebuild_chunk, raidkm_row_sync_chunk).
THEOREM RowsAreCodewords == Spec /\ []Careful => []RowIsOneCodeword
<1>1. ContentInv => RowIsOneCodeword
  BY ContentsCode
<1> QED
  BY <1>1, ContentInvHolds, PTL

\* What was acknowledged is on every member the superblocks count
\* (raidkm_row_write_done).
THEOREM AckedIsOnRecord == Spec /\ []Careful => []AckedIsRecorded
<1>1. QuiesceInv /\ LockInv /\ ContentInv => AckedIsRecorded
  BY ContentsAcked
<1> QED
  BY <1>1, QuiesceInvHolds, LockInvHolds, ContentInvHolds, PTL

=============================================================================
