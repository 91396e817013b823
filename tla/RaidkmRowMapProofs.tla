-------------------------- MODULE RaidkmRowMapProofs --------------------------
(***************************************************************************)
(* A row with data is never loaded as unwritten: for any number of members, *)
(* rows and requests and any bounds, as long as behaviours are Careful, that *)
(* is, stay clear of three things the code does not guard against.          *)
(*                                                                         *)
(* RowMapInv is the argument.  In memory no row with data is U; a row that   *)
(* is not U in memory and not on disk either keeps need ahead of durable,    *)
(* through every stage of a flush and whoever moves it meanwhile; who passed  *)
(* the wait therefore writes to a row that is on disk; and the copies that a  *)
(* load may look at agree where they are of one generation.                   *)
(***************************************************************************)
EXTENDS RaidkmRowMap, TLAPS, WellFoundedInduction

Kinds == {"none", "write", "full", "discard"}
FlushStages == {"idle", "snap", "copy", "write", "end"}
RequestFields == {"kind", "stage", "row", "todo", "at", "blk", "val", "seq", "out", "image", "void"}
FlushFields == {"stage", "for", "page", "ok", "epoch"}
PassFields == {"kind", "stage", "row", "todo", "requested"}
Page == [gen : Nat, map : [Rows -> States], ok : BOOLEAN]

FunctionOn(f, S) == f = [x \in S |-> f[x]]

InSync == {i \in Members : member[i] = "insync"}

\* The copies of the page that a later load may look at: those of members in sync, and
\* that of a member whose rebuild wrote it its pages and goes on.
Seeded(i) ==
  /\ member[i] = "rebuilding"
  /\ offset # 0 \/ (pass.kind = "recover" /\ pass.stage \in {"row", "sync"})
Readable == {i \in Members : member[i] = "insync" \/ Seeded(i)}

\* The newest generation on the members.
Newest == IF flush.stage \in {"copy", "write"} THEN gen - 1 ELSE gen

\* A load now would find the row used.
OnDisk(row) == Best(pageOf).map[row] # "U"

\* The copies of the members in sync are one.
Alike == \A i, j \in InSync : pageOf[i] = pageOf[j]

\* What the code relies on and does not ensure (see the findings at raid_km-rowmap.c:755,
\* :591 and :556).  No copy of the page is lost, with its member or torn, while the copies
\* differ; a power failure that cuts a flush short finds no rebuild under way past its
\* start, which would go on without new pages; and the map has not changed since its
\* flush when a rebuild hands out pages of that flush's generation.
Careful ==
  /\ (\E i \in Members : LoseMember(i)) => Alike
  /\ (\E i \in InSync : pageOf[i].ok /\ ~pageOf'[i].ok) => Alike
  /\ (Crash /\ flush.stage = "write") => offset = 0
  /\ SeedPages => ~dirty

-----------------------------------------------------------------------------
(* The invariant, in parts. *)

Types ==
  /\ member \in [Members -> {"insync", "rebuilding", "faulty"}] /\ offset \in Nat
  /\ pageOf \in [Members -> Page]
  /\ map \in [Rows -> States] /\ dirty \in BOOLEAN
  /\ need \in Nat /\ epoch \in Nat /\ durable \in Nat /\ gen \in Nat
  /\ lock \in Writers \cup {Nobody}
  /\ seq \in [flush : Nat, write : Nat]
  /\ owner \in [Stripes -> Writers \cup {Nobody}]
  /\ DOMAIN flush = FlushFields /\ flush.stage \in FlushStages /\ flush.epoch \in Nat
  /\ DOMAIN pass = PassFields /\ pass.row \in Nat
  /\ FunctionOn(req, Writers)
  /\ \A r \in Writers : /\ DOMAIN req[r] = RequestFields
                        /\ req[r].kind \in Kinds /\ req[r].row \in Rows
                        /\ req[r].seq \in Nat /\ req[r].void \in BOOLEAN

\* A request owns stripes of its row between the wait and the last member's block.
Writing(r) == req[r].kind \in {"write", "full"} /\ ~req[r].void
Admitted(r, upto) ==
  /\ Writing(r)
  /\ req[r].stage = "land" \/ (req[r].stage = "parked" /\ req[r].seq <= upto)

Requests ==
  /\ \A r \in Writers :
       /\ req[r].todo \subseteq Of(req[r].row)
       /\ req[r].stage = "parked" => req[r].at \in Of(req[r].row)
       /\ req[r].stage \in {"need", "state"} => lock = r
       /\ req[r].kind = "none" => req[r].stage = "idle"
       /\ req[r].kind = "discard" => req[r].stage \notin {"need", "state", "rowsubmit", "rowwait"}
       /\ req[r].stage = "state" /\ map[req[r].row] = "U" => need = epoch + 1
  /\ \A s \in Stripes, r \in Writers : owner[s] = r =>
       /\ s[1] = req[r].row
       /\ req[r].stage \in {"rowsubmit", "rowwait", "parked", "land"}

\* A discard about to clear a row has voided the writes of it that came before.
Voided ==
  \A q, r \in Writers :
    /\ req[q].kind = "discard" /\ req[q].stage = "note"
    /\ req[r].kind \in {"write", "full"} /\ req[r].row = req[q].row
    => req[r].void

\* In memory no row is U that has data, or will have.
InMemory ==
  /\ \A r \in Writers :
       Writing(r) /\ req[r].stage \in {"route", "rowsubmit", "rowwait", "parked", "land"}
         => map[req[r].row] # "U"
  /\ \A s \in Stripes, d \in MapData : live[s][d] # {} => map[s[1]] # "U"

\* A row that is not U in memory and not on disk: need is ahead, and a flush will take it.
Ahead ==
  /\ need <= epoch + 1 /\ durable <= epoch
  /\ flush.stage \in {"copy", "write", "end"} => flush.epoch = epoch
  /\ flush.stage = "end" => flush.ok = TRUE
  /\ \A row \in Rows : map[row] # "U" =>
       /\ ~OnDisk(row) => need > durable
       /\ ~OnDisk(row) /\ flush.stage \in {"idle", "snap", "end"} => dirty
       /\ ~OnDisk(row) /\ flush.stage = "end" => need > epoch
       /\ flush.stage = "write" /\ flush.page.map[row] = "U" => need > epoch /\ dirty

\* What the wait is for.
Waited ==
  /\ seq.write <= seq.flush /\ (flush.for # "round" => seq.write = seq.flush)
  /\ flush.stage = "idle" => flush.for # "round"
  /\ \A r \in Writers :
       /\ Admitted(r, seq.write) => OnDisk(req[r].row)
       /\ flush.stage = "write" /\ Admitted(r, seq.flush) => flush.page.map[req[r].row] # "U"
       /\ flush.stage = "end" /\ Admitted(r, seq.flush) => OnDisk(req[r].row)
  /\ \A s \in Stripes, d \in MapData : live[s][d] # {} =>
       /\ OnDisk(s[1])
       /\ flush.stage = "write" => flush.page.map[s[1]] # "U"

\* One member at most is not in sync; no two copies of one generation differ in their U
\* rows; and a map that is not dirty is the newest copy's.
Copies ==
  /\ \A i, j \in Members : member[i] # "insync" /\ member[j] # "insync" => i = j
  /\ pass.kind = "recover" => \E i \in Members : member[i] = "rebuilding"
  /\ flush.stage \in {"copy", "write"} => gen > 0
  /\ flush.stage = "write" => flush.page \in Page /\ flush.page.gen = gen /\ flush.page.ok
  /\ \A i \in Readable : pageOf[i].ok => pageOf[i].gen <= Newest
  /\ Newest > 0 => \E i \in InSync : pageOf[i].ok /\ pageOf[i].gen = Newest
  /\ \A i, j \in Readable :
       pageOf[i].ok /\ pageOf[j].ok /\ pageOf[i].gen = pageOf[j].gen /\ pageOf[i].gen > 0
         => \A row \in Rows : pageOf[i].map[row] = "U" <=> pageOf[j].map[row] = "U"
  /\ ~dirty /\ flush.stage \in {"idle", "snap", "end"} =>
       \A i \in Readable : pageOf[i].ok /\ pageOf[i].gen = gen /\ gen > 0 =>
         \A row \in Rows : pageOf[i].map[row] = "U" <=> map[row] = "U"
  /\ ~dirty /\ flush.stage = "write" =>
       \A row \in Rows : flush.page.map[row] = "U" <=> map[row] = "U"

RowMapInv == Types /\ Requests /\ Voided /\ InMemory /\ Ahead /\ Waited /\ Copies

\* The copies that ins have go up to generation newest, and those of it are one.
UpTo(newest, ins, pages) ==
  /\ newest \in Nat /\ ins \subseteq Members /\ pages \in [Members -> Page]
  /\ \A i \in ins : pages[i].ok => pages[i].gen <= newest
  /\ newest > 0 => \E i \in ins : pages[i].ok /\ pages[i].gen = newest
  /\ newest > 0 => \A i, j \in ins :
       pages[i].ok /\ pages[j].ok /\ pages[i].gen = newest /\ pages[j].gen = newest
         => \A row \in Rows : pages[i].map[row] = "U" <=> pages[j].map[row] = "U"

\* Once no member takes a page, what is on the members stays as it is until an assembly:
\* all of them are in sync there, no pass runs, and no row with data is U on their pages.
Lost ==
  /\ member = [i \in Members |-> "insync"] /\ offset \in Nat /\ pass = NoPass
  /\ pageOf \in [Members -> Page]
  /\ \E newest : UpTo(newest, Members, pageOf)
  /\ \A i, j \in Members :
       pageOf[i].ok /\ pageOf[j].ok /\ pageOf[i].gen = pageOf[j].gen /\ pageOf[i].gen > 0
         => \A row \in Rows : pageOf[i].map[row] = "U" <=> pageOf[j].map[row] = "U"
  /\ \A s \in Stripes, d \in MapData : live[s][d] # {} => OnDisk(s[1])

MapInv == IF broken THEN Lost ELSE RowMapInv
-----------------------------------------------------------------------------
(* What a load finds: Best, with the members in sync as a parameter. *)

Found(ins, pages) ==
  LET good == {i \in ins : pages[i].ok /\ pages[i].gen > 0}
      First(i) == \A j \in good : pages[j].gen < pages[i].gen \/ (pages[j].gen = pages[i].gen /\ i <= j)
  IN  IF good # {} THEN pages[CHOOSE i \in good : First(i)]
      ELSE IF \E i \in ins : ~pages[i].ok THEN [gen |-> 0, map |-> [row \in Rows |-> "N"], ok |-> TRUE]
      ELSE [gen |-> 0, map |-> [row \in Rows |-> "U"], ok |-> TRUE]

LEMMA BestIsFound ==
  /\ \A row : OnDisk(row) <=> Found(InSync, pageOf).map[row] # "U"
  /\ \A row : OnDisk(row)' <=> Found(InSync', pageOf').map[row] # "U"
  /\ member' = member => Best(pageOf') = Found(InSync', pageOf')
<1>1. \A pages : Best(pages) = Found(InSync, pages)
  BY DEF Best, Found, InSync
<1>2. Best(pageOf)' = Found(InSync', pageOf')
  BY DEF Best, Found, InSync
<1>3. member' = member => InSync' = InSync
  BY DEF InSync
<1> QED
  BY <1>1, <1>2, <1>3 DEF OnDisk

\* Some copy of a set of good ones is the newest, and the first of the newest.
LEMMA FirstOfNewest ==
  ASSUME NEW pages \in [Members -> Page], NEW good \in SUBSET Members, NEW k \in good,
         \A i \in good : pages[i].gen <= pages[k].gen
  PROVE  \E i \in good :
           /\ \A j \in good : pages[j].gen < pages[i].gen \/ (pages[j].gen = pages[i].gen /\ i <= j)
           /\ pages[i].gen = pages[k].gen
<1> DEFINE T == {i \in good : pages[i].gen = pages[k].gen}
<1>1. \A j \in good : j \in Nat /\ pages[j].gen \in Nat
  BY MapAssumption DEF Members, Page
<1>2. T \subseteq Nat /\ k \in T
  BY <1>1
<1> HIDE DEF T
<1>3. PICK i \in T : \A j \in T : ~(<<j, i>> \in OpToRel(<, Nat))
  BY <1>2, NatLessThanWellFounded, WFMin
<1>4. \A j \in T : ~(j < i)
  BY <1>2, <1>3 DEF OpToRel
<1>5. i \in good /\ pages[i].gen = pages[k].gen
  BY <1>3 DEF T
<1>6. \A j \in good : pages[j].gen = pages[k].gen => i <= j
  BY <1>1, <1>4, <1>5 DEF T
<1>7. \A j \in good : pages[j].gen < pages[i].gen \/ (pages[j].gen = pages[i].gen /\ i <= j)
  BY <1>1, <1>5, <1>6
<1> QED
  BY <1>5, <1>7

\* The load takes a copy of the newest generation.
LEMMA NewestFound ==
  ASSUME NEW ins \in SUBSET Members, NEW pages \in [Members -> Page],
         NEW k \in ins, pages[k].ok, pages[k].gen > 0,
         \A i \in ins : pages[i].ok => pages[i].gen <= pages[k].gen
  PROVE  \E i \in ins : pages[i].ok /\ pages[i].gen = pages[k].gen /\ Found(ins, pages) = pages[i]
<1> DEFINE good == {i \in ins : pages[i].ok /\ pages[i].gen > 0}
           First(i) == \A j \in good : pages[j].gen < pages[i].gen \/ (pages[j].gen = pages[i].gen /\ i <= j)
           b == CHOOSE i \in good : First(i)
<1>1. k \in good /\ good \subseteq Members
  OBVIOUS
<1>2. Found(ins, pages) = pages[b]
  BY <1>1 DEF Found
<1>3. \A i \in good : pages[i].gen <= pages[k].gen
  OBVIOUS
<1>4. \E i \in good : First(i)
  <2> HIDE DEF good
  <2> QED
    BY <1>1, <1>3, FirstOfNewest
<1>5. b \in good /\ First(b)
  <2> HIDE DEF good, First
  <2> QED
    BY <1>4
<1>6. pages[b].gen = pages[k].gen
  <2>1. pages[k].gen <= pages[b].gen /\ pages[b].gen <= pages[k].gen
    <3> HIDE DEF b
    <3> QED
      BY <1>1, <1>3, <1>5 DEF Page
  <2>2. pages[k].gen \in Nat /\ pages[b].gen \in Nat
    <3> HIDE DEF b
    <3> QED
      BY <1>1, <1>5 DEF Page
  <2> QED
    BY <2>1, <2>2
<1> HIDE DEF b
<1> QED
  BY <1>2, <1>5, <1>6

\* On disk means: every copy of the newest generation says that the row is used; or, if
\* no member in sync has any, one of them is damaged.
LEMMA FoundIs ==
  ASSUME NEW ins, NEW pages, NEW newest, UpTo(newest, ins, pages), NEW row \in Rows
  PROVE  /\ Found(ins, pages).gen = newest
         /\ Found(ins, pages).map \in [Rows -> States]
         /\ newest > 0 => \A k \in ins : pages[k].ok /\ pages[k].gen = newest =>
              (Found(ins, pages).map[row] # "U" <=> pages[k].map[row] # "U")
         /\ newest = 0 => (Found(ins, pages).map[row] # "U" <=> \E i \in ins : ~pages[i].ok)
<1> USE DEF UpTo
<1>1. CASE newest > 0
  <2>1. PICK k \in ins : pages[k].ok /\ pages[k].gen = newest
    BY <1>1
  <2>2. PICK i \in ins : pages[i].ok /\ pages[i].gen = newest /\ Found(ins, pages) = pages[i]
    BY <1>1, <2>1, NewestFound
  <2>3. pages[i] \in Page
    OBVIOUS
  <2> QED
    BY <1>1, <2>2, <2>3 DEF Page
<1>2. CASE newest = 0
  <2>1. \A i \in ins : ~(pages[i].ok /\ pages[i].gen > 0)
    BY <1>2 DEF Page
  <2>2. Found(ins, pages) = IF \E i \in ins : ~pages[i].ok
                              THEN [gen |-> 0, map |-> [x \in Rows |-> "N"], ok |-> TRUE]
                              ELSE [gen |-> 0, map |-> [x \in Rows |-> "U"], ok |-> TRUE]
    BY <2>1 DEF Found
  <2> QED
    BY <1>2, <2>2 DEF States
<1> QED
  BY <1>1, <1>2

LEMMA OnDiskIs ==
  ASSUME Types, Copies, NEW row \in Rows
  PROVE  /\ Newest \in Nat
         /\ Newest > 0 => \A k \in InSync : pageOf[k].ok /\ pageOf[k].gen = Newest =>
              (OnDisk(row) <=> pageOf[k].map[row] # "U")
         /\ Newest = 0 => (OnDisk(row) <=> \E i \in InSync : ~pageOf[i].ok)
<1>1. Newest \in Nat
  BY DEF Types, Copies, Newest
<1>2. InSync \subseteq Readable /\ InSync \subseteq Members /\ pageOf \in [Members -> Page]
  BY DEF InSync, Readable, Types
<1>3. UpTo(Newest, InSync, pageOf)
  <2>1. Newest > 0 => \A i, j \in InSync :
          pageOf[i].ok /\ pageOf[j].ok /\ pageOf[i].gen = Newest /\ pageOf[j].gen = Newest
            => \A x \in Rows : pageOf[i].map[x] = "U" <=> pageOf[j].map[x] = "U"
    BY <1>2 DEF Copies
  <2>2. \A i \in InSync : pageOf[i].ok => pageOf[i].gen <= Newest
    BY <1>2 DEF Copies
  <2>3. Newest > 0 => \E i \in InSync : pageOf[i].ok /\ pageOf[i].gen = Newest
    BY DEF Copies
  <2> QED
    BY <1>1, <1>2, <2>1, <2>2, <2>3 DEF UpTo
<1>4. /\ Newest > 0 => \A k \in InSync : pageOf[k].ok /\ pageOf[k].gen = Newest =>
           (Found(InSync, pageOf).map[row] # "U" <=> pageOf[k].map[row] # "U")
      /\ Newest = 0 => (Found(InSync, pageOf).map[row] # "U" <=> \E i \in InSync : ~pageOf[i].ok)
  BY <1>3, FoundIs
<1>5. OnDisk(row) <=> Found(InSync, pageOf).map[row] # "U"
  BY BestIsFound
<1> QED
  BY <1>1, <1>4, <1>5

\* A new array is an array with blank copies, and no row is used.
THEOREM RowMapInit == Init => RowMapInv
<1> SUFFICES ASSUME Init PROVE RowMapInv
  OBVIOUS
<1>1. Types
  <2>1. 0 \in Rows /\ 0 \in Nat
    BY MapAssumption DEF Rows
  <2>2. /\ member \in [Members -> {"insync", "rebuilding", "faulty"}]
        /\ pageOf \in [Members -> Page] /\ map \in [Rows -> States]
    BY DEF Init, Page, States
  <2>3. /\ DOMAIN flush = FlushFields /\ flush.stage \in FlushStages /\ flush.epoch \in Nat
        /\ DOMAIN pass = PassFields /\ pass.row \in Nat
    BY DEF Init, NoFlush, NoPass, FlushFields, PassFields, FlushStages
  <2>4. /\ FunctionOn(req, Writers)
        /\ \A r \in Writers : /\ DOMAIN req[r] = RequestFields
                              /\ req[r].kind \in Kinds /\ req[r].row \in Rows
                              /\ req[r].seq \in Nat /\ req[r].void \in BOOLEAN
    BY <2>1 DEF Init, NoRequest, RequestFields, FunctionOn, Kinds
  <2>5. lock \in Writers \cup {Nobody} /\ owner \in [Stripes -> Writers \cup {Nobody}]
    BY DEF Init
  <2> QED
    BY <2>2, <2>3, <2>4, <2>5 DEF Types, Init
<1>2. Requests /\ Voided /\ InMemory
  BY MapAssumption DEF Init, Requests, Voided, InMemory, NoRequest, Writing
<1>3. \A row \in Rows : ~OnDisk(row)
  BY DEF Init, OnDisk, Best
<1>4. Ahead /\ Waited
  BY <1>3 DEF Init, Ahead, Waited, NoRequest, NoFlush, Writing, Admitted
<1>5. Copies
  BY DEF Init, Copies, NoFlush, NoPass, Newest, Readable, Seeded, InSync
<1> QED
  BY <1>1, <1>2, <1>4, <1>5 DEF RowMapInv

-----------------------------------------------------------------------------
(* What the steps of a request leave alone. *)

\* The row is on disk, and stays there with the flush under way.
Settled(row) == OnDisk(row) /\ (flush.stage = "write" => flush.page.map[row] # "U")

LEMMA OnDiskStays ==
  ASSUME UNCHANGED <<member, pageOf>>, NEW row
  PROVE  OnDisk(row)' <=> OnDisk(row)
BY BestIsFound DEF InSync

\* The map changes under a lock: a row that leaves U is dirty, and need is the next epoch.
LEMMA MapMoves ==
  ASSUME Types, Ahead, Copies, UNCHANGED <<member, offset, pageOf, gen, epoch, durable, flush, pass>>,
         need' \in Nat, need <= need', need' <= epoch + 1,
         \/ dirty' = TRUE
         \/ dirty' = dirty /\ \A row \in Rows : map'[row] = "U" <=> map[row] = "U",
         \A row \in Rows : map'[row] # "U" /\ map[row] = "U" => need' = epoch + 1
  PROVE  Ahead' /\ Copies'
<1>1. \A row : OnDisk(row)' <=> OnDisk(row)
  BY OnDiskStays
<1>2. Ahead'
  <2>1. /\ need' <= epoch' + 1 /\ durable' <= epoch'
        /\ flush'.stage \in {"copy", "write", "end"} => flush'.epoch = epoch'
        /\ flush'.stage = "end" => flush'.ok = TRUE
    BY DEF Ahead
  <2>2. ASSUME NEW row \in Rows, map'[row] # "U"
        PROVE  /\ ~OnDisk(row)' => need' > durable'
               /\ ~OnDisk(row)' /\ flush'.stage \in {"idle", "snap", "end"} => dirty'
               /\ ~OnDisk(row)' /\ flush'.stage = "end" => need' > epoch'
               /\ flush'.stage = "write" /\ flush'.page.map[row] = "U" => need' > epoch' /\ dirty'
    <3>1. CASE map[row] = "U"
      BY <1>1, <2>2, <3>1 DEF Ahead, Types
    <3>2. CASE map[row] # "U"
      BY <1>1, <2>2, <3>2 DEF Ahead, Types
    <3> QED
      BY <3>1, <3>2
  <2> QED
    BY <2>1, <2>2 DEF Ahead
<1>3. Copies'
  <2>1. Readable' = Readable /\ InSync' = InSync /\ Newest' = Newest
    BY DEF Readable, InSync, Seeded, Newest
  <2> QED
    BY <2>1 DEF Copies
<1> QED
  BY <1>2, <1>3

LEMMA WaitedKeeps ==
  ASSUME Types, Waited, UNCHANGED <<member, pageOf, flush, seq>>,
         \A q \in Writers, n \in {seq.write, seq.flush} : Admitted(q, n)' =>
           \/ Admitted(q, n) /\ req'[q].row = req[q].row
           \/ Settled(req'[q].row),
         \A s \in Stripes, d \in MapData : live'[s][d] # {} => live[s][d] # {} \/ Settled(s[1])
  PROVE  Waited'
<1>1. \A row : OnDisk(row)' <=> OnDisk(row)
  BY OnDiskStays
<1>2. ASSUME NEW q \in Writers
      PROVE  /\ Admitted(q, seq.write)' => OnDisk(req[q].row)'
             /\ flush'.stage = "write" /\ Admitted(q, seq.flush)' => flush'.page.map[req'[q].row] # "U"
             /\ flush'.stage = "end" /\ Admitted(q, seq.flush)' => OnDisk(req[q].row)'
  BY <1>1 DEF Waited, Settled
<1>3. ASSUME NEW s \in Stripes, NEW d \in MapData, live'[s][d] # {}
      PROVE  /\ OnDisk(s[1])'
             /\ flush'.stage = "write" => flush'.page.map[s[1]] # "U"
  BY <1>1, <1>3 DEF Waited, Settled
<1> QED
  BY <1>2, <1>3 DEF Waited

\* Past the wait a row is settled: at once, or when the round it waited for is over.
LEMMA PastTheWait ==
  ASSUME Types, Ahead, NEW row \in Rows, map[row] # "U", ~MustWait
  PROVE  Settled(row)
BY DEF Types, Ahead, MustWait, Settled

LEMMA AdmittedIsSettled ==
  ASSUME Types, Waited, NEW r \in Writers, Admitted(r, seq.write)
  PROVE  Settled(req[r].row)
<1>1. Admitted(r, seq.flush)
  BY DEF Types, Waited, Admitted
<1> QED
  BY <1>1 DEF Waited, Settled

-----------------------------------------------------------------------------
(* The steps of a request. *)

\* q is as it was.
Still(q) == req'[q] = req[q]
\* q went to another stage, and no more.
OnlyStage(q) ==
  /\ DOMAIN req'[q] = RequestFields
  /\ req'[q].kind = req[q].kind /\ req'[q].row = req[q].row /\ req'[q].todo = req[q].todo
  /\ req'[q].at = req[q].at /\ req'[q].blk = req[q].blk /\ req'[q].seq = req[q].seq
  /\ req'[q].void = req[q].void

LEMMA StageChange ==
  ASSUME Types, NEW r \in Writers, NEW t, req' = [req EXCEPT ![r].stage = t]
  PROVE  /\ FunctionOn(req', Writers) /\ \A q \in Writers \ {r} : Still(q)
         /\ OnlyStage(r) /\ req'[r].stage = t
BY DEF Types, FunctionOn, Still, OnlyStage, RequestFields

LEMMA NoRequestIs ==
  /\ DOMAIN NoRequest = RequestFields /\ NoRequest.kind = "none" /\ NoRequest.stage = "idle"
  /\ NoRequest.row \in Rows /\ NoRequest.todo = {} /\ NoRequest.seq \in Nat
  /\ NoRequest.void \in BOOLEAN /\ NoRequest.kind \in Kinds
<1>1. 0 \in Rows
  BY MapAssumption DEF Rows
<1> QED
  BY <1>1 DEF NoRequest, RequestFields, Kinds

LEMMA NoteSameKeeps ==
  ASSUME RowMapInv, NEW r \in Writers, NoteSame(r)
  PROVE  RowMapInv'
<1> USE DEF RowMapInv
<1>1. /\ FunctionOn(req', Writers) /\ \A q \in Writers \ {r} : Still(q)
      /\ OnlyStage(r) /\ req'[r].stage = "route"
  BY StageChange DEF NoteSame
<1>2. Types'
  BY <1>1 DEF NoteSame, onDisk, core, bits, Types, Still, OnlyStage
<1>3. Requests' /\ Voided' /\ InMemory'
  BY <1>1 DEF NoteSame, Moves, onDisk, core, bits, Types, Still, OnlyStage, Requests, Voided, InMemory, Writing
<1>4. Ahead' /\ Copies'
  <2>1. /\ UNCHANGED <<member, offset, pageOf, gen, epoch, durable, flush, pass>>
        /\ UNCHANGED <<map, dirty, need>>
    BY DEF NoteSame, onDisk, core, bits
  <2>2. need \in Nat /\ need <= epoch + 1
    BY DEF Types, Ahead
  <2> QED
    BY <2>1, <2>2, MapMoves
<1>5. Waited'
  BY <1>1, WaitedKeeps DEF NoteSame, onDisk, core, bits, Still, Admitted, Writing
<1> QED
  BY <1>2, <1>3, <1>4, <1>5

LEMMA NoteLockKeeps ==
  ASSUME RowMapInv, NEW r \in Writers, NoteLock(r)
  PROVE  RowMapInv'
<1> USE DEF RowMapInv
<1>1. /\ FunctionOn(req', Writers) /\ \A q \in Writers \ {r} : Still(q)
      /\ OnlyStage(r) /\ req'[r].stage = "need"
  BY StageChange DEF NoteLock
<1>2. Types'
  BY <1>1 DEF NoteLock, onDisk, core, bits, Types, Still, OnlyStage
<1>3. Requests' /\ Voided' /\ InMemory'
  BY <1>1, MapAssumption DEF NoteLock, Moves, onDisk, core, bits, Types, Still, OnlyStage, Requests, Voided, InMemory, Writing
<1>4. Ahead' /\ Copies'
  <2>1. /\ UNCHANGED <<member, offset, pageOf, gen, epoch, durable, flush, pass>>
        /\ UNCHANGED <<map, dirty, need>>
    BY DEF NoteLock, onDisk, core, bits
  <2>2. need \in Nat /\ need <= epoch + 1
    BY DEF Types, Ahead
  <2> QED
    BY <2>1, <2>2, MapMoves
<1>5. Waited'
  BY <1>1, WaitedKeeps DEF NoteLock, onDisk, core, bits, Still, Admitted, Writing
<1> QED
  BY <1>2, <1>3, <1>4, <1>5

LEMMA NoteNeedKeeps ==
  ASSUME RowMapInv, NEW r \in Writers, NoteNeed(r)
  PROVE  RowMapInv'
<1> USE DEF RowMapInv
<1>1. /\ FunctionOn(req', Writers) /\ \A q \in Writers \ {r} : Still(q)
      /\ OnlyStage(r) /\ req'[r].stage = "state"
  BY StageChange DEF NoteNeed
<1>2. Types'
  BY <1>1 DEF NoteNeed, onDisk, core, bits, Types, Still, OnlyStage
<1>3. Requests' /\ Voided' /\ InMemory'
  BY <1>1, MapAssumption DEF NoteNeed, Moves, onDisk, core, bits, Types, Still, OnlyStage, Requests, Voided, InMemory, Writing
<1>4. Ahead' /\ Copies'
  <2>1. /\ UNCHANGED <<member, offset, pageOf, gen, epoch, durable, flush, pass>>
        /\ UNCHANGED <<map, dirty>> /\ need' \in {need, epoch + 1}
    BY DEF NoteNeed, onDisk, core, bits
  <2>2. need \in Nat /\ epoch \in Nat /\ need <= epoch + 1
    BY DEF Types, Ahead
  <2>3. need' \in Nat /\ need <= need' /\ need' <= epoch + 1
    BY <2>1, <2>2
  <2> QED
    BY <2>1, <2>3, MapMoves
<1>5. Waited'
  BY <1>1, WaitedKeeps DEF NoteNeed, onDisk, core, bits, Still, Admitted, Writing
<1> QED
  BY <1>2, <1>3, <1>4, <1>5

LEMMA NoteStateKeeps ==
  ASSUME RowMapInv, NEW r \in Writers, NoteState(r)
  PROVE  RowMapInv'
<1> USE DEF RowMapInv
<1>1. /\ FunctionOn(req', Writers) /\ \A q \in Writers \ {r} : Still(q)
      /\ OnlyStage(r) /\ req'[r].stage = "route"
  BY StageChange DEF NoteState
<1>2. /\ map' \in [Rows -> States] /\ dirty' \in BOOLEAN
      /\ \A row \in Rows : row # req[r].row => map'[row] = map[row]
      /\ map'[req[r].row] # "U"
      /\ dirty' = TRUE \/ (dirty' = dirty /\ map' = map)
  BY DEF NoteState, Moves, Types, States, onDisk, core, bits
<1>3. map[req[r].row] = "U" => need' = epoch + 1
  BY DEF NoteState, Requests, onDisk, core, bits
<1>4. Types'
  BY <1>1, <1>2 DEF NoteState, onDisk, core, bits, Types, Still, OnlyStage
<1>5. Requests' /\ Voided' /\ InMemory'
  <2>1. req[r].stage = "state" /\ UNCHANGED <<need, epoch, owner, live>>
    BY DEF NoteState, onDisk, core, bits
  <2>2. \A q \in Writers \ {r} : req[q].stage \notin {"need", "state"}
    BY <2>1, MapAssumption DEF Requests
  <2>3. Requests'
    BY <1>1, <2>1, <2>2 DEF Still, OnlyStage, Requests
  <2>4. Voided'
    BY <1>1, <2>1 DEF Still, OnlyStage, Voided
  <2>5. \A row \in Rows : map[row] # "U" => map'[row] # "U"
    BY <1>2
  <2>6. \A q \in Writers : req[q].row \in Rows
    BY DEF Types
  <2>7. \A s \in Stripes : s[1] \in Rows
    BY DEF Stripes
  <2>8. InMemory'
    BY <1>1, <1>2, <2>1, <2>5, <2>6, <2>7 DEF Still, OnlyStage, InMemory, Writing
  <2> QED
    BY <2>3, <2>4, <2>8
<1>6. Ahead' /\ Copies'
  <2>1. UNCHANGED <<member, offset, pageOf, gen, epoch, durable, flush, pass, need>>
    BY DEF NoteState, onDisk, core, bits
  <2>2. need' \in Nat /\ need <= need' /\ need' <= epoch + 1
    BY <2>1 DEF Types, Ahead
  <2>3. \A row \in Rows : map'[row] # "U" /\ map[row] = "U" => need' = epoch + 1
    BY <1>2, <1>3
  <2>4. dirty' = TRUE \/ (dirty' = dirty /\ \A row \in Rows : map'[row] = "U" <=> map[row] = "U")
    BY <1>2
  <2> QED
    BY <2>1, <2>2, <2>3, <2>4, MapMoves
<1>7. Waited'
  BY <1>1, WaitedKeeps DEF NoteState, onDisk, core, bits, Still, Admitted, Writing
<1> QED
  BY <1>4, <1>5, <1>6, <1>7

LEMMA NoteDiscardKeeps ==
  ASSUME RowMapInv, NEW r \in Writers, NoteDiscard(r)
  PROVE  RowMapInv'
<1> USE DEF RowMapInv
<1>0. /\ req[r].kind = "discard" /\ req[r].stage = "note" /\ lock = Nobody
      /\ UNCHANGED <<member, offset, pageOf, gen, epoch, durable, flush, seq, pass, need, owner, lock>>
  BY DEF NoteDiscard, onDisk, core, bits
<1>1. /\ FunctionOn(req', Writers) /\ \A q \in Writers \ {r} : Still(q)
      /\ (OnlyStage(r) /\ req'[r].stage = "route") \/ req'[r] = NoRequest
  BY DEF NoteDiscard, Types, FunctionOn, Still, OnlyStage, RequestFields
<1>2. /\ map' \in [Rows -> States] /\ dirty' \in BOOLEAN
      /\ \A row \in Rows : row # req[r].row => map'[row] = map[row]
      /\ map'[req[r].row] = "U"
      /\ dirty' = TRUE \/ (dirty' = dirty /\ map[req[r].row] = "U")
  BY DEF NoteDiscard, Types, States, onDisk, core, bits
<1>3. \A s \in Stripes, d \in MapData : live'[s][d] # {} => live[s][d] # {} /\ s[1] # req[r].row
  BY DEF NoteDiscard
<1>5. Types'
  <2>1. \A q \in Writers : /\ DOMAIN req'[q] = RequestFields
                           /\ req'[q].kind \in Kinds /\ req'[q].row \in Rows
                           /\ req'[q].seq \in Nat /\ req'[q].void \in BOOLEAN
    <3>1. \A q \in Writers \ {r} : /\ DOMAIN req'[q] = RequestFields
                           /\ req'[q].kind \in Kinds /\ req'[q].row \in Rows
                           /\ req'[q].seq \in Nat /\ req'[q].void \in BOOLEAN
      BY <1>1 DEF Types, Still
    <3>2. CASE OnlyStage(r)
      BY <3>1, <3>2 DEF Types, OnlyStage
    <3>3. CASE req'[r] = NoRequest
      <4>1. /\ DOMAIN req'[r] = RequestFields
            /\ req'[r].kind \in Kinds /\ req'[r].row \in Rows
            /\ req'[r].seq \in Nat /\ req'[r].void \in BOOLEAN
        <5> HIDE DEF NoRequest, RequestFields
        <5> QED
          BY <3>3, NoRequestIs
      <4> QED
        BY <3>1, <4>1
    <3> QED
      BY <1>1, <3>2, <3>3
  <2> QED
    BY <1>0, <1>1, <1>2, <2>1 DEF Types
<1>6. Requests'
  <2>1. \A q \in Writers : req[q].stage \notin {"need", "state"}
    BY <1>0, MapAssumption DEF Requests
  <2>2. \A s \in Stripes : owner[s] # r
    BY <1>0 DEF Requests
  <2> QED
    BY <1>0, <1>1, <2>1, <2>2 DEF Still, OnlyStage, NoRequest, Requests
<1>7. Voided'
  BY <1>0, <1>1 DEF Still, OnlyStage, Voided, NoRequest
<1>8. InMemory'
  <2>1. \A q \in Writers : Writing(q) => req[q].row # req[r].row
    BY <1>0 DEF Voided, Writing
  <2>2. \A q \in Writers : req[q].row \in Rows
    BY DEF Types
  <2>3. \A s \in Stripes : s[1] \in Rows
    BY DEF Stripes
  <2>4. ~Writing(r)'
    BY <1>0, <1>1 DEF OnlyStage, NoRequest, Writing
  <2>5. \A q \in Writers \ {r} : Writing(q)' => Writing(q)
    BY <1>1 DEF Still, Writing
  <2> QED
    BY <1>1, <1>2, <1>3, <2>1, <2>2, <2>3, <2>4, <2>5 DEF Still, InMemory
<1>9. Ahead' /\ Copies'
  <2>1. need' \in Nat /\ need <= need' /\ need' <= epoch + 1
    BY <1>0 DEF Types, Ahead
  <2>2. dirty' = TRUE \/ (dirty' = dirty /\ \A row \in Rows : map'[row] = "U" <=> map[row] = "U")
    BY <1>2
  <2>3. \A row \in Rows : ~(map'[row] # "U" /\ map[row] = "U")
    BY <1>2
  <2> QED
    BY <1>0, <2>1, <2>2, <2>3, MapMoves
<1>10. Waited'
  BY <1>0, <1>1, <1>3, WaitedKeeps DEF Still, OnlyStage, NoRequest, Admitted, Writing
<1> QED
  BY <1>5, <1>6, <1>7, <1>8, <1>9, <1>10

LEMMA SubmitKeeps ==
  ASSUME RowMapInv, NEW r \in Writers, Submit(r)
  PROVE  RowMapInv'
<1> USE DEF RowMapInv
<1>0. /\ req[r].stage = "idle"
      /\ UNCHANGED <<member, offset, pageOf, gen, epoch, durable, flush, seq, pass, need, owner, lock,
                     map, dirty, live>>
  BY DEF Submit, onDisk, core, bits
<1> DEFINE New(x) == /\ DOMAIN x = RequestFields
                     /\ x.kind \in Kinds \ {"none"} /\ x.stage = "note" /\ x.row \in Rows
                     /\ x.todo \subseteq Of(x.row) /\ x.seq = 0 /\ x.void \in BOOLEAN
<1>1. \/ \E x : /\ New(x) /\ x.kind \in {"write", "full"} /\ x.void = Discarding(x.row)
                /\ req' = [req EXCEPT ![r] = x]
      \/ \E x : /\ New(x) /\ x.kind = "discard"
                /\ req' = [q \in Writers |-> IF q = r THEN x
                           ELSE IF req[q].row = x.row THEN [req[q] EXCEPT !.void = TRUE] ELSE req[q]]
  <2> USE DEF NoRequest, RequestFields, Kinds, Discarding
  <2>1. ASSUME NEW row \in Rows, NEW s \in Of(row), NEW d \in MapBlocks,
               req' = [req EXCEPT ![r] = [NoRequest EXCEPT !.kind = "write", !.stage = "note", !.row = row,
                         !.todo = {s}, !.blk = {d}, !.val = wrote + 1, !.void = Discarding(row)]]
        PROVE  \E x : /\ New(x) /\ x.kind \in {"write", "full"} /\ x.void = Discarding(x.row)
                      /\ req' = [req EXCEPT ![r] = x]
    <3> WITNESS [NoRequest EXCEPT !.kind = "write", !.stage = "note", !.row = row,
                         !.todo = {s}, !.blk = {d}, !.val = wrote + 1, !.void = Discarding(row)]
    <3> QED
      BY <2>1
  <2>2. ASSUME NEW row \in Rows,
               req' = [req EXCEPT ![r] = [NoRequest EXCEPT !.kind = "full", !.stage = "note", !.row = row,
                         !.todo = Of(row), !.blk = MapData, !.val = wrote + 1, !.void = Discarding(row)]]
        PROVE  \E x : /\ New(x) /\ x.kind \in {"write", "full"} /\ x.void = Discarding(x.row)
                      /\ req' = [req EXCEPT ![r] = x]
    <3> WITNESS [NoRequest EXCEPT !.kind = "full", !.stage = "note", !.row = row,
                         !.todo = Of(row), !.blk = MapData, !.val = wrote + 1, !.void = Discarding(row)]
    <3> QED
      BY <2>2
  <2>3. ASSUME NEW row \in Rows,
               req' = [q \in Writers |->
                 IF q = r THEN [NoRequest EXCEPT !.kind = "discard", !.stage = "note", !.row = row,
                                  !.todo = Of(row), !.blk = MapData]
                 ELSE IF req[q].row = row THEN [req[q] EXCEPT !.void = TRUE] ELSE req[q]]
        PROVE  \E x : /\ New(x) /\ x.kind = "discard"
                      /\ req' = [q \in Writers |-> IF q = r THEN x
                           ELSE IF req[q].row = x.row THEN [req[q] EXCEPT !.void = TRUE] ELSE req[q]]
    <3> WITNESS [NoRequest EXCEPT !.kind = "discard", !.stage = "note", !.row = row,
                                  !.todo = Of(row), !.blk = MapData]
    <3> QED
      BY <2>3
  <2>4. \E row \in Rows :
          \/ \E t \in Of(row), d \in MapBlocks :
               req' = [req EXCEPT ![r] = [NoRequest EXCEPT !.kind = "write", !.stage = "note", !.row = row,
                         !.todo = {t}, !.blk = {d}, !.val = wrote + 1, !.void = Discarding(row)]]
          \/ req' = [req EXCEPT ![r] = [NoRequest EXCEPT !.kind = "full", !.stage = "note", !.row = row,
                         !.todo = Of(row), !.blk = MapData, !.val = wrote + 1, !.void = Discarding(row)]]
          \/ req' = [q \in Writers |->
                 IF q = r THEN [NoRequest EXCEPT !.kind = "discard", !.stage = "note", !.row = row,
                                  !.todo = Of(row), !.blk = MapData]
                 ELSE IF req[q].row = row THEN [req[q] EXCEPT !.void = TRUE] ELSE req[q]]
    <3> HIDE DEF NoRequest, Discarding
    <3> QED
      BY DEF Submit
  <2> HIDE DEF New, NoRequest, Discarding
  <2> QED
    BY <2>1, <2>2, <2>3, <2>4
<1> HIDE DEF New
<1>2. /\ FunctionOn(req', Writers) /\ New(req'[r])
      /\ \A q \in Writers \ {r} :
           /\ DOMAIN req'[q] = RequestFields
           /\ req'[q].kind = req[q].kind /\ req'[q].row = req[q].row
           /\ req'[q].todo = req[q].todo /\ req'[q].at = req[q].at
           /\ req'[q].seq = req[q].seq /\ req'[q].stage = req[q].stage
           /\ req'[q].void \in {TRUE, req[q].void}
           /\ req'[r].kind = "discard" /\ req[q].row = req'[r].row => req'[q].void = TRUE
      /\ req'[r].kind # "discard" => \A q \in Writers \ {r} :
           req[q].kind = "discard" /\ req[q].row = req'[r].row => req'[r].void = TRUE
  <2>1. ASSUME NEW x, New(x), x.kind \in {"write", "full"}, x.void = Discarding(x.row),
               req' = [req EXCEPT ![r] = x]
        PROVE  <1>2
    <3>1. \A q \in Writers \ {r} : req'[q] = req[q]
      BY <2>1 DEF Types, FunctionOn
    <3>2. FunctionOn(req', Writers) /\ req'[r] = x
      BY <2>1 DEF Types, FunctionOn
    <3>3. \A q \in Writers : req[q].kind = "discard" /\ req[q].row = x.row => x.void = TRUE
      BY <2>1 DEF Discarding
    <3> QED
      BY <2>1, <3>1, <3>2, <3>3 DEF Types
  <2>2. ASSUME NEW x, New(x), x.kind = "discard",
               req' = [q \in Writers |-> IF q = r THEN x
                           ELSE IF req[q].row = x.row THEN [req[q] EXCEPT !.void = TRUE] ELSE req[q]]
        PROVE  <1>2
    BY <2>2 DEF Types, FunctionOn, RequestFields
  <2> QED
    BY <1>1, <2>1, <2>2
<1> USE DEF New
<1>3. Types'
  <2>1. \A q \in Writers : /\ DOMAIN req'[q] = RequestFields
                           /\ req'[q].kind \in Kinds /\ req'[q].row \in Rows
                           /\ req'[q].seq \in Nat /\ req'[q].void \in BOOLEAN
    <3>1. \A q \in Writers \ {r} : /\ DOMAIN req'[q] = RequestFields
                           /\ req'[q].kind \in Kinds /\ req'[q].row \in Rows
                           /\ req'[q].seq \in Nat /\ req'[q].void \in BOOLEAN
      <4> HIDE DEF New
      <4> QED
        BY <1>2 DEF Types
    <3> QED
      BY <1>2, <3>1
  <2> QED
    BY <1>0, <1>2, <2>1 DEF Types
<1>4. Requests'
  <2>1. \A s \in Stripes : owner[s] # r
    BY <1>0 DEF Requests
  <2>2. /\ req'[r].todo \subseteq Of(req'[r].row) /\ req'[r].stage = "note"
        /\ req'[r].kind # "none"
    BY <1>0, <1>2
  <2> HIDE DEF New
  <2>3. ASSUME NEW q \in Writers \ {r}
        PROVE  /\ req'[q].kind = req[q].kind /\ req'[q].row = req[q].row
               /\ req'[q].todo = req[q].todo /\ req'[q].at = req[q].at
               /\ req'[q].stage = req[q].stage
    BY <1>2
  <2> QED
    BY <1>0, <2>1, <2>2, <2>3 DEF Requests
<1>5. Voided'
  <2> SUFFICES ASSUME NEW q \in Writers, NEW p \in Writers,
                      req'[q].kind = "discard", req'[q].stage = "note",
                      req'[p].kind \in {"write", "full"}, req'[p].row = req'[q].row
               PROVE  req'[p].void
    BY DEF Voided
  <2> HIDE DEF New
  <2>1. CASE q = r /\ p # r
    BY <1>2, <2>1
  <2>2. CASE q # r /\ p = r
    BY <1>2, <2>2
  <2>3. CASE q # r /\ p # r
    BY <1>2, <2>3 DEF Voided
  <2> QED
    BY <2>1, <2>2, <2>3
<1>6. InMemory'
  BY <1>0, <1>2 DEF InMemory, Writing
<1>7. Ahead' /\ Copies'
  <2>1. need \in Nat /\ need <= epoch + 1
    BY DEF Types, Ahead
  <2> QED
    BY <1>0, <2>1, MapMoves
<1>8. Waited'
  BY <1>0, <1>2, WaitedKeeps DEF Admitted, Writing
<1> QED
  BY <1>3, <1>4, <1>5, <1>6, <1>7, <1>8

LEMMA RowGoKeeps ==
  ASSUME RowMapInv, NEW r \in Writers, RowGo(r)
  PROVE  RowMapInv'
<1> USE DEF RowMapInv
<1>0. /\ req[r].kind = "full" /\ req[r].stage = "route"
      /\ UNCHANGED <<member, offset, pageOf, gen, epoch, durable, flush, seq, pass, need, lock, map,
                     dirty, live>>
      /\ \A s \in Stripes : s[1] = req[r].row => owner[s] = Nobody
      /\ owner' = [s \in Stripes |-> IF s[1] = req[r].row THEN r ELSE owner[s]]
  BY DEF RowGo, onDisk, core, bits, Of
<1>1. /\ FunctionOn(req', Writers) /\ \A q \in Writers \ {r} : Still(q)
      /\ OnlyStage(r) /\ req'[r].stage = "rowsubmit"
  BY StageChange DEF RowGo
<1>2. Types'
  BY <1>0, <1>1 DEF Types, Still, OnlyStage
<1>3. Requests'
  <2>1. ASSUME NEW s \in Stripes, NEW q \in Writers, owner'[s] = q
        PROVE  s[1] = req'[q].row /\ req'[q].stage \in {"rowsubmit", "rowwait", "parked", "land"}
    BY <1>0, <1>1, <2>1 DEF Requests, Still, OnlyStage
  <2> QED
    BY <1>0, <1>1, <2>1 DEF Requests, Still, OnlyStage
<1>4. Voided' /\ InMemory'
  BY <1>0, <1>1 DEF Still, OnlyStage, Voided, InMemory, Writing
<1>5. Ahead' /\ Copies'
  <2>1. need' \in Nat /\ need <= need' /\ need' <= epoch + 1
    BY <1>0 DEF Types, Ahead
  <2> QED
    BY <1>0, <2>1, MapMoves
<1>6. Waited'
  BY <1>0, <1>1, WaitedKeeps DEF Still, Admitted, Writing
<1> QED
  BY <1>2, <1>3, <1>4, <1>5, <1>6

LEMMA RowUnplugKeeps ==
  ASSUME RowMapInv, NEW r \in Writers, RowUnplug(r)
  PROVE  RowMapInv'
<1> USE DEF RowMapInv
<1>0. /\ req[r].stage = "rowsubmit"
      /\ UNCHANGED <<member, offset, pageOf, gen, epoch, durable, flush, seq, pass, need, lock, map,
                     dirty, live, owner>>
  BY DEF RowUnplug, onDisk, core, bits
<1>1. /\ FunctionOn(req', Writers) /\ \A q \in Writers \ {r} : Still(q)
      /\ OnlyStage(r) /\ req'[r].stage = "rowwait"
  BY StageChange DEF RowUnplug
<1>2. Types'
  BY <1>0, <1>1 DEF Types, Still, OnlyStage
<1>3. Requests'
  BY <1>0, <1>1 DEF Requests, Still, OnlyStage
<1>4. Voided' /\ InMemory'
  BY <1>0, <1>1 DEF Still, OnlyStage, Voided, InMemory, Writing
<1>5. Ahead' /\ Copies'
  <2>1. need' \in Nat /\ need <= need' /\ need' <= epoch + 1
    BY <1>0 DEF Types, Ahead
  <2> QED
    BY <1>0, <2>1, MapMoves
<1>6. Waited'
  BY <1>0, <1>1, WaitedKeeps DEF Still, Admitted, Writing
<1> QED
  BY <1>2, <1>3, <1>4, <1>5, <1>6

\* A block gets something to hold only if its row is settled and used in memory.
LEMMA BeginWrites ==
  ASSUME Types, InMemory, Waited, NEW r \in Writers, NEW S, NEW D, NEW v,
         Begin(S, D, v, req[r].void) \/ Landed(S, D, v, req[r].void),
         \A s \in S : s \in Stripes => s[1] = req[r].row,
         ~req[r].void => map[req[r].row] # "U" /\ Settled(req[r].row)
  PROVE  \A s \in Stripes, d \in MapData : live'[s][d] # {} =>
           (live[s][d] # {} \/ Settled(s[1])) /\ map[s[1]] # "U"
<1> SUFFICES ASSUME NEW s \in Stripes, NEW d \in MapData, live'[s][d] # {}
             PROVE  (live[s][d] # {} \/ Settled(s[1])) /\ map[s[1]] # "U"
  OBVIOUS
<1>1. CASE live[s][d] # {}
  BY <1>1 DEF InMemory
<1>2. CASE live[s][d] = {}
  <2>1. s \in S /\ ~req[r].void
    BY <1>2 DEF Begin, Landed
  <2> QED
    BY <2>1
<1> QED
  BY <1>1, <1>2

LEMMA RowIssueKeeps ==
  ASSUME RowMapInv, NEW r \in Writers, RowIssue(r)
  PROVE  RowMapInv'
<1> USE DEF RowMapInv
<1>0. /\ req[r].stage = "rowwait" /\ ~MustWait
      /\ UNCHANGED <<member, offset, pageOf, gen, epoch, durable, flush, seq, pass, need, lock, map,
                     dirty, owner>>
      /\ Begin(Of(req[r].row), MapData, req[r].val, req[r].void)
  BY DEF RowIssue, onDisk, core, bits
<1>1. /\ FunctionOn(req', Writers) /\ \A q \in Writers \ {r} : Still(q)
      /\ OnlyStage(r) /\ req'[r].stage = "land"
  BY DEF RowIssue, Types, FunctionOn, Still, OnlyStage, RequestFields
<1>2. Writing(r) => map[req[r].row] # "U" /\ Settled(req[r].row)
  BY <1>0, PastTheWait DEF InMemory, Types
<1>3. req[r].kind \in {"write", "full"}
  BY <1>0 DEF Requests, Types, Kinds
<1>4. \A s \in Stripes, d \in MapData : live'[s][d] # {} =>
        (live[s][d] # {} \/ Settled(s[1])) /\ map[s[1]] # "U"
  <2>1. \A s \in Of(req[r].row) : s[1] = req[r].row
    BY DEF Of
  <2> QED
    BY <1>0, <1>2, <1>3, <2>1, BeginWrites DEF Writing
<1>5. Types'
  BY <1>0, <1>1 DEF Types, Still, OnlyStage
<1>6. Requests'
  BY <1>0, <1>1 DEF Requests, Still, OnlyStage
<1>7. Voided' /\ InMemory'
  BY <1>0, <1>1, <1>4 DEF Still, OnlyStage, Voided, InMemory, Writing
<1>8. Ahead' /\ Copies'
  <2>1. need' \in Nat /\ need <= need' /\ need' <= epoch + 1
    BY <1>0 DEF Types, Ahead
  <2> QED
    BY <1>0, <2>1, MapMoves
<1>9. Waited'
  <2>1. \A q \in Writers, n \in {seq.write, seq.flush} : Admitted(q, n)' =>
          (Admitted(q, n) /\ req'[q].row = req[q].row) \/ Settled(req'[q].row)
    BY <1>1, <1>2 DEF Still, OnlyStage, Admitted, Writing
  <2> QED
    BY <1>0, <1>4, <2>1, WaitedKeeps
<1> QED
  BY <1>5, <1>6, <1>7, <1>8, <1>9

LEMMA AttachKeeps ==
  ASSUME RowMapInv, NEW r \in Writers, Attach(r)
  PROVE  RowMapInv'
<1> USE DEF RowMapInv
<1>0. /\ req[r].stage = "route"
      /\ UNCHANGED <<member, offset, pageOf, gen, epoch, durable, flush, seq, pass, need, lock, map,
                     dirty, live>>
  BY DEF Attach, onDisk, core, bits
<1>1. PICK s \in req[r].todo, parked \in BOOLEAN :
        /\ owner[s] = Nobody
        /\ owner' = [owner EXCEPT ![s] = r]
        /\ ~parked => req[r].kind = "discard" \/ ~MustWait
        /\ req' = [req EXCEPT ![r].at = s, ![r].stage = "parked",
                              ![r].seq = IF parked THEN seq.flush + 1 ELSE seq.write]
  BY DEF Attach
<1>2. s \in Of(req[r].row) /\ s \in Stripes /\ s[1] = req[r].row
  BY DEF Requests, Of
<1>3. /\ FunctionOn(req', Writers) /\ \A q \in Writers \ {r} : Still(q)
      /\ DOMAIN req'[r] = RequestFields
      /\ req'[r].kind = req[r].kind /\ req'[r].row = req[r].row /\ req'[r].todo = req[r].todo
      /\ req'[r].void = req[r].void /\ req'[r].stage = "parked" /\ req'[r].at = s
      /\ req'[r].seq = IF parked THEN seq.flush + 1 ELSE seq.write
  BY <1>1 DEF Types, FunctionOn, Still, RequestFields
<1>4. seq.flush \in Nat /\ seq.write \in Nat /\ seq.write <= seq.flush
  BY DEF Types, Waited
<1>5. Types'
  <2>1. owner' \in [Stripes -> Writers \cup {Nobody}]
    BY <1>1, <1>2 DEF Types
  <2>2. req'[r].seq \in Nat
    BY <1>3, <1>4
  <2> QED
    BY <1>0, <1>3, <2>1, <2>2 DEF Types, Still
<1>6. Requests'
  <2>1. \A t \in Stripes : owner'[t] = IF t = s THEN r ELSE owner[t]
    BY <1>1, <1>2 DEF Types
  <2>2. ASSUME NEW t \in Stripes, NEW q \in Writers, owner'[t] = q
        PROVE  t[1] = req'[q].row /\ req'[q].stage \in {"rowsubmit", "rowwait", "parked", "land"}
    BY <1>0, <1>2, <1>3, <2>1, <2>2 DEF Requests, Still
  <2> QED
    BY <1>0, <1>2, <1>3, <2>2 DEF Requests, Still
<1>7. Voided' /\ InMemory'
  BY <1>0, <1>3 DEF Still, Voided, InMemory, Writing
<1>8. Ahead' /\ Copies'
  <2>1. need' \in Nat /\ need <= need' /\ need' <= epoch + 1
    BY <1>0 DEF Types, Ahead
  <2> QED
    BY <1>0, <2>1, MapMoves
<1>9. Waited'
  <2>1. ASSUME NEW n \in {seq.write, seq.flush}, Admitted(r, n)'
        PROVE  Settled(req'[r].row)
    <3>1. ~parked /\ Writing(r)
      BY <1>3, <1>4, <2>1 DEF Admitted, Writing
    <3>2. map[req[r].row] # "U" /\ ~MustWait
      BY <1>0, <1>1, <3>1 DEF InMemory, Writing
    <3> QED
      BY <1>3, <3>2, PastTheWait DEF Types
  <2>2. \A q \in Writers, n \in {seq.write, seq.flush} : Admitted(q, n)' =>
          (Admitted(q, n) /\ req'[q].row = req[q].row) \/ Settled(req'[q].row)
    BY <1>3, <2>1 DEF Still, Admitted, Writing
  <2> QED
    BY <1>0, <2>2, WaitedKeeps
<1> QED
  BY <1>5, <1>6, <1>7, <1>8, <1>9

LEMMA HandleKeeps ==
  ASSUME RowMapInv, NEW r \in Writers, Handle(r)
  PROVE  RowMapInv'
<1> USE DEF RowMapInv
<1>0. /\ req[r].stage = "parked" /\ req[r].seq <= seq.write
      /\ UNCHANGED <<member, offset, pageOf, gen, epoch, durable, flush, seq, pass, need, lock, map,
                     dirty, owner>>
      /\ \/ req[r].kind = "discard" /\ live' = live
         \/ /\ req[r].kind # "discard"
            /\ \E v : Begin({req[r].at}, req[r].blk, v, req[r].void)
  BY DEF Handle, onDisk, core, bits
<1>1. /\ FunctionOn(req', Writers) /\ \A q \in Writers \ {r} : Still(q)
      /\ OnlyStage(r) /\ req'[r].stage = "land"
  BY DEF Handle, Types, FunctionOn, Still, OnlyStage, RequestFields
<1>2. Writing(r) => map[req[r].row] # "U" /\ Settled(req[r].row)
  BY <1>0, AdmittedIsSettled DEF InMemory, Admitted
<1>3. req[r].kind # "none"
  BY <1>0 DEF Requests
<1>4. \A s \in Stripes, d \in MapData : live'[s][d] # {} =>
        (live[s][d] # {} \/ Settled(s[1])) /\ map[s[1]] # "U"
  <2>1. CASE live' = live
    BY <2>1 DEF InMemory
  <2>2. ASSUME req[r].kind # "discard", NEW v, Begin({req[r].at}, req[r].blk, v, req[r].void)
        PROVE  <1>4
    <3>1. \A s \in {req[r].at} : s \in Stripes => s[1] = req[r].row
      BY <1>0 DEF Requests, Of
    <3>2. ~req[r].void => map[req[r].row] # "U" /\ Settled(req[r].row)
      BY <1>2, <1>3, <2>2 DEF Writing, Types, Kinds
    <3> DEFINE at == {req[r].at}
    <3> HIDE DEF at
    <3>3. (\A s \in at : s \in Stripes => s[1] = req[r].row) /\ Begin(at, req[r].blk, v, req[r].void)
      BY <2>2, <3>1 DEF at
    <3> QED
      BY <3>2, <3>3, BeginWrites
  <2> QED
    BY <1>0, <2>1, <2>2
<1>5. Types'
  BY <1>0, <1>1 DEF Types, Still, OnlyStage
<1>6. Requests'
  BY <1>0, <1>1 DEF Requests, Still, OnlyStage
<1>7. Voided' /\ InMemory'
  BY <1>0, <1>1, <1>4 DEF Still, OnlyStage, Voided, InMemory, Writing
<1>8. Ahead' /\ Copies'
  <2>1. need' \in Nat /\ need <= need' /\ need' <= epoch + 1
    BY <1>0 DEF Types, Ahead
  <2> QED
    BY <1>0, <2>1, MapMoves
<1>9. Waited'
  <2>1. \A q \in Writers, n \in {seq.write, seq.flush} : Admitted(q, n)' =>
          (Admitted(q, n) /\ req'[q].row = req[q].row) \/ Settled(req'[q].row)
    BY <1>1, <1>2 DEF Still, OnlyStage, Admitted, Writing
  <2> QED
    BY <1>0, <1>4, <2>1, WaitedKeeps
<1> QED
  BY <1>5, <1>6, <1>7, <1>8, <1>9

LEMMA LandKeeps ==
  ASSUME RowMapInv, ~broken, NEW r \in Writers, NEW i \in Members, Land(r, i)
  PROVE  RowMapInv'
<1> USE DEF RowMapInv
<1>0. /\ req[r].stage = "land"
      /\ UNCHANGED <<member, offset, pageOf, gen, epoch, durable, flush, seq, pass, need, lock, map,
                     dirty>>
  BY DEF Land, onDisk, core, bits
<1>1. CASE req[r].out # {i}
  <2>1. /\ FunctionOn(req', Writers) /\ \A q \in Writers \ {r} : Still(q)
        /\ OnlyStage(r) /\ req'[r].stage = "land" /\ UNCHANGED <<live, owner>>
    BY <1>1 DEF Land, Types, FunctionOn, Still, OnlyStage, RequestFields
  <2>2. Types'
    BY <1>0, <2>1 DEF Types, Still, OnlyStage
  <2>3. Requests'
    BY <1>0, <2>1 DEF Requests, Still, OnlyStage
  <2>4. Voided' /\ InMemory'
    BY <1>0, <2>1 DEF Still, OnlyStage, Voided, InMemory, Writing
  <2>5. Ahead' /\ Copies'
    <3>1. need' \in Nat /\ need <= need' /\ need' <= epoch + 1
      BY <1>0 DEF Types, Ahead
    <3> QED
      BY <1>0, <3>1, MapMoves
  <2>6. Waited'
    BY <1>0, <2>1, WaitedKeeps DEF Still, OnlyStage, Admitted, Writing
  <2> QED
    BY <2>2, <2>3, <2>4, <2>5, <2>6
<1>2. CASE req[r].out = {i}
  <2> DEFINE done == {s \in Stripes : owner[s] = r}
             left == req[r].todo \ done
  <2>1. /\ owner' = [s \in Stripes |-> IF s \in done THEN Nobody ELSE owner[s]]
        /\ req' = [req EXCEPT ![r] = IF left = {} THEN NoRequest
                     ELSE [@ EXCEPT !.todo = left, !.stage = "route", !.out = {}, !.image = <<>>]]
        /\ IF req[r].kind = "discard" THEN live' = live
           ELSE Landed(done, req[r].blk, req[r].val, req[r].void)
    BY <1>2 DEF Land, Over
  <2>2. FunctionOn(req', Writers) /\ \A q \in Writers \ {r} : Still(q)
    BY <2>1 DEF Types, FunctionOn, Still
  <2>3. \/ req'[r] = NoRequest
        \/ /\ DOMAIN req'[r] = RequestFields
           /\ req'[r].kind = req[r].kind /\ req'[r].row = req[r].row /\ req'[r].seq = req[r].seq
           /\ req'[r].void = req[r].void /\ req'[r].stage = "route"
           /\ req'[r].todo \subseteq req[r].todo
    BY <2>1 DEF Types, FunctionOn, RequestFields
  <2>4. /\ DOMAIN req'[r] = RequestFields /\ req'[r].kind \in {req[r].kind, "none"}
        /\ req'[r].row \in Rows /\ req'[r].seq \in Nat /\ req'[r].void \in BOOLEAN
        /\ req'[r].kind \in Kinds /\ req'[r].stage \in {"idle", "route"}
        /\ req'[r].kind = "none" => req'[r].stage = "idle"
        /\ req'[r].todo \subseteq Of(req'[r].row)
        /\ Writing(r)' => Writing(r) /\ req'[r].row = req[r].row
    <3>1. CASE req'[r] = NoRequest
      <4> HIDE DEF NoRequest, RequestFields
      <4> QED
        BY <3>1, NoRequestIs DEF Writing
    <3>2. CASE req'[r] # NoRequest
      BY <1>0, <2>3, <3>2 DEF Types, Requests, Writing
    <3> QED
      BY <3>1, <3>2
  <2>5. Types'
    <3>1. owner' \in [Stripes -> Writers \cup {Nobody}]
      BY <2>1 DEF Types
    <3> QED
      BY <1>0, <2>2, <2>4, <3>1 DEF Types, Still
  <2>6. Requests'
    <3>1. ASSUME NEW s \in Stripes, NEW q \in Writers, owner'[s] = q
          PROVE  owner[s] = q /\ q # r
      BY <2>1, <3>1, MapAssumption DEF Types
    <3> QED
      BY <1>0, <2>2, <2>4, <3>1 DEF Requests, Still
  <2>7. \A s \in Stripes, d \in MapData : live'[s][d] # {} =>
          (live[s][d] # {} \/ Settled(s[1])) /\ map[s[1]] # "U"
    <3>1. CASE live' = live
      BY <3>1 DEF InMemory
    <3>2. CASE req[r].kind # "discard" /\ Landed(done, req[r].blk, req[r].val, req[r].void)
      <4>1. \A s \in done : s \in Stripes => s[1] = req[r].row
        BY DEF Requests
      <4>2. ~req[r].void => map[req[r].row] # "U" /\ Settled(req[r].row)
        <5>1. req[r].kind # "none"
          BY <1>0 DEF Requests
        <5>2. ~req[r].void => Writing(r)
          BY <3>2, <5>1 DEF Writing, Types, Kinds
        <5> QED
          BY <1>0, <5>2, AdmittedIsSettled DEF InMemory, Admitted
      <4> HIDE DEF done
      <4> QED
        BY <3>2, <4>1, <4>2, BeginWrites
    <3> QED
      BY <2>1, <3>1, <3>2
  <2>8. Voided'
    <3> SUFFICES ASSUME NEW q \in Writers, NEW p \in Writers,
                        req'[q].kind = "discard", req'[q].stage = "note",
                        req'[p].kind \in {"write", "full"}, req'[p].row = req'[q].row
                 PROVE  req'[p].void
      BY DEF Voided
    <3>1. q # r
      BY <2>4
    <3>2. CASE p = r
      <4>1. req'[r].kind = req[r].kind /\ req'[r].row = req[r].row /\ req'[r].void = req[r].void
        <5> HIDE DEF NoRequest
        <5> QED
          BY <2>3, <3>2, NoRequestIs
      <4> QED
        BY <2>2, <3>1, <3>2, <4>1 DEF Voided, Still
    <3>3. CASE p # r
      BY <2>2, <3>1, <3>3 DEF Voided, Still
    <3> QED
      BY <3>2, <3>3
  <2>9. InMemory'
    BY <1>0, <2>2, <2>4, <2>7 DEF InMemory, Writing, Still
  <2>10. Ahead' /\ Copies'
    <3>1. need' \in Nat /\ need <= need' /\ need' <= epoch + 1
      BY <1>0 DEF Types, Ahead
    <3> QED
      BY <1>0, <3>1, MapMoves
  <2>11. Waited'
    <3>1. \A q \in Writers, n \in {seq.write, seq.flush} : Admitted(q, n)' =>
            Admitted(q, n) /\ req'[q].row = req[q].row
      BY <2>2, <2>4 DEF Still, Admitted, Writing
    <3> QED
      BY <1>0, <2>7, <3>1, WaitedKeeps
  <2> QED
    BY <2>5, <2>6, <2>8, <2>9, <2>10, <2>11
<1> QED
  BY <1>1, <1>2

-----------------------------------------------------------------------------
(* The flush. *)

\* What the requests do not see of a flush or of a pass.
LEMMA OthersKeep ==
  ASSUME Requests, Voided, InMemory, UNCHANGED <<req, owner, lock, live>>,
         (need' = need /\ epoch' = epoch) \/ lock = Nobody,
         \A row \in Rows : map'[row] = "U" <=> map[row] = "U", Types
  PROVE  Requests' /\ Voided' /\ InMemory'
<1>1. \A r \in Writers : req[r].row \in Rows
  BY DEF Types
<1>2. \A s \in Stripes : s[1] \in Rows
  BY DEF Stripes
<1>3. lock = Nobody => \A r \in Writers : req[r].stage \notin {"need", "state"}
  BY MapAssumption DEF Requests
<1>4. Requests'
  BY <1>1, <1>3 DEF Requests
<1>5. Voided'
  BY DEF Voided
<1>6. InMemory'
  BY <1>1, <1>2 DEF InMemory, Writing
<1> QED
  BY <1>4, <1>5, <1>6

LEMMA StartFlush ==
  ASSUME RowMapInv, flush.stage = "idle", DOMAIN flush' = FlushFields, flush'.stage = "snap",
         flush'.epoch \in Nat,
         UNCHANGED <<member, offset, pageOf, map, dirty, need, epoch, durable, gen, lock, owner, req,
                     pass, live>>,
         seq' \in [flush : Nat, write : Nat], seq'.write = seq.write, seq.flush <= seq'.flush,
         flush'.for # "round" => seq' = seq
  PROVE  RowMapInv'
<1> USE DEF RowMapInv
<1>1. \A row : OnDisk(row)' <=> OnDisk(row)
  BY OnDiskStays
<1>2. Types'
  BY DEF Types, FlushStages
<1>3. Requests' /\ Voided' /\ InMemory'
  BY OthersKeep
<1>4. Ahead'
  BY <1>1 DEF Ahead
<1>5. Waited'
  BY <1>1 DEF Waited, Admitted, Writing, Types
<1>6. Copies'
  <2>1. Readable' = Readable /\ InSync' = InSync /\ Newest' = Newest
    BY DEF Readable, InSync, Seeded, Newest
  <2> QED
    BY <2>1 DEF Copies
<1> QED
  BY <1>2, <1>3, <1>4, <1>5, <1>6

LEMMA RoundKeeps ==
  ASSUME RowMapInv, Round
  PROVE  RowMapInv'
<1>1. /\ flush.stage = "idle" /\ DOMAIN flush' = FlushFields /\ flush'.stage = "snap"
      /\ flush'.epoch \in Nat /\ flush'.for = "round"
      /\ UNCHANGED <<member, offset, pageOf, map, dirty, need, epoch, durable, gen, lock, owner, req,
                     pass, live>>
  BY DEF Round, NoFlush, FlushFields, onDisk, core
<1>2. seq' \in [flush : Nat, write : Nat] /\ seq'.write = seq.write /\ seq.flush <= seq'.flush
  BY DEF Round, RowMapInv, Types
<1> QED
  BY <1>1, <1>2, StartFlush

LEMMA FlushForKeeps ==
  ASSUME RowMapInv, NEW who \in {"row", "lazy", "seed"}, FlushFor(who)
  PROVE  RowMapInv'
<1>1. /\ flush.stage = "idle" /\ DOMAIN flush' = FlushFields /\ flush'.stage = "snap"
      /\ flush'.epoch \in Nat /\ flush'.for # "round"
      /\ UNCHANGED <<member, offset, pageOf, map, dirty, need, epoch, durable, gen, lock, owner, req,
                     pass, live, seq>>
  BY DEF FlushFor, NoFlush, FlushFields, onDisk, core, bits
<1>2. seq' \in [flush : Nat, write : Nat] /\ seq'.write = seq.write /\ seq.flush <= seq'.flush
  BY <1>1 DEF RowMapInv, Types
<1> QED
  BY <1>1, <1>2, StartFlush

LEMMA FlushSnapKeeps ==
  ASSUME RowMapInv, FlushSnap
  PROVE  RowMapInv'
<1> USE DEF RowMapInv
<1>0. /\ flush.stage = "snap" /\ lock = Nobody
      /\ epoch' = epoch + 1 /\ dirty' = FALSE
      /\ gen' = IF dirty THEN gen + 1 ELSE gen
      /\ UNCHANGED <<member, offset, pageOf, map, need, durable, lock, seq, owner, req, pass, live>>
  BY DEF FlushSnap, onDisk, bits
<1>1. /\ DOMAIN flush' = FlushFields /\ flush'.stage = (IF dirty THEN "copy" ELSE "end")
      /\ flush'.epoch = epoch + 1 /\ flush'.ok = ~dirty /\ flush'.for = flush.for
  BY DEF FlushSnap, Types, FlushFields
<1>2. \A row : OnDisk(row)' <=> OnDisk(row)
  BY <1>0, OnDiskStays
<1>3. Types'
  <2>1. epoch \in Nat /\ gen \in Nat /\ dirty \in BOOLEAN
    BY DEF Types
  <2>2. epoch' \in Nat /\ gen' \in Nat /\ dirty' \in BOOLEAN
    <3>1. epoch + 1 \in Nat /\ gen + 1 \in Nat
      BY <2>1
    <3>2. gen' = gen + 1 \/ gen' = gen
      BY <1>0
    <3>3. epoch' \in Nat /\ gen' \in Nat
      BY <1>0, <2>1, <3>1, <3>2
    <3>4. dirty' \in BOOLEAN
      BY <1>0
    <3> QED
      BY <3>3, <3>4
  <2>3. DOMAIN flush' = FlushFields /\ flush'.stage \in FlushStages /\ flush'.epoch \in Nat
    <3>1. flush'.stage \in FlushStages
      BY <1>1 DEF FlushStages
    <3> QED
      BY <1>1, <2>1, <3>1
  <2> QED
    BY <1>0, <2>2, <2>3 DEF Types
<1>4. Requests' /\ Voided' /\ InMemory'
  BY <1>0, OthersKeep
<1>5. Ahead'
  <2>1. epoch \in Nat /\ need \in Nat /\ durable \in Nat /\ dirty \in BOOLEAN
    BY DEF Types
  <2>2. need' <= epoch' + 1 /\ durable' <= epoch'
    BY <1>0, <2>1 DEF Ahead
  <2>3. /\ flush'.epoch = epoch'
        /\ flush'.stage = "end" => flush'.ok = TRUE
    BY <1>0, <1>1, <2>1
  <2>4. ASSUME NEW row \in Rows, map'[row] # "U", ~OnDisk(row)'
        PROVE  need' > durable' /\ flush'.stage = "copy"
    <3>1. map[row] # "U" /\ ~OnDisk(row)
      BY <1>0, <1>2, <2>4
    <3>2. need > durable /\ dirty
      BY <1>0, <3>1 DEF Ahead
    <3> QED
      BY <1>0, <1>1, <3>2
  <2>5. flush'.stage # "write"
    BY <1>1
  <2> QED
    BY <2>2, <2>3, <2>4, <2>5 DEF Ahead
<1>6. Waited'
  <2>1. ASSUME NEW r \in Writers, flush'.stage = "end", Admitted(r, seq.flush)
        PROVE  OnDisk(req[r].row)
    <3>1. map[req[r].row] # "U"
      BY <2>1 DEF InMemory, Admitted
    <3> QED
      BY <1>0, <1>1, <2>1, <3>1 DEF Ahead, Types
  <2> QED
    BY <1>0, <1>1, <1>2, <2>1 DEF Waited, Admitted, Writing
<1>7. Copies'
  <2>1. Readable' = Readable /\ InSync' = InSync
    BY <1>0 DEF Readable, InSync, Seeded
  <2>2. Newest' = Newest /\ Newest = gen /\ gen \in Nat
    BY <1>0, <1>1 DEF Newest, Types
  <2> QED
    BY <1>0, <1>1, <2>1, <2>2 DEF Copies, Types
<1> QED
  BY <1>3, <1>4, <1>5, <1>6, <1>7

LEMMA FlushCopyKeeps ==
  ASSUME RowMapInv, FlushCopy
  PROVE  RowMapInv'
<1> USE DEF RowMapInv
<1>0. /\ flush.stage = "copy"
      /\ UNCHANGED <<member, offset, pageOf, map, dirty, need, epoch, durable, gen, lock, seq, owner,
                     req, pass, live>>
  BY DEF FlushCopy, onDisk, core, bits
<1>1. /\ DOMAIN flush' = FlushFields /\ flush'.stage = "write"
      /\ flush'.page = [gen |-> gen, map |-> map, ok |-> TRUE]
      /\ flush'.epoch = flush.epoch /\ flush'.for = flush.for
  BY DEF FlushCopy, Types, FlushFields
<1>2. \A row : OnDisk(row)' <=> OnDisk(row)
  BY <1>0, OnDiskStays
<1>3. Types'
  BY <1>0, <1>1 DEF Types, FlushStages
<1>4. Requests' /\ Voided' /\ InMemory'
  BY <1>0, OthersKeep
<1>5. Ahead'
  BY <1>0, <1>1, <1>2 DEF Ahead
<1>6. Waited'
  <2>1. ASSUME NEW r \in Writers, Admitted(r, seq.flush)
        PROVE  map[req[r].row] # "U"
    BY <2>1 DEF InMemory, Admitted
  <2>2. \A s \in Stripes, d \in MapData : live[s][d] # {} => map[s[1]] # "U"
    BY DEF InMemory
  <2> QED
    BY <1>0, <1>1, <1>2, <2>1, <2>2 DEF Waited, Admitted, Writing
<1>7. Copies'
  <2>1. Readable' = Readable /\ InSync' = InSync /\ Newest' = Newest
    BY <1>0, <1>1 DEF Readable, InSync, Seeded, Newest
  <2>2. flush'.page \in Page
    BY <1>1 DEF Types, Page
  <2> QED
    BY <1>0, <1>1, <2>1, <2>2 DEF Copies
<1> QED
  BY <1>3, <1>4, <1>5, <1>6, <1>7

\* Two members at least, of which one at most is not in sync.
LEMMA SomeInSync ==
  ASSUME NEW m, \A i, j \in Members : m[i] # "insync" /\ m[j] # "insync" => i = j
  PROVE  \E i \in Members : m[i] = "insync"
<1>1. 0 \in Members /\ 1 \in Members /\ 0 # 1
  BY MapAssumption DEF Members
<1> QED
  BY <1>1

LEMMA NoFlushIs ==
  /\ DOMAIN NoFlush = FlushFields /\ NoFlush.stage = "idle" /\ NoFlush.for = "none"
  /\ NoFlush.epoch = 0 /\ NoFlush.ok = FALSE
BY DEF NoFlush, FlushFields

LEMMA NoPassIs ==
  /\ DOMAIN NoPass = PassFields /\ NoPass.kind = "none" /\ NoPass.stage = "idle"
  /\ NoPass.row = 0
BY DEF NoPass, PassFields

\* A flush is over, and the page with the rows' states is on disk.
LEMMA FlushOver ==
  ASSUME RowMapInv, flush.stage \in {"write", "end"},
         member' \in [Members -> {"insync", "rebuilding", "faulty"}], offset' \in Nat,
         pageOf' \in [Members -> Page],
         \A row \in Rows : IF flush.stage = "write" THEN OnDisk(row)' <=> flush.page.map[row] # "U"
                                                    ELSE OnDisk(row)' <=> OnDisk(row),
         DOMAIN pass' = PassFields, pass'.row \in Nat,
         durable' = flush.epoch, flush' = NoFlush, dirty' = dirty,
         seq' \in [flush : Nat, write : Nat], seq'.write = seq.flush, seq'.flush = seq.flush,
         UNCHANGED <<map, need, epoch, gen, lock, owner, req, live>>
  PROVE  Types' /\ Requests' /\ Voided' /\ InMemory' /\ Ahead' /\ Waited'
<1> USE DEF RowMapInv
<1> HIDE DEF NoFlush
<1>1. Types'
  <2>1. DOMAIN flush' = FlushFields /\ flush'.stage \in FlushStages /\ flush'.epoch \in Nat
    BY NoFlushIs DEF FlushStages
  <2>2. durable' \in Nat
    BY DEF Types
  <2> QED
    BY <2>1, <2>2 DEF Types
<1>2. Requests' /\ Voided' /\ InMemory'
  BY OthersKeep
<1>3. flush.epoch = epoch
  BY DEF Ahead
<1>4. flush'.stage = "idle" /\ flush'.for = "none"
  BY NoFlushIs
<1>5. Ahead'
  <2>1. need' <= epoch' + 1 /\ durable' <= epoch'
    BY <1>3 DEF Ahead, Types
  <2>2. ASSUME NEW row \in Rows, map'[row] # "U", ~OnDisk(row)'
        PROVE  need' > durable' /\ dirty'
    BY <1>3, <2>2 DEF Ahead
  <2> QED
    BY <1>4, <2>1, <2>2 DEF Ahead
<1>6. Waited'
  <2>1. \A r \in Writers : req[r].row \in Rows
    BY DEF Types
  <2>2. \A s \in Stripes : s[1] \in Rows
    BY DEF Stripes
  <2>3. ASSUME NEW r \in Writers, Admitted(r, seq.write)'
        PROVE  OnDisk(req[r].row)'
    <3>1. Admitted(r, seq.flush)
      BY <2>3 DEF Admitted, Writing
    <3> QED
      BY <2>1, <3>1 DEF Waited
  <2>4. ASSUME NEW s \in Stripes, NEW d \in MapData, live'[s][d] # {}
        PROVE  OnDisk(s[1])'
    BY <2>2, <2>4 DEF Waited
  <2>5. seq'.write <= seq'.flush
    BY DEF Types
  <2> QED
    BY <1>4, <2>3, <2>4, <2>5 DEF Waited
<1> QED
  BY <1>1, <1>2, <1>5, <1>6

\* The page is on every member that a load may look at.
LEMMA PageWritten ==
  ASSUME RowMapInv, flush.stage = "write",
         member' \in [Members -> {"insync", "rebuilding", "faulty"}],
         pageOf' \in [Members -> Page], \A i \in Readable' : pageOf'[i] = flush.page,
         \A i, j \in Members : member'[i] # "insync" /\ member'[j] # "insync" => i = j,
         pass'.kind = "recover" => \E i \in Members : member'[i] = "rebuilding",
         flush' = NoFlush, dirty' = dirty, gen' = gen, map' = map
  PROVE  /\ Copies'
         /\ \A row \in Rows : OnDisk(row)' <=> flush.page.map[row] # "U"
<1> USE DEF RowMapInv
<1> HIDE DEF NoFlush
<1>1. flush.page \in Page /\ flush.page.gen = gen /\ flush.page.ok /\ gen > 0 /\ gen \in Nat
  BY DEF Copies, Types
<1>2. InSync' \subseteq Readable' /\ InSync' \subseteq Members
  BY DEF InSync, Readable
<1>3. PICK k \in Members : member'[k] = "insync"
  BY SomeInSync
<1>4. k \in InSync'
  BY <1>3 DEF InSync
<1>5. UpTo(gen, InSync', pageOf')
  BY <1>1, <1>2, <1>4 DEF UpTo
<1>6. ASSUME NEW row \in Rows
      PROVE  OnDisk(row)' <=> flush.page.map[row] # "U"
  <2>1. Found(InSync', pageOf').map[row] # "U" <=> pageOf'[k].map[row] # "U"
    BY <1>1, <1>2, <1>4, <1>5, FoundIs
  <2>2. OnDisk(row)' <=> Found(InSync', pageOf').map[row] # "U"
    BY BestIsFound
  <2> QED
    BY <1>2, <1>4, <2>1, <2>2
<1>7. Newest' = gen /\ flush'.stage = "idle"
  BY NoFlushIs DEF Newest
<1>8. ~dirty => \A row \in Rows : flush.page.map[row] = "U" <=> map[row] = "U"
  BY DEF Copies
<1>9. Copies'
  BY <1>1, <1>2, <1>4, <1>7, <1>8 DEF Copies
<1> QED
  BY <1>6, <1>9

LEMMA FlushEndKeeps ==
  ASSUME RowMapInv, ~broken, FlushEnd
  PROVE  RowMapInv'
<1> USE DEF RowMapInv
<1> HIDE DEF NoFlush, NoPass
<1>0. flush.epoch = epoch /\ (flush.stage = "end" => flush.ok = TRUE)
  BY DEF Ahead, FlushEnd
<1>1. ASSUME NEW ok, NEW left, ok = TRUE, Finish(ok, left)
      PROVE  /\ durable' = flush.epoch /\ flush' = NoFlush /\ dirty' = dirty
             /\ seq' \in [flush : Nat, write : Nat] /\ seq'.write = seq.flush /\ seq'.flush = seq.flush
             /\ UNCHANGED <<map, need, epoch, gen, lock, owner, req, live>>
             /\ pass' = left \/ (left.stage = "seed" /\ pass' = [left EXCEPT !.stage = "pages"])
  <2>1. dirty' = dirty
    BY <1>1 DEF Finish, Types
  <2>2. seq' \in [flush : Nat, write : Nat] /\ seq'.write = seq.flush /\ seq'.flush = seq.flush
    <3>1. CASE flush.for = "round"
      BY <1>1, <3>1 DEF Finish, Types
    <3>2. CASE flush.for # "round"
      BY <1>1, <3>2 DEF Finish, Types, Waited
    <3> QED
      BY <3>1, <3>2
  <2> QED
    BY <1>1, <2>1, <2>2 DEF Finish
<1>2. ASSUME pass' = pass \/ (pass.stage = "seed" /\ pass' = [pass EXCEPT !.stage = "pages"])
      PROVE  /\ DOMAIN pass' = PassFields /\ pass'.row \in Nat /\ pass'.kind = pass.kind
             /\ pass'.stage \in {"row", "sync"} <=> pass.stage \in {"row", "sync"}
  BY <1>2 DEF Types, PassFields
<1>3. CASE flush.stage = "end" /\ UNCHANGED <<pageOf, member, offset>> /\ Finish(flush.ok, pass)
  <2>1. /\ durable' = flush.epoch /\ flush' = NoFlush /\ dirty' = dirty
        /\ seq' \in [flush : Nat, write : Nat] /\ seq'.write = seq.flush /\ seq'.flush = seq.flush
        /\ UNCHANGED <<map, need, epoch, gen, lock, owner, req, live>>
        /\ pass' = pass \/ (pass.stage = "seed" /\ pass' = [pass EXCEPT !.stage = "pages"])
    BY <1>0, <1>1, <1>3
  <2>2. /\ DOMAIN pass' = PassFields /\ pass'.row \in Nat /\ pass'.kind = pass.kind
        /\ pass'.stage \in {"row", "sync"} <=> pass.stage \in {"row", "sync"}
    BY <1>2, <2>1
  <2>3. \A row \in Rows : OnDisk(row)' <=> OnDisk(row)
    BY <1>3, OnDiskStays
  <2>4. Types' /\ Requests' /\ Voided' /\ InMemory' /\ Ahead' /\ Waited'
    <3>1. offset' \in Nat /\ pageOf' \in [Members -> Page]
          /\ member' \in [Members -> {"insync", "rebuilding", "faulty"}]
      BY <1>3 DEF Types
    <3> QED
      BY <1>3, <2>1, <2>2, <2>3, <3>1, FlushOver
  <2>5. Copies'
    <3>1. Readable' = Readable /\ InSync' = InSync
      BY <1>3, <2>2 DEF Readable, InSync, Seeded
    <3>2. Newest' = Newest /\ Newest = gen /\ flush'.stage = "idle"
      BY <1>3, <2>1, NoFlushIs DEF Newest
    <3> QED
      BY <1>3, <2>1, <2>2, <3>1, <3>2 DEF Copies
  <2> QED
    BY <2>4, <2>5
<1>4. CASE /\ flush.stage = "write" /\ UNCHANGED <<member, offset>> /\ Finish(TRUE, pass)
           /\ pageOf' = [i \in Members |-> IF Present(i) THEN flush.page ELSE pageOf[i]]
  <2>1. /\ durable' = flush.epoch /\ flush' = NoFlush /\ dirty' = dirty
        /\ seq' \in [flush : Nat, write : Nat] /\ seq'.write = seq.flush /\ seq'.flush = seq.flush
        /\ UNCHANGED <<map, need, epoch, gen, lock, owner, req, live>>
        /\ pass' = pass \/ (pass.stage = "seed" /\ pass' = [pass EXCEPT !.stage = "pages"])
    BY <1>1, <1>4
  <2>2. DOMAIN pass' = PassFields /\ pass'.row \in Nat /\ pass'.kind = pass.kind
    BY <1>2, <2>1
  <2>3. /\ member' \in [Members -> {"insync", "rebuilding", "faulty"}] /\ offset' \in Nat
        /\ pageOf' \in [Members -> Page]
    BY <1>4 DEF Types, Copies
  <2>4. \A i \in Readable' : pageOf'[i] = flush.page
    BY <1>4 DEF Readable, Seeded, Present
  <2>5. /\ Copies'
        /\ \A row \in Rows : OnDisk(row)' <=> flush.page.map[row] # "U"
    <3>1. /\ \A i, j \in Members : member'[i] # "insync" /\ member'[j] # "insync" => i = j
          /\ pass'.kind = "recover" => \E i \in Members : member'[i] = "rebuilding"
      BY <1>4, <2>2 DEF Copies
    <3> QED
      BY <1>4, <2>1, <2>3, <2>4, <3>1, PageWritten
  <2> QED
    BY <1>4, <2>1, <2>2, <2>3, <2>5, FlushOver
<1>5. CASE /\ flush.stage = "write" /\ ~Degraded /\ offset' = 0 /\ Finish(TRUE, NoPass)
           /\ \E i \in Members :
                /\ pageOf' = [j \in Members |-> IF j # i THEN flush.page ELSE pageOf[j]]
                /\ member' = [member EXCEPT ![i] = "faulty"]
  <2>1. /\ durable' = flush.epoch /\ flush' = NoFlush /\ dirty' = dirty
        /\ seq' \in [flush : Nat, write : Nat] /\ seq'.write = seq.flush /\ seq'.flush = seq.flush
        /\ UNCHANGED <<map, need, epoch, gen, lock, owner, req, live>>
        /\ pass' = NoPass
    BY <1>1, <1>5, NoPassIs
  <2>2. DOMAIN pass' = PassFields /\ pass'.row \in Nat /\ pass'.kind # "recover"
    BY <2>1, NoPassIs
  <2>3. PICK i \in Members : /\ pageOf' = [j \in Members |-> IF j # i THEN flush.page ELSE pageOf[j]]
                             /\ member' = [member EXCEPT ![i] = "faulty"]
    BY <1>5
  <2>4. /\ member' \in [Members -> {"insync", "rebuilding", "faulty"}] /\ offset' \in Nat
        /\ pageOf' \in [Members -> Page]
    BY <1>5, <2>3 DEF Types, Copies
  <2>5. \A j \in Members : member'[j] = IF j = i THEN "faulty" ELSE "insync"
    BY <1>5, <2>3 DEF Types, Degraded
  <2>6. \A j \in Readable' : pageOf'[j] = flush.page
    BY <2>3, <2>5 DEF Readable, Seeded
  <2>7. /\ Copies'
        /\ \A row \in Rows : OnDisk(row)' <=> flush.page.map[row] # "U"
    BY <1>5, <2>1, <2>2, <2>4, <2>5, <2>6, PageWritten
  <2> QED
    BY <1>5, <2>1, <2>2, <2>4, <2>7, FlushOver
<1> QED
  BY <1>3, <1>4, <1>5 DEF FlushEnd

-----------------------------------------------------------------------------
(* Passes and members. *)

\* The members in sync are of those a load could look at, and what it found is still there.
LEMMA OnDiskKept ==
  ASSUME Types, Copies, InSync' \subseteq Readable, pageOf' \in [Members -> Page],
         \A i \in InSync' : pageOf'[i] = pageOf[i],
         Newest > 0 => \E i \in InSync' : pageOf[i].ok /\ pageOf[i].gen = Newest,
         (\E i \in InSync : ~pageOf[i].ok) => \E i \in InSync' : ~pageOf[i].ok,
         NEW row \in Rows
  PROVE  OnDisk(row) => OnDisk(row)'
<1>1. Newest \in Nat /\ InSync \subseteq Readable /\ InSync' \subseteq Members
  BY OnDiskIs DEF InSync, Readable
<1>2. UpTo(Newest, InSync', pageOf')
  <2>1. \A i \in InSync' : pageOf'[i].ok => pageOf'[i].gen <= Newest
    BY DEF Copies
  <2>2. Newest > 0 => \E i \in InSync' : pageOf'[i].ok /\ pageOf'[i].gen = Newest
    OBVIOUS
  <2>3. Newest > 0 => \A i, j \in InSync' :
          pageOf'[i].ok /\ pageOf'[j].ok /\ pageOf'[i].gen = Newest /\ pageOf'[j].gen = Newest
            => \A x \in Rows : pageOf'[i].map[x] = "U" <=> pageOf'[j].map[x] = "U"
    BY DEF Copies
  <2> QED
    BY <1>1, <2>1, <2>2, <2>3 DEF UpTo
<1>3. OnDisk(row)' <=> Found(InSync', pageOf').map[row] # "U"
  BY BestIsFound
<1>4. CASE Newest > 0
  <2>1. PICK k \in InSync' : pageOf[k].ok /\ pageOf[k].gen = Newest
    BY <1>4
  <2>2. OnDisk(row)' <=> pageOf[k].map[row] # "U"
    BY <1>2, <1>3, <1>4, <2>1, FoundIs
  <2>3. PICK j \in InSync : pageOf[j].ok /\ pageOf[j].gen = Newest
    BY <1>4 DEF Copies
  <2>4. OnDisk(row) <=> pageOf[j].map[row] # "U"
    BY <1>4, <2>3, OnDiskIs
  <2>5. pageOf[j].map[row] = "U" <=> pageOf[k].map[row] = "U"
    BY <1>1, <1>4, <2>1, <2>3 DEF Copies
  <2> QED
    BY <2>2, <2>4, <2>5
<1>5. CASE Newest = 0
  <2>1. OnDisk(row)' <=> \E i \in InSync' : ~pageOf'[i].ok
    BY <1>2, <1>3, <1>5, FoundIs
  <2>2. OnDisk(row) <=> \E i \in InSync : ~pageOf[i].ok
    BY <1>5, OnDiskIs
  <2> QED
    BY <2>1, <2>2
<1> QED
  BY <1>1, <1>4, <1>5

\* What is on disk stays there, no row leaves U or comes to it, and what is dirty stays so.
LEMMA OutsideKeeps ==
  ASSUME RowMapInv,
         member' \in [Members -> {"insync", "rebuilding", "faulty"}], offset' \in Nat,
         pageOf' \in [Members -> Page], DOMAIN pass' = PassFields, pass'.row \in Nat,
         map' \in [Rows -> States], \A row \in Rows : map'[row] = "U" <=> map[row] = "U",
         dirty' \in BOOLEAN, dirty => dirty',
         UNCHANGED <<need, epoch, durable, gen, lock, flush, seq, owner, req, live>>,
         \A row \in Rows : OnDisk(row) => OnDisk(row)'
  PROVE  Types' /\ Requests' /\ Voided' /\ InMemory' /\ Ahead' /\ Waited'
<1> USE DEF RowMapInv
<1>1. Types'
  BY DEF Types
<1>2. Requests' /\ Voided' /\ InMemory'
  BY OthersKeep
<1>3. Ahead'
  <2>1. /\ need' <= epoch' + 1 /\ durable' <= epoch'
        /\ flush'.stage \in {"copy", "write", "end"} => flush'.epoch = epoch'
        /\ flush'.stage = "end" => flush'.ok = TRUE
    BY DEF Ahead
  <2>2. ASSUME NEW row \in Rows, map'[row] # "U"
        PROVE  /\ ~OnDisk(row)' => need' > durable'
               /\ ~OnDisk(row)' /\ flush'.stage \in {"idle", "snap", "end"} => dirty'
               /\ ~OnDisk(row)' /\ flush'.stage = "end" => need' > epoch'
               /\ flush'.stage = "write" /\ flush'.page.map[row] = "U" => need' > epoch' /\ dirty'
    BY <2>2 DEF Ahead
  <2> QED
    BY <2>1, <2>2 DEF Ahead
<1>4. Waited'
  <2>1. \A r \in Writers : req[r].row \in Rows
    BY DEF Types
  <2>2. \A s \in Stripes : s[1] \in Rows
    BY DEF Stripes
  <2>3. ASSUME NEW r \in Writers
        PROVE  /\ Admitted(r, seq.write)' => OnDisk(req[r].row)'
               /\ flush'.stage = "write" /\ Admitted(r, seq.flush)' => flush'.page.map[req'[r].row] # "U"
               /\ flush'.stage = "end" /\ Admitted(r, seq.flush)' => OnDisk(req[r].row)'
    <3>1. (Admitted(r, seq.write)' <=> Admitted(r, seq.write)) /\ (Admitted(r, seq.flush)' <=> Admitted(r, seq.flush))
      BY DEF Admitted, Writing
    <3> QED
      BY <2>1, <3>1 DEF Waited
  <2>4. ASSUME NEW s \in Stripes, NEW d \in MapData, live'[s][d] # {}
        PROVE  OnDisk(s[1])' /\ (flush'.stage = "write" => flush'.page.map[s[1]] # "U")
    BY <2>2, <2>4 DEF Waited
  <2> QED
    BY <2>3, <2>4 DEF Waited
<1> QED
  BY <1>1, <1>2, <1>3, <1>4

\* No copy is new, and none of those that mattered is gone.
LEMMA MembersChange ==
  ASSUME RowMapInv,
         member' \in [Members -> {"insync", "rebuilding", "faulty"}], offset' \in Nat,
         DOMAIN pass' = PassFields, pass'.row \in Nat,
         map' \in [Rows -> States], \A row \in Rows : map'[row] = "U" <=> map[row] = "U",
         dirty' \in BOOLEAN, dirty => dirty',
         UNCHANGED <<pageOf, need, epoch, durable, gen, lock, flush, seq, owner, req, live>>,
         Readable' \subseteq Readable,
         \A i, j \in Members : member'[i] # "insync" /\ member'[j] # "insync" => i = j,
         pass'.kind = "recover" => \E i \in Members : member'[i] = "rebuilding",
         Newest > 0 => \E i \in InSync' : pageOf[i].ok /\ pageOf[i].gen = Newest,
         (\E i \in InSync : ~pageOf[i].ok) => \E i \in InSync' : ~pageOf[i].ok
  PROVE  RowMapInv'
<1> USE DEF RowMapInv
<1>1. InSync' \subseteq Readable' /\ Newest' = Newest
  BY DEF InSync, Readable, Newest
<1>2. pageOf' \in [Members -> Page]
  BY DEF Types
<1>3. \A row \in Rows : OnDisk(row) => OnDisk(row)'
  BY <1>1, <1>2, OnDiskKept
<1>4. Types' /\ Requests' /\ Voided' /\ InMemory' /\ Ahead' /\ Waited'
  BY <1>2, <1>3, OutsideKeeps
<1>5. Copies'
  <2>1. /\ flush'.stage \in {"copy", "write"} => gen' > 0
        /\ flush'.stage = "write" => flush'.page \in Page /\ flush'.page.gen = gen' /\ flush'.page.ok
        /\ \A i \in Readable' : pageOf'[i].ok => pageOf'[i].gen <= Newest'
        /\ Newest' > 0 => \E i \in InSync' : pageOf'[i].ok /\ pageOf'[i].gen = Newest'
    BY <1>1 DEF Copies
  <2>2. \A i, j \in Readable' :
          pageOf'[i].ok /\ pageOf'[j].ok /\ pageOf'[i].gen = pageOf'[j].gen /\ pageOf'[i].gen > 0
            => \A row \in Rows : pageOf'[i].map[row] = "U" <=> pageOf'[j].map[row] = "U"
    BY DEF Copies
  <2>3. ~dirty' /\ flush'.stage \in {"idle", "snap", "end"} =>
          \A i \in Readable' : pageOf'[i].ok /\ pageOf'[i].gen = gen' /\ gen' > 0 =>
            \A row \in Rows : pageOf'[i].map[row] = "U" <=> map'[row] = "U"
    BY DEF Copies
  <2>4. ~dirty' /\ flush'.stage = "write" =>
          \A row \in Rows : flush'.page.map[row] = "U" <=> map'[row] = "U"
    BY DEF Copies
  <2> QED
    BY <2>1, <2>2, <2>3, <2>4 DEF Copies
<1> QED
  BY <1>4, <1>5

\* The steps that leave the members, the map and the pages alone, and no pass past its start.
LEMMA PassOnly ==
  ASSUME RowMapInv, offset' \in Nat, DOMAIN pass' = PassFields, pass'.row \in Nat,
         UNCHANGED <<member, pageOf, map, dirty, need, epoch, durable, gen, lock, flush, seq, owner,
                     req, live>>,
         pass'.kind = "recover" => \E i \in Members : member[i] = "rebuilding",
         (offset' # 0 \/ (pass'.kind = "recover" /\ pass'.stage \in {"row", "sync"}))
           => (offset # 0 \/ (pass.kind = "recover" /\ pass.stage \in {"row", "sync"}))
  PROVE  RowMapInv'
<1> USE DEF RowMapInv
<1>1. Readable' \subseteq Readable /\ InSync' = InSync
  BY DEF Readable, Seeded, InSync
<1>2. /\ member' \in [Members -> {"insync", "rebuilding", "faulty"}] /\ map' \in [Rows -> States]
      /\ dirty' \in BOOLEAN
  BY DEF Types
<1>3. /\ \A i, j \in Members : member'[i] # "insync" /\ member'[j] # "insync" => i = j
      /\ pass'.kind = "recover" => \E i \in Members : member'[i] = "rebuilding"
      /\ Newest > 0 => \E i \in InSync' : pageOf[i].ok /\ pageOf[i].gen = Newest
      /\ (\E i \in InSync : ~pageOf[i].ok) => \E i \in InSync' : ~pageOf[i].ok
  BY <1>1 DEF Copies
<1> QED
  BY <1>1, <1>2, <1>3, MembersChange

LEMMA ClearBitKeeps ==
  ASSUME RowMapInv, NEW row \in Rows, ClearBit(row)
  PROVE  RowMapInv'
<1>1. /\ offset' \in Nat /\ DOMAIN pass' = PassFields /\ pass'.row \in Nat
      /\ pass'.kind = "recover" => \E i \in Members : member[i] = "rebuilding"
  BY DEF RowMapInv, Types, Copies, ClearBit, onDisk
<1> QED
  BY <1>1, PassOnly DEF ClearBit, onDisk, core

LEMMA StartRecoveryKeeps ==
  ASSUME RowMapInv, StartRecovery
  PROVE  RowMapInv'
<1>1. /\ \E i \in Members : member[i] = "rebuilding"
      /\ UNCHANGED <<member, offset, pageOf, map, dirty, need, epoch, durable, gen, lock, flush, seq,
                     owner, req, live>>
  BY DEF StartRecovery, onDisk, core, bits
<1>2. /\ DOMAIN pass' = PassFields /\ pass'.row \in {0, offset}
      /\ pass'.stage \in {"row", "sync"} => offset # 0
  BY DEF StartRecovery, NoPass, PassFields
<1>3. offset \in Nat
  BY DEF RowMapInv, Types
<1> QED
  BY <1>1, <1>2, <1>3, PassOnly

LEMMA PassRowKeeps ==
  ASSUME RowMapInv, PassRow
  PROVE  RowMapInv'
<1>1. UNCHANGED <<member, offset, pageOf, map, dirty, need, epoch, durable, gen, lock, flush, seq,
                  owner, req, live>>
  BY DEF PassRow, onDisk, core, bits
<1>2. /\ DOMAIN pass' = PassFields /\ pass'.row \in {pass.row, pass.row + 1}
      /\ pass'.kind = pass.kind /\ pass.stage = "row"
  BY DEF PassRow, RowMapInv, Types, PassFields
<1>3. pass'.row \in Nat /\ offset' \in Nat
  BY <1>1, <1>2 DEF RowMapInv, Types
<1>4. pass'.kind = "recover" => \E i \in Members : member[i] = "rebuilding"
  BY <1>2 DEF RowMapInv, Copies
<1> QED
  BY <1>1, <1>2, <1>3, <1>4, PassOnly

LEMMA PassStripeKeeps ==
  ASSUME RowMapInv, PassStripe
  PROVE  RowMapInv'
<1>1. UNCHANGED <<member, offset, pageOf, map, dirty, need, epoch, durable, gen, lock, flush, seq,
                  owner, req, live>>
  BY DEF PassStripe, core, bits
<1>2. PICK s \in pass.todo :
        pass' = IF pass.todo = {s} THEN [pass EXCEPT !.stage = "row", !.row = @ + 1, !.todo = {}]
                                   ELSE [pass EXCEPT !.todo = @ \ {s}]
  BY DEF PassStripe
<1>3. /\ DOMAIN pass' = PassFields /\ pass'.row \in {pass.row, pass.row + 1}
      /\ pass'.kind = pass.kind /\ pass.stage = "sync"
  BY <1>2 DEF PassStripe, RowMapInv, Types, PassFields
<1>4. pass'.row \in Nat /\ offset' \in Nat
  BY <1>1, <1>3 DEF RowMapInv, Types
<1>5. pass'.kind = "recover" => \E i \in Members : member[i] = "rebuilding"
  BY <1>3 DEF RowMapInv, Copies
<1> QED
  BY <1>1, <1>3, <1>4, <1>5, PassOnly

LEMMA CheckpointKeeps ==
  ASSUME RowMapInv, Checkpoint
  PROVE  RowMapInv'
<1>1. /\ pass.kind = "recover" /\ pass.stage = "row" /\ offset' = pass.row
      /\ UNCHANGED <<member, pageOf, map, dirty, need, epoch, durable, gen, lock, flush, seq,
                     owner, req, live, pass>>
  BY DEF Checkpoint, core, bits
<1>2. /\ offset' \in Nat /\ DOMAIN pass' = PassFields /\ pass'.row \in Nat
      /\ pass'.kind = "recover" => \E i \in Members : member[i] = "rebuilding"
  BY <1>1 DEF RowMapInv, Types, Copies
<1> QED
  BY <1>1, <1>2, PassOnly

LEMMA InterruptKeeps ==
  ASSUME RowMapInv, Interrupt
  PROVE  RowMapInv'
<1> HIDE DEF NoPass
<1>1. /\ pass.stage = "row" /\ offset' = (IF pass.kind = "recover" THEN pass.row ELSE offset)
      /\ pass' = NoPass
      /\ UNCHANGED <<member, pageOf, map, dirty, need, epoch, durable, gen, lock, flush, seq,
                     owner, req, live>>
  BY DEF Interrupt, core, bits
<1>2. offset' \in Nat /\ DOMAIN pass' = PassFields /\ pass'.row \in Nat /\ pass'.kind = "none"
  BY <1>1, NoPassIs DEF RowMapInv, Types
<1> QED
  BY <1>1, <1>2, PassOnly

\* A resync begins: its N rows are S; it ends: they are N or W.
LEMMA SyncMoves ==
  ASSUME RowMapInv, UNCHANGED <<member, offset, pageOf, need, epoch, durable, gen, lock, flush, seq,
                                owner, req, live>>,
         \/ map' = map
         \/ \E from, to \in {"N", "S", "W"} : map' = Convert(from, to),
         dirty' \in BOOLEAN, dirty => dirty',
         DOMAIN pass' = PassFields, pass'.row \in Nat, pass'.kind # "recover"
  PROVE  RowMapInv'
<1> USE DEF RowMapInv
<1>1. map' \in [Rows -> States] /\ \A row \in Rows : map'[row] = "U" <=> map[row] = "U"
  BY DEF Types, Convert, States
<1>2. Readable' \subseteq Readable /\ InSync' = InSync
  BY DEF Readable, Seeded, InSync
<1>3. member' \in [Members -> {"insync", "rebuilding", "faulty"}] /\ offset' \in Nat
  BY DEF Types
<1>4. /\ \A i, j \in Members : member'[i] # "insync" /\ member'[j] # "insync" => i = j
      /\ Newest > 0 => \E i \in InSync' : pageOf[i].ok /\ pageOf[i].gen = Newest
      /\ (\E i \in InSync : ~pageOf[i].ok) => \E i \in InSync' : ~pageOf[i].ok
  BY <1>2 DEF Copies
<1> QED
  BY <1>1, <1>2, <1>3, <1>4, MembersChange

LEMMA StartSyncKeeps ==
  ASSUME RowMapInv, StartSync
  PROVE  RowMapInv'
<1>1. /\ UNCHANGED <<member, offset, pageOf, dirty, need, epoch, durable, gen, lock, flush, seq,
                     owner, req, live>>
      /\ map' = map \/ map' = Convert("N", "S")
  BY DEF StartSync, onDisk, bits
<1>2. DOMAIN pass' = PassFields /\ pass'.row = 0 /\ pass'.kind = "sync"
  BY DEF StartSync, NoPass, PassFields
<1>3. dirty' \in BOOLEAN
  BY <1>1 DEF RowMapInv, Types
<1> QED
  BY <1>1, <1>2, <1>3, SyncMoves

LEMMA SyncEndKeeps ==
  ASSUME RowMapInv, SyncEnd
  PROVE  RowMapInv'
<1>1. /\ UNCHANGED <<member, offset, pageOf, need, epoch, durable, gen, lock, flush, seq,
                     owner, req, live>>
      /\ map' = map \/ map' = Convert("S", "N") \/ map' = Convert("S", "W")
      /\ pass' = NoPass
  BY DEF SyncEnd, onDisk, bits
<1>2. dirty' \in BOOLEAN /\ (dirty => dirty')
  BY DEF SyncEnd, RowMapInv, Types
<1>3. DOMAIN pass' = PassFields /\ pass'.row = 0 /\ pass'.kind = "none"
  BY <1>1, NoPassIs
<1> QED
  BY <1>1, <1>2, <1>3, SyncMoves

LEMMA RecoveryEndKeeps ==
  ASSUME RowMapInv, RecoveryEnd
  PROVE  RowMapInv'
<1> USE DEF RowMapInv
<1> HIDE DEF NoPass
<1>1. /\ pass.kind = "recover" /\ pass.stage = "row" /\ pass' = NoPass /\ offset' = 0
      /\ member' = [i \in Members |-> IF member[i] = "rebuilding" THEN "insync" ELSE member[i]]
      /\ UNCHANGED <<pageOf, map, dirty, need, epoch, durable, gen, lock, flush, seq, owner, req, live>>
  BY DEF RecoveryEnd, core, bits
<1>2. DOMAIN pass' = PassFields /\ pass'.row \in Nat /\ pass'.kind # "recover" /\ offset' \in Nat
  BY <1>1, NoPassIs
<1>3. /\ member' \in [Members -> {"insync", "rebuilding", "faulty"}]
      /\ map' \in [Rows -> States] /\ dirty' \in BOOLEAN
  BY <1>1 DEF Types
<1>4. Readable' \subseteq Readable /\ InSync \subseteq InSync'
  BY <1>1 DEF Readable, Seeded, InSync
<1>5. /\ \A i, j \in Members : member'[i] # "insync" /\ member'[j] # "insync" => i = j
      /\ Newest > 0 => \E i \in InSync' : pageOf[i].ok /\ pageOf[i].gen = Newest
      /\ (\E i \in InSync : ~pageOf[i].ok) => \E i \in InSync' : ~pageOf[i].ok
  BY <1>1, <1>4 DEF Copies
<1> QED
  BY <1>1, <1>2, <1>3, <1>4, <1>5, MembersChange

\* The copies were one, and another member has it.
LEMMA LoseMemberKeeps ==
  ASSUME RowMapInv, NEW i \in Members, LoseMember(i), Alike
  PROVE  RowMapInv'
<1> USE DEF RowMapInv
<1> HIDE DEF NoPass
<1>1. /\ ~Degraded /\ pass' = NoPass /\ offset' = 0
      /\ member' = [member EXCEPT ![i] = "faulty"]
      /\ UNCHANGED <<pageOf, map, dirty, need, epoch, durable, gen, lock, flush, seq, owner, req, live>>
  BY DEF LoseMember, core, bits
<1>2. DOMAIN pass' = PassFields /\ pass'.row \in Nat /\ pass'.kind # "recover" /\ offset' \in Nat
  BY <1>1, NoPassIs
<1>3. /\ member' \in [Members -> {"insync", "rebuilding", "faulty"}]
      /\ map' \in [Rows -> States] /\ dirty' \in BOOLEAN
  BY <1>1 DEF Types
<1>4. \A j \in Members : member[j] = "insync" /\ member'[j] = IF j = i THEN "faulty" ELSE "insync"
  BY <1>1 DEF Types, Degraded
<1>5. Readable' \subseteq Readable
  BY <1>1, <1>4 DEF Readable, Seeded
<1>6. PICK k \in Members : k # i
  BY MapAssumption DEF Members
<1>7. k \in InSync' /\ \A j \in InSync : pageOf[j] = pageOf[k]
  BY <1>4, <1>6 DEF InSync, Alike
<1>8. /\ \A a, b \in Members : member'[a] # "insync" /\ member'[b] # "insync" => a = b
      /\ Newest > 0 => \E j \in InSync' : pageOf[j].ok /\ pageOf[j].gen = Newest
      /\ (\E j \in InSync : ~pageOf[j].ok) => \E j \in InSync' : ~pageOf[j].ok
  BY <1>4, <1>7 DEF Copies
<1> QED
  BY <1>1, <1>2, <1>3, <1>5, <1>8, MembersChange

LEMMA AddMemberKeeps ==
  ASSUME RowMapInv, AddMember
  PROVE  RowMapInv'
<1> USE DEF RowMapInv
<1>1. /\ offset' = 0
      /\ UNCHANGED <<pageOf, map, dirty, need, epoch, durable, gen, lock, flush, seq, owner, req, live,
                     pass>>
  BY DEF AddMember, core, bits
<1>2. PICK i \in Members : member[i] = "faulty" /\ member' = [member EXCEPT ![i] = "rebuilding"]
  BY DEF AddMember
<1>3. \A j \in Members : member[j] # "rebuilding"
  BY <1>2 DEF Copies
<1>4. pass.kind # "recover"
  BY <1>3 DEF Copies
<1>5. \A j \in Members : member'[j] = IF j = i THEN "rebuilding" ELSE member[j]
  BY <1>2 DEF Types
<1>6. /\ member' \in [Members -> {"insync", "rebuilding", "faulty"}]
      /\ map' \in [Rows -> States] /\ dirty' \in BOOLEAN
      /\ DOMAIN pass' = PassFields /\ pass'.row \in Nat /\ offset' \in Nat
  BY <1>1, <1>2 DEF Types
<1>7. Readable' \subseteq Readable /\ InSync' = InSync
  BY <1>1, <1>2, <1>4, <1>5 DEF Readable, Seeded, InSync
<1>8. /\ \A a, b \in Members : member'[a] # "insync" /\ member'[b] # "insync" => a = b
      /\ Newest > 0 => \E j \in InSync' : pageOf[j].ok /\ pageOf[j].gen = Newest
      /\ (\E j \in InSync : ~pageOf[j].ok) => \E j \in InSync' : ~pageOf[j].ok
  BY <1>2, <1>5, <1>7 DEF Copies
<1> QED
  BY <1>1, <1>4, <1>6, <1>7, <1>8, MembersChange

\* What a rebuild hands out is what the newest copies say.
LEMMA SeedPagesKeeps ==
  ASSUME RowMapInv, SeedPages, ~dirty
  PROVE  RowMapInv'
<1> USE DEF RowMapInv
<1> DEFINE page == [gen |-> gen, map |-> map, ok |-> TRUE]
<1>1. /\ pass.stage = "pages" /\ flush.stage = "idle" /\ pass' = [pass EXCEPT !.stage = "row"]
      /\ pageOf' = [i \in Members |-> IF member[i] = "rebuilding" THEN page ELSE pageOf[i]]
      /\ UNCHANGED <<member, offset, map, dirty, need, epoch, durable, gen, lock, flush, seq, owner, req,
                     live>>
  BY DEF SeedPages, core, bits
<1>2. page \in Page /\ page.gen = gen /\ page.map = map /\ page.ok /\ gen \in Nat
  BY DEF Types, Page
<1> HIDE DEF page
<1>3. /\ pageOf' \in [Members -> Page] /\ DOMAIN pass' = PassFields /\ pass'.row \in Nat
      /\ pass'.kind = pass.kind
      /\ member' \in [Members -> {"insync", "rebuilding", "faulty"}] /\ offset' \in Nat
      /\ map' \in [Rows -> States] /\ dirty' \in BOOLEAN
  BY <1>1, <1>2 DEF Types, PassFields
<1>4. Newest = gen /\ Newest' = gen /\ InSync' = InSync /\ InSync \subseteq Readable
  BY <1>1 DEF Newest, InSync, Readable
<1>5. \A i \in InSync : i \in Members /\ pageOf'[i] = pageOf[i]
  BY <1>1 DEF InSync
<1>6. \A row \in Rows : OnDisk(row) => OnDisk(row)'
  BY <1>3, <1>4, <1>5, OnDiskKept DEF Copies
<1>7. Types' /\ Requests' /\ Voided' /\ InMemory' /\ Ahead' /\ Waited'
  BY <1>1, <1>3, <1>6, OutsideKeeps
<1>8. \A i \in Readable' : \/ i \in InSync
                           \/ pageOf'[i] = page
  BY <1>1 DEF Readable, Seeded, InSync
<1>9. \A i \in Readable' : pageOf'[i].ok /\ pageOf'[i].gen = gen /\ gen > 0 =>
        \A row \in Rows : pageOf'[i].map[row] = "U" <=> map[row] = "U"
  BY <1>1, <1>2, <1>4, <1>5, <1>8 DEF Copies
<1>10. Copies'
  <2>1. \A i \in Readable' : pageOf'[i].ok => pageOf'[i].gen <= Newest'
    BY <1>2, <1>4, <1>5, <1>8 DEF Copies
  <2>2. \A i, j \in Readable' :
          pageOf'[i].ok /\ pageOf'[j].ok /\ pageOf'[i].gen = pageOf'[j].gen /\ pageOf'[i].gen > 0
            => \A row \in Rows : pageOf'[i].map[row] = "U" <=> pageOf'[j].map[row] = "U"
    <3> SUFFICES ASSUME NEW i \in Readable', NEW j \in Readable',
                        pageOf'[i].ok, pageOf'[j].ok, pageOf'[i].gen = pageOf'[j].gen, pageOf'[i].gen > 0,
                        NEW row \in Rows
                 PROVE  pageOf'[i].map[row] = "U" <=> pageOf'[j].map[row] = "U"
      OBVIOUS
    <3>1. CASE pageOf'[i].gen = gen
      BY <1>9, <3>1
    <3>2. CASE pageOf'[i].gen # gen
      <4>1. i \in InSync /\ j \in InSync
        BY <1>2, <1>8, <3>2
      <4> QED
        BY <1>4, <1>5, <4>1 DEF Copies
    <3> QED
      BY <3>1, <3>2
  <2>3. /\ \A i, j \in Members : member'[i] # "insync" /\ member'[j] # "insync" => i = j
        /\ pass'.kind = "recover" => \E i \in Members : member'[i] = "rebuilding"
    BY <1>1, <1>3 DEF Copies
  <2>4. Newest' > 0 => \E i \in InSync' : pageOf'[i].ok /\ pageOf'[i].gen = Newest'
    <3>1. Newest > 0 => \E i \in InSync : pageOf[i].ok /\ pageOf[i].gen = Newest
      BY DEF Copies
    <3> QED
      BY <1>4, <1>5, <3>1
  <2>5. flush'.stage = "idle" /\ gen' = gen /\ map' = map
    BY <1>1
  <2> QED
    BY <1>9, <2>1, <2>2, <2>3, <2>4, <2>5 DEF Copies
<1> QED
  BY <1>7, <1>10

-----------------------------------------------------------------------------
(* A power failure. *)

\* The pages that are left have a newest generation, and what was settled is in it.
Agree(newest) ==
  /\ UpTo(newest, InSync', pageOf')
  /\ \A i \in Readable' : pageOf'[i].ok => pageOf'[i].gen <= newest
  /\ \A i, j \in Readable' :
       pageOf'[i].ok /\ pageOf'[j].ok /\ pageOf'[i].gen = pageOf'[j].gen /\ pageOf'[i].gen > 0
         => \A row \in Rows : pageOf'[i].map[row] = "U" <=> pageOf'[j].map[row] = "U"
Recovers(newest) ==
  /\ Agree(newest)
  /\ \A row \in Rows : Settled(row) => Found(InSync', pageOf').map[row] # "U"

LEMMA NothingCut ==
  ASSUME Types, Copies, InSync' = InSync, Readable' \subseteq Readable, pageOf' = pageOf
  PROVE  Recovers(Newest)
<1>1. Newest \in Nat /\ InSync \subseteq Readable /\ InSync \subseteq Members
  BY OnDiskIs DEF InSync, Readable, Types, Newest, Copies
<1>2. pageOf' \in [Members -> Page] /\ \A i \in InSync' : pageOf'[i] = pageOf[i]
  BY DEF Types
<1>3. UpTo(Newest, InSync', pageOf')
  <2>1. \A i \in InSync' : pageOf'[i].ok => pageOf'[i].gen <= Newest
    BY <1>1 DEF Copies
  <2>2. Newest > 0 => \E i \in InSync' : pageOf'[i].ok /\ pageOf'[i].gen = Newest
    BY DEF Copies
  <2>3. Newest > 0 => \A i, j \in InSync' :
          pageOf'[i].ok /\ pageOf'[j].ok /\ pageOf'[i].gen = Newest /\ pageOf'[j].gen = Newest
            => \A x \in Rows : pageOf'[i].map[x] = "U" <=> pageOf'[j].map[x] = "U"
    BY <1>1 DEF Copies
  <2> QED
    BY <1>1, <1>2, <2>1, <2>2, <2>3 DEF UpTo
<1>4. \A row : OnDisk(row) => Found(InSync', pageOf').map[row] # "U"
  BY BestIsFound
<1>5. /\ \A i \in Readable' : pageOf'[i].ok => pageOf'[i].gen <= Newest
      /\ \A i, j \in Readable' :
           pageOf'[i].ok /\ pageOf'[j].ok /\ pageOf'[i].gen = pageOf'[j].gen /\ pageOf'[i].gen > 0
             => \A row \in Rows : pageOf'[i].map[row] = "U" <=> pageOf'[j].map[row] = "U"
  BY DEF Copies
<1> QED
  BY <1>3, <1>4, <1>5 DEF Recovers, Agree, Settled

\* The flush came to some member in sync.
LEMMA CutAfterOne ==
  ASSUME Types, Copies, flush.stage = "write", InSync' = InSync, Readable' = InSync,
         pageOf' \in [Members -> Page],
         \A i \in InSync : pageOf'[i].ok => pageOf'[i] = flush.page \/ pageOf'[i] = pageOf[i],
         \E i \in InSync : pageOf'[i] = flush.page
  PROVE  Recovers(gen)
<1>1. flush.page \in Page /\ flush.page.gen = gen /\ flush.page.ok /\ gen > 0 /\ gen \in Nat
  BY DEF Copies, Types
<1>2. \A i \in InSync : i \in Members /\ i \in Readable
  BY DEF InSync, Readable
<1>3. \A i \in InSync : pageOf[i].ok => pageOf[i].gen <= gen - 1 /\ pageOf[i].gen \in Nat
  BY <1>2 DEF Copies, Newest, Types, Page
<1>4. \A i, j \in InSync :
        pageOf'[i].ok /\ pageOf'[j].ok /\ pageOf'[i].gen = pageOf'[j].gen /\ pageOf'[i].gen > 0
          => \A row \in Rows : pageOf'[i].map[row] = "U" <=> pageOf'[j].map[row] = "U"
  <2> SUFFICES ASSUME NEW i \in InSync, NEW j \in InSync,
                      pageOf'[i].ok, pageOf'[j].ok, pageOf'[i].gen = pageOf'[j].gen, pageOf'[i].gen > 0
               PROVE  \A row \in Rows : pageOf'[i].map[row] = "U" <=> pageOf'[j].map[row] = "U"
    OBVIOUS
  <2>1. CASE pageOf'[i].gen = gen
    <3>1. ASSUME NEW x \in InSync, pageOf'[x].ok, pageOf'[x].gen = gen PROVE pageOf'[x] = flush.page
      <4>1. CASE pageOf'[x] = pageOf[x]
        <5>1. pageOf[x].gen <= gen - 1 /\ pageOf[x].gen = gen
          BY <1>3, <3>1, <4>1
        <5> QED
          BY <1>1, <5>1
      <4> QED
        BY <3>1, <4>1
    <3> QED
      BY <2>1, <3>1
  <2>2. CASE pageOf'[i].gen # gen
    <3>1. pageOf'[i] = pageOf[i] /\ pageOf'[j] = pageOf[j]
      BY <1>1, <2>2
    <3> QED
      BY <1>2, <3>1 DEF Copies
  <2> QED
    BY <2>1, <2>2
<1>5. \A i \in InSync : pageOf'[i].ok => pageOf'[i].gen <= gen
  BY <1>1, <1>3
<1>6. UpTo(gen, InSync', pageOf')
  BY <1>1, <1>2, <1>4, <1>5 DEF UpTo
<1>7. PICK k \in InSync : pageOf'[k] = flush.page
  OBVIOUS
<1>8. \A row \in Rows : Found(InSync', pageOf').map[row] # "U" <=> flush.page.map[row] # "U"
  BY <1>1, <1>6, <1>7, FoundIs
<1> QED
  BY <1>4, <1>5, <1>6, <1>8 DEF Recovers, Agree, Settled

\* It came to none, and the copy that it tore, if any, is not the only one.
LEMMA CutBefore ==
  ASSUME Types, Copies, InSync' = InSync, Readable' = InSync,
         pageOf' \in [Members -> Page], NEW n,
         \A i \in InSync : pageOf'[i] = pageOf[i] \/ (i = n /\ ~pageOf'[i].ok),
         (\E i \in InSync : pageOf[i].ok /\ ~pageOf'[i].ok) => Alike
  PROVE  \E newest : Recovers(newest)
<1>1. Newest \in Nat /\ \A i \in InSync : i \in Members /\ i \in Readable
  BY OnDiskIs DEF InSync, Readable, Types, Newest, Copies
<1>2. \A i \in InSync : pageOf'[i].ok => pageOf[i].ok /\ pageOf'[i] = pageOf[i]
  OBVIOUS
<1>3. \A i \in InSync : pageOf'[i].ok => pageOf'[i].gen <= Newest
  BY <1>1, <1>2 DEF Copies
<1>4. \A i, j \in InSync :
        pageOf'[i].ok /\ pageOf'[j].ok /\ pageOf'[i].gen = pageOf'[j].gen /\ pageOf'[i].gen > 0
          => \A row \in Rows : pageOf'[i].map[row] = "U" <=> pageOf'[j].map[row] = "U"
  BY <1>1, <1>2 DEF Copies
<1>5. (\E i \in InSync : ~pageOf[i].ok) => \E i \in InSync : ~pageOf'[i].ok
  OBVIOUS
<1>6. CASE Newest > 0 /\ \E k \in InSync : pageOf'[k].ok /\ pageOf'[k].gen = Newest
  <2>1. UpTo(Newest, InSync', pageOf')
    BY <1>1, <1>3, <1>4, <1>6 DEF UpTo
  <2>2. PICK k \in InSync : pageOf'[k].ok /\ pageOf'[k].gen = Newest
    BY <1>6
  <2>3. ASSUME NEW row \in Rows, OnDisk(row) PROVE Found(InSync', pageOf').map[row] # "U"
    <3>1. pageOf[k].ok /\ pageOf[k].gen = Newest /\ pageOf'[k] = pageOf[k]
      BY <1>2, <2>2
    <3>2. pageOf[k].map[row] # "U"
      BY <1>6, <2>3, <3>1, OnDiskIs
    <3> QED
      BY <1>6, <2>1, <2>2, <3>1, <3>2, FoundIs
  <2>4. Recovers(Newest)
    BY <1>3, <1>4, <2>1, <2>3 DEF Recovers, Agree, Settled
  <2> QED
    BY <2>4
<1>7. CASE Newest = 0
  <2>1. UpTo(Newest, InSync', pageOf')
    BY <1>1, <1>3, <1>7 DEF UpTo
  <2>2. ASSUME NEW row \in Rows, OnDisk(row) PROVE Found(InSync', pageOf').map[row] # "U"
    <3>1. \E i \in InSync : ~pageOf[i].ok
      BY <1>7, <2>2, OnDiskIs
    <3> QED
      BY <1>5, <1>7, <2>1, <3>1, FoundIs
  <2>3. Recovers(Newest)
    BY <1>3, <1>4, <2>1, <2>2 DEF Recovers, Agree, Settled
  <2> QED
    BY <2>3
<1>8. CASE Newest > 0 /\ ~\E k \in InSync : pageOf'[k].ok /\ pageOf'[k].gen = Newest
  <2>1. PICK k \in InSync : pageOf[k].ok /\ pageOf[k].gen = Newest
    BY <1>8 DEF Copies
  <2>2. k = n /\ ~pageOf'[k].ok
    BY <1>8, <2>1
  <2>3. \A i \in InSync : pageOf[i] = pageOf[k]
    BY <2>1, <2>2 DEF Alike
  <2>4. \A i \in InSync : i = k
    BY <1>8, <2>1, <2>2, <2>3
  <2>5. UpTo(0, InSync', pageOf')
    BY <1>1, <2>2, <2>4 DEF UpTo
  <2>6. \A row \in Rows : Found(InSync', pageOf').map[row] # "U"
    BY <2>2, <2>5, FoundIs
  <2>7. Recovers(0)
    BY <1>4, <2>2, <2>4, <2>5, <2>6 DEF Recovers, Agree
  <2> QED
    BY <2>7
<1> QED
  BY <1>1, <1>6, <1>7, <1>8

\* A power failure that leaves copies which agree, and no row with data U on the one that
\* the load takes: the array starts again with the invariant.
LEMMA Assembled ==
  ASSUME Crash, member \in [Members -> {"insync", "rebuilding", "faulty"}], offset \in Nat,
         \A i, j \in Members : member[i] # "insync" /\ member[j] # "insync" => i = j,
         pageOf' \in [Members -> Page], NEW newest, Agree(newest),
         \A s \in Stripes, d \in MapData : live[s][d] # {} => Found(InSync', pageOf').map[s[1]] # "U"
  PROVE  RowMapInv'
<1> USE DEF RowMapInv
<1> HIDE DEF NoFlush, NoPass, NoRequest
<1>1. /\ UNCHANGED <<member, offset>>
      /\ map' = Best(pageOf').map /\ gen' = Best(pageOf').gen
      /\ dirty' = FALSE /\ need' = 0 /\ epoch' = 0 /\ durable' = 0 /\ lock' = Nobody
      /\ flush' = NoFlush /\ seq' = [flush |-> 0, write |-> 0] /\ pass' = NoPass
      /\ owner' = [s \in Stripes |-> Nobody] /\ req' = [r \in Writers |-> NoRequest]
      /\ \A s \in Stripes, d \in MapData : live'[s][d] # {} => live[s][d] # {}
  BY DEF Crash
<1>8. /\ newest \in Nat /\ gen' = newest /\ map' \in [Rows -> States]
      /\ map' = Found(InSync', pageOf').map
      /\ \A row \in Rows : map'[row] # "U" <=> OnDisk(row)'
  <2>1. Best(pageOf') = Found(InSync', pageOf')
    BY <1>1, BestIsFound
  <2>2. UpTo(newest, InSync', pageOf') /\ newest \in Nat
    BY DEF Agree, UpTo
  <2>3. \A row \in Rows : OnDisk(row)' <=> Found(InSync', pageOf').map[row] # "U"
    BY BestIsFound
  <2>4. 0 \in Rows
    BY MapAssumption DEF Rows
  <2>5. Found(InSync', pageOf').gen = newest /\ Found(InSync', pageOf').map \in [Rows -> States]
    BY <2>2, <2>4, FoundIs
  <2> QED
    BY <1>1, <2>1, <2>2, <2>3, <2>5
<1>9. \A s \in Stripes, d \in MapData : live'[s][d] # {} => OnDisk(s[1])' /\ map'[s[1]] # "U"
  <2>1. \A s \in Stripes : s[1] \in Rows
    BY DEF Stripes
  <2> QED
    BY <1>1, <1>8, <2>1
<1>10. \A r \in Writers : req'[r] = NoRequest
  BY <1>1
<1>11. Types'
  <2>1. DOMAIN flush' = FlushFields /\ flush'.stage \in FlushStages /\ flush'.epoch \in Nat
    BY <1>1, NoFlushIs DEF FlushStages
  <2>2. DOMAIN pass' = PassFields /\ pass'.row \in Nat
    BY <1>1, NoPassIs
  <2>3. FunctionOn(req', Writers)
    BY <1>1 DEF FunctionOn
  <2>4. \A r \in Writers : /\ DOMAIN req'[r] = RequestFields
                           /\ req'[r].kind \in Kinds /\ req'[r].row \in Rows
                           /\ req'[r].seq \in Nat /\ req'[r].void \in BOOLEAN
    BY <1>10, NoRequestIs
  <2>5. /\ lock' \in Writers \cup {Nobody} /\ seq' \in [flush : Nat, write : Nat]
        /\ owner' \in [Stripes -> Writers \cup {Nobody}]
        /\ need' \in Nat /\ epoch' \in Nat /\ durable' \in Nat /\ gen' \in Nat /\ dirty' \in BOOLEAN
        /\ member' \in [Members -> {"insync", "rebuilding", "faulty"}] /\ offset' \in Nat
    BY <1>1, <1>8
  <2> QED
    BY <1>8, <2>1, <2>2, <2>3, <2>4, <2>5 DEF Types
<1>12. Requests' /\ Voided' /\ InMemory'
  <2>1. \A r \in Writers : /\ req'[r].todo = {} /\ req'[r].kind = "none" /\ req'[r].stage = "idle"
    BY <1>10, NoRequestIs
  <2>2. \A s \in Stripes, r \in Writers : owner'[s] # r
    BY <1>1, MapAssumption
  <2>3. Requests'
    BY <2>1, <2>2 DEF Requests
  <2>4. Voided' /\ InMemory'
    BY <1>9, <2>1 DEF Voided, InMemory, Writing
  <2> QED
    BY <2>3, <2>4
<1>13. flush'.stage = "idle" /\ flush'.for = "none"
  BY <1>1, NoFlushIs
<1>14. Ahead'
  BY <1>1, <1>8, <1>13 DEF Ahead
<1>15. Waited'
  <2>1. \A r \in Writers : req'[r].kind = "none"
    BY <1>10, NoRequestIs
  <2>2. \A r \in Writers : ~Admitted(r, seq.write)' /\ ~Admitted(r, seq.flush)'
    BY <2>1 DEF Admitted, Writing
  <2> QED
    BY <1>1, <1>9, <1>13, <2>2 DEF Waited
<1>16. Copies'
  <2>1. Newest' = newest
    BY <1>8, <1>13 DEF Newest
  <2>2. /\ \A i, j \in Members : member'[i] # "insync" /\ member'[j] # "insync" => i = j
        /\ pass'.kind # "recover"
    BY <1>1, NoPassIs
  <2>3. newest > 0 => \E i \in InSync' : pageOf'[i].ok /\ pageOf'[i].gen = newest
    BY DEF Agree, UpTo
  <2>4. \A i \in Readable' : pageOf'[i].ok /\ pageOf'[i].gen = newest /\ newest > 0 =>
          \A row \in Rows : pageOf'[i].map[row] = "U" <=> map'[row] = "U"
    <3> SUFFICES ASSUME NEW i \in Readable', pageOf'[i].ok, pageOf'[i].gen = newest, newest > 0,
                        NEW row \in Rows
                 PROVE  pageOf'[i].map[row] = "U" <=> map'[row] = "U"
      OBVIOUS
    <3>1. PICK k \in InSync' : pageOf'[k].ok /\ pageOf'[k].gen = newest
      BY <2>3
    <3>2. map'[row] # "U" <=> pageOf'[k].map[row] # "U"
      BY <1>8, <3>1, FoundIs DEF Agree
    <3>3. k \in Readable'
      BY DEF InSync, Readable
    <3> QED
      BY <3>1, <3>2, <3>3 DEF Agree
  <2>5. /\ \A i \in Readable' : pageOf'[i].ok => pageOf'[i].gen <= newest
        /\ \A i, j \in Readable' :
             pageOf'[i].ok /\ pageOf'[j].ok /\ pageOf'[i].gen = pageOf'[j].gen /\ pageOf'[i].gen > 0
               => \A row \in Rows : pageOf'[i].map[row] = "U" <=> pageOf'[j].map[row] = "U"
    BY DEF Agree
  <2> QED
    BY <1>8, <1>13, <2>1, <2>2, <2>3, <2>4, <2>5 DEF Copies
<1> QED
  BY <1>11, <1>12, <1>14, <1>15, <1>16

LEMMA CrashKeeps ==
  ASSUME RowMapInv, Crash, flush.stage = "write" => offset = 0,
         (\E i \in InSync : pageOf[i].ok /\ ~pageOf'[i].ok) => Alike
  PROVE  RowMapInv'
<1> USE DEF RowMapInv
<1> HIDE DEF NoFlush, NoPass, NoRequest
<1>1. /\ UNCHANGED <<member, offset>> /\ pass' = NoPass
  BY DEF Crash
<1>2. PICK n \in 0..(MapK + 1), torn \in BOOLEAN :
        /\ n > 0 \/ torn => flush.stage = "write"
        /\ pageOf' = [i \in Members |-> IF i < n /\ Present(i) THEN flush.page
                                        ELSE IF torn /\ i = n THEN [pageOf[i] EXCEPT !.ok = FALSE]
                                        ELSE pageOf[i]]
  BY DEF Crash
<1>3. Members \subseteq Nat /\ n \in Nat /\ \A i \in Members : ~(i < 0)
  BY MapAssumption DEF Members
<1>4. pageOf' \in [Members -> Page]
  <2>1. \A i \in Members : [pageOf[i] EXCEPT !.ok = FALSE] \in Page
    BY DEF Types, Page
  <2>2. n > 0 => flush.page \in Page
    BY <1>2 DEF Copies
  <2>3. \A i \in Members : i < n => n > 0
    BY <1>3
  <2> QED
    BY <1>2, <2>1, <2>2, <2>3 DEF Types
<1>5. InSync' = InSync
  BY <1>1 DEF InSync
<1>6. \E newest : Recovers(newest)
  <2>1. CASE flush.stage # "write"
    <3>1. n = 0 /\ ~torn
      BY <1>2, <1>3, <2>1
    <3>2. pageOf' = pageOf
      BY <1>2, <1>3, <3>1 DEF Types
    <3>3. Readable' \subseteq Readable
      BY <1>1, NoPassIs DEF Readable, Seeded
    <3> QED
      BY <1>5, <3>2, <3>3, NothingCut
  <2>2. CASE flush.stage = "write"
    <3>1. Readable' = InSync
      BY <1>1, <2>2, NoPassIs DEF Readable, Seeded, InSync
    <3>2. \A i \in InSync : \/ pageOf'[i] = flush.page
                            \/ pageOf'[i] = pageOf[i]
                            \/ i = n /\ ~pageOf'[i].ok
      BY <1>2 DEF InSync, Types, Page
    <3>3. CASE \E i \in InSync : pageOf'[i] = flush.page
      <4>1. \A i \in InSync : pageOf'[i].ok => pageOf'[i] = flush.page \/ pageOf'[i] = pageOf[i]
        BY <3>2
      <4> QED
        BY <1>4, <1>5, <2>2, <3>1, <3>3, <4>1, CutAfterOne
    <3>4. CASE ~\E i \in InSync : pageOf'[i] = flush.page
      BY <1>4, <1>5, <3>1, <3>2, <3>4, CutBefore
    <3> QED
      BY <3>3, <3>4
  <2> QED
    BY <2>1, <2>2
<1>7. PICK newest : Recovers(newest)
  BY <1>6
<1>8. \A s \in Stripes, d \in MapData : live[s][d] # {} => Found(InSync', pageOf').map[s[1]] # "U"
  <2>1. \A s \in Stripes : s[1] \in Rows
    BY DEF Stripes
  <2>2. \A s \in Stripes, d \in MapData : live[s][d] # {} => Settled(s[1])
    BY DEF Waited, Settled
  <2> QED
    BY <1>7, <2>1, <2>2 DEF Recovers
<1>9. \A i, j \in Members : member[i] # "insync" /\ member[j] # "insync" => i = j
  BY DEF Copies
<1>10. offset \in Nat /\ member \in [Members -> {"insync", "rebuilding", "faulty"}]
  BY DEF Types
<1>11. Agree(newest)
  BY <1>7 DEF Recovers
<1> QED
  BY <1>4, <1>8, <1>9, <1>10, <1>11, Assembled

-----------------------------------------------------------------------------

\* A step that changes none of the variables.
LEMMA NothingKeeps ==
  ASSUME RowMapInv, UNCHANGED vars
  PROVE  RowMapInv'
<1>1. /\ UNCHANGED <<member, offset, pageOf, map, dirty, need, epoch, durable, gen, lock, flush, seq,
                     owner, req, live, pass>>
  BY DEF vars, onDisk, core
<1>2. offset' \in Nat /\ DOMAIN pass' = PassFields /\ pass'.row \in Nat
  BY <1>1 DEF RowMapInv, Types
<1>3. pass'.kind = "recover" => \E i \in Members : member[i] = "rebuilding"
  BY <1>1 DEF RowMapInv, Copies
<1> QED
  BY <1>1, <1>2, <1>3, PassOnly

(* No member takes anything any more.                                      *)

\* A page that reaches no member leaves the copies as the last flush left them.
LEMMA PageReachesNoneLoses ==
  ASSUME RowMapInv, PageReachesNone
  PROVE  Lost' /\ broken'
<1> USE DEF RowMapInv
<1> HIDE DEF NoPass, NoFlush
<1>1. /\ UNCHANGED <<member, offset, pageOf, live>> /\ broken' /\ ~Degraded
      /\ pass' = NoPass
  <2>1. NoPass.stage # "seed"
    BY NoPassIs
  <2> QED
    BY <2>1 DEF PageReachesNone, Finish
<1>2. member = [i \in Members |-> "insync"]
  BY <1>1 DEF Degraded, Types
<1>3. InSync = Members /\ Members \subseteq Readable
  BY <1>2 DEF InSync, Readable
<1>4. Newest \in Nat
  BY DEF Types, Copies, Newest
<1>5. UpTo(Newest, Members, pageOf)
  <2>1. Newest > 0 => \E i \in Members : pageOf[i].ok /\ pageOf[i].gen = Newest
    BY <1>3 DEF Copies
  <2>2. \A i \in Members : pageOf[i].ok => pageOf[i].gen <= Newest
    BY <1>3 DEF Copies
  <2>3. Newest > 0 => \A i, j \in Members :
          pageOf[i].ok /\ pageOf[j].ok /\ pageOf[i].gen = Newest /\ pageOf[j].gen = Newest
            => \A row \in Rows : pageOf[i].map[row] = "U" <=> pageOf[j].map[row] = "U"
    BY <1>3 DEF Copies
  <2> QED
    BY <1>4, <2>1, <2>2, <2>3 DEF UpTo, Types
<1>6. \A i, j \in Members :
        pageOf[i].ok /\ pageOf[j].ok /\ pageOf[i].gen = pageOf[j].gen /\ pageOf[i].gen > 0
          => \A row \in Rows : pageOf[i].map[row] = "U" <=> pageOf[j].map[row] = "U"
  BY <1>3 DEF Copies
<1>7. \A s \in Stripes, d \in MapData : live[s][d] # {} => OnDisk(s[1])'
  BY <1>1, OnDiskStays DEF Waited
<1> HIDE DEF UpTo
<1>8. UpTo(Newest, Members, pageOf')
  BY <1>1, <1>5
<1> QED
  BY <1>1, <1>2, <1>6, <1>7, <1>8 DEF Lost, Types

\* What a step on a broken array leaves alone.
LEMMA StillLost ==
  ASSUME Lost, UNCHANGED <<member, offset, pageOf, pass>>,
         \A s \in Stripes, d \in MapData : live'[s][d] # {} => live[s][d] # {}
  PROVE  Lost'
<1>1. \A row : OnDisk(row)' <=> OnDisk(row)
  BY OnDiskStays
<1> QED
  BY <1>1 DEF Lost, UpTo

\* No write begins on a broken array, no pass and no change of members; a flush finds no
\* member to write to.
LEMMA LostKeeps ==
  ASSUME broken, Lost, Next, ~Crash
  PROVE  Lost' /\ broken' = broken
<1> HIDE DEF NoPass, NoFlush, NoRequest
<1>1. pass.kind = "none" /\ pass.stage = "idle" /\ NoPass = pass
  BY NoPassIs DEF Lost
<1>2. \A i \in Members : ~Present(i) /\ member[i] = "insync"
  BY DEF Present, Lost
<1>3. ASSUME NEW r \in Writers, Serve(r)
      PROVE  /\ UNCHANGED <<member, offset, pageOf, pass, broken>>
             /\ \A s \in Stripes, d \in MapData : live'[s][d] # {} => live[s][d] # {}
  <2>1. CASE NoteDiscard(r)
    BY <2>1 DEF NoteDiscard, onDisk
  <2>2. CASE Submit(r) \/ NoteSame(r) \/ NoteLock(r) \/ NoteNeed(r) \/ NoteState(r)
    BY <2>2 DEF Submit, NoteSame, NoteLock, NoteNeed, NoteState, onDisk
  <2>3. CASE RowGo(r) \/ RowUnplug(r) \/ RowIssue(r) \/ Attach(r) \/ Handle(r)
    BY <2>3 DEF RowGo, RowUnplug, RowIssue, Attach, Handle, onDisk
  <2>4. CASE (\E i \in Members : Land(r, i)) \/ Refuse(r)
    BY <2>4 DEF Land, Refuse, onDisk
  <2> QED
    BY <1>3, <2>1, <2>2, <2>3, <2>4 DEF Serve
<1>4. ASSUME Flushing
      PROVE  UNCHANGED <<member, offset, pageOf, pass, broken, live>>
  <2>1. CASE Round \/ (\E who \in {"row", "lazy", "seed"} : FlushFor(who)) \/ FlushSnap \/ FlushCopy
    BY <2>1 DEF Round, FlushFor, FlushSnap, FlushCopy, onDisk
  <2>2. CASE FlushEnd
    <3>1. ASSUME NEW ok, Finish(ok, pass) PROVE pass' = pass /\ live' = live
      BY <1>1, <3>1 DEF Finish
    <3>2. pageOf \in [Members -> Page]
      BY DEF Lost
    <3>3. [i \in Members |-> IF Present(i) THEN flush.page ELSE pageOf[i]] = pageOf
      BY <1>2, <3>2
    <3> QED
      BY <2>2, <3>1, <3>3 DEF FlushEnd
  <2>3. ~PageReachesNone
    BY DEF PageReachesNone
  <2> QED
    BY <1>4, <2>1, <2>2, <2>3 DEF Flushing
<1>5. ~Passing
  <2>1. ~StartRecovery /\ ~StartSync
    BY DEF StartRecovery, StartSync
  <2> QED
    BY <1>1, <2>1 DEF Passing, SeedPages, PassRow, PassStripe, Checkpoint, Interrupt, RecoveryEnd, SyncEnd
<1>6. /\ \A row \in Rows : ~ClearBit(row)
      /\ \A i \in Members : ~LoseMember(i)
      /\ ~AddMember
  BY DEF ClearBit, LoseMember, AddMember
<1> QED
  BY <1>3, <1>4, <1>5, <1>6, StillLost DEF Next

\* The next assembly finds every member in sync, and the copies as the last flush that
\* reached them left them.
LEMMA LostFound ==
  ASSUME broken, Lost, Crash
  PROVE  RowMapInv' /\ ~broken'
<1>1. PICK n \in 0..(MapK + 1), torn \in BOOLEAN :
        /\ n <= MapK => (torn => Present(n))
        /\ torn => n <= MapK
        /\ pageOf' = [i \in Members |-> IF i < n /\ Present(i) THEN flush.page
                                        ELSE IF torn /\ i = n THEN [pageOf[i] EXCEPT !.ok = FALSE]
                                        ELSE pageOf[i]]
  BY DEF Crash
<1>2. ~torn /\ \A i \in Members : ~Present(i)
  BY <1>1 DEF Present
<1>3. pageOf' = pageOf
  BY <1>1, <1>2 DEF Lost
<1>4. member' = member /\ ~broken'
  BY DEF Crash
<1>5. /\ member \in [Members -> {"insync", "rebuilding", "faulty"}] /\ offset \in Nat
      /\ \A i, j \in Members : member[i] # "insync" /\ member[j] # "insync" => i = j
  BY DEF Lost
<1>6. InSync = Members /\ InSync' = Members /\ Readable' = Members
  BY <1>4 DEF Lost, InSync, Readable, Seeded
<1>7. PICK newest : UpTo(newest, Members, pageOf)
  BY DEF Lost
<1>8. Agree(newest)
  <2>1. UpTo(newest, InSync', pageOf')
    BY <1>3, <1>6, <1>7
  <2>2. \A i \in Members : pageOf[i].ok => pageOf[i].gen <= newest
    BY <1>7 DEF UpTo
  <2> QED
    BY <1>3, <1>6, <2>1, <2>2 DEF Lost, Agree
<1>9. \A s \in Stripes, d \in MapData : live[s][d] # {} => Found(InSync', pageOf').map[s[1]] # "U"
  <2>1. \A row : OnDisk(row) <=> Found(InSync, pageOf).map[row] # "U"
    BY BestIsFound
  <2> QED
    BY <1>3, <1>6, <2>1 DEF Lost
<1>10. pageOf' \in [Members -> Page]
  BY <1>3 DEF Lost
<1> QED
  BY <1>4, <1>5, <1>8, <1>9, <1>10, Assembled

-----------------------------------------------------------------------------

\* A careful step on an array that is not broken: it stays one that runs, or no member
\* took a page.
LEMMA RunningKeeps ==
  ASSUME RowMapInv, ~broken, Next, Careful
  PROVE  IF PageReachesNone THEN Lost' /\ broken' ELSE RowMapInv' /\ ~broken'
<1>1. CASE PageReachesNone
  BY <1>1, PageReachesNoneLoses
<1>2. CASE ~PageReachesNone
  <2>0. ~broken'
    <3>1. ASSUME NEW r \in Writers, Serve(r) PROVE broken' = broken
      BY <3>1 DEF Serve, Submit, NoteSame, NoteLock, NoteNeed, NoteState, NoteDiscard, RowGo,
                  RowUnplug, RowIssue, Attach, Handle, Land, Refuse, onDisk
    <3>2. CASE Flushing
      BY <1>2, <3>2 DEF Flushing, Round, FlushFor, FlushSnap, FlushCopy, FlushEnd, onDisk
    <3>3. CASE Passing
      BY <3>3 DEF Passing, StartRecovery, SeedPages, StartSync, PassRow, PassStripe, Checkpoint,
                  Interrupt, RecoveryEnd, SyncEnd, onDisk
    <3>4. CASE (\E row \in Rows : ClearBit(row)) \/ (\E i \in Members : LoseMember(i)) \/ AddMember
      BY <3>4 DEF ClearBit, LoseMember, AddMember, onDisk
    <3>5. CASE Crash
      BY <3>5 DEF Crash
    <3> QED
      BY <3>1, <3>2, <3>3, <3>4, <3>5 DEF Next
  <2> SUFFICES RowMapInv'
    BY <1>2, <2>0
  <2>1. ASSUME NEW r \in Writers, Serve(r) PROVE RowMapInv'
    <3>1. \/ Submit(r) \/ NoteSame(r) \/ NoteLock(r) \/ NoteNeed(r) \/ NoteState(r) \/ NoteDiscard(r)
          \/ RowGo(r) \/ RowUnplug(r) \/ RowIssue(r)
          \/ Attach(r) \/ Handle(r) \/ (\E i \in Members : Land(r, i))
      BY <2>1 DEF Serve, Refuse
    <3> QED
      BY <3>1, SubmitKeeps, NoteSameKeeps, NoteLockKeeps, NoteNeedKeeps, NoteStateKeeps,
         NoteDiscardKeeps, RowGoKeeps, RowUnplugKeeps, RowIssueKeeps, AttachKeeps, HandleKeeps, LandKeeps
  <2>2. CASE Flushing
    BY <1>2, <2>2, RoundKeeps, FlushForKeeps, FlushSnapKeeps, FlushCopyKeeps, FlushEndKeeps DEF Flushing
  <2>3. CASE Passing
    <3>1. SeedPages => ~dirty
      BY DEF Careful
    <3> QED
      BY <2>3, <3>1, StartRecoveryKeeps, SeedPagesKeeps, StartSyncKeeps, PassRowKeeps, PassStripeKeeps,
         CheckpointKeeps, InterruptKeeps, RecoveryEndKeeps, SyncEndKeeps DEF Passing
  <2>4. ASSUME NEW row \in Rows, ClearBit(row) PROVE RowMapInv'
    BY <2>4, ClearBitKeeps
  <2>5. ASSUME NEW i \in Members, LoseMember(i) PROVE RowMapInv'
    BY <2>5, LoseMemberKeeps DEF Careful
  <2>6. CASE AddMember
    BY <2>6, AddMemberKeeps
  <2>7. CASE Crash
    BY <2>7, CrashKeeps DEF Careful
  <2> QED
    BY <1>2, <2>0, <2>1, <2>2, <2>3, <2>4, <2>5, <2>6, <2>7 DEF Next
<1> QED
  BY <1>1, <1>2

\* Every careful step keeps the invariant: whatever the requests, the flushes, the passes,
\* the members and the power do.
THEOREM RowMapKeeps ==
  ASSUME MapInv, [Next /\ Careful]_vars
  PROVE  MapInv'
<1>1. CASE UNCHANGED vars
  <2>1. UNCHANGED <<member, offset, pageOf, pass, live, broken>>
    BY <1>1 DEF vars, onDisk
  <2>2. broken => Lost'
    BY <2>1, StillLost DEF MapInv
  <2>3. ~broken => RowMapInv'
    BY <1>1, NothingKeeps DEF MapInv
  <2> QED
    BY <2>1, <2>2, <2>3 DEF MapInv
<1>2. CASE Next /\ Careful
  <2>1. CASE ~broken
    BY <1>2, <2>1, RunningKeeps DEF MapInv
  <2>2. CASE broken /\ Crash
    BY <2>2, LostFound DEF MapInv
  <2>3. CASE broken /\ ~Crash
    BY <1>2, <2>3, LostKeeps DEF MapInv
  <2> QED
    BY <2>1, <2>2, <2>3
<1> QED
  BY <1>1, <1>2

\* In a careful behaviour no assembly that comes at any time finds a row unused that holds
\* data: every write waits for the page that names its row (raidkm_rowmap_note_write,
\* raidkm_rowmap_wait_row, stripe_start), and the load finds that page.
THEOREM MapCovers == Init /\ [][Next]_vars /\ [][Careful]_vars => []MapCoversLive
<1>1. Init => MapInv
  BY RowMapInit DEF MapInv, Init
<1>2. MapInv /\ [Next]_vars /\ [Careful]_vars => MapInv'
  BY RowMapKeeps
<1>3. MapInv => MapCoversLive
  BY DEF MapInv, Lost, RowMapInv, Waited, MapCoversLive, OnDisk
<1> QED
  BY <1>1, <1>2, <1>3, PTL
=============================================================================
