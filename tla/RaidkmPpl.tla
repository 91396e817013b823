------------------------------- MODULE RaidkmPpl -------------------------------
(***************************************************************************)
(* The partial parity log: before a stripe is written, what its parities   *)
(* would be without the blocks of the write goes to a log on the member    *)
(* that holds the first parity.  Stripes are gathered in units; a log has  *)
(* one unit under way, from its own write to the flush of the last member  *)
(* its stripes went to.  An assembly reads the newest unit of every log    *)
(* and gives its stripes their parities back.                              *)
(*                                                                         *)
(* A stripe's blocks are elements of the field of Q elements, the parities *)
(* linear in them.  A region is a row of pages: headers, each followed by  *)
(* its partial parities.  A header carries its entries' checksums; here it *)
(* carries the contents they are of.  The cap on a header's entries,       *)
(* merged entries (they share one checksum), allocation failures and       *)
(* quiesce are left out.                                                   *)
(***************************************************************************)
EXTENDS Integers, FiniteSets, Sequences, SequencesExt, FiniteSetsExt, Functions

CONSTANTS
  K, M, Q, Coef,  \* the code: a prime and the encoding matrix, as in RaidkmStripe
  Stripes,
  ParityAt,       \* [Stripes -> the member of the first parity]
  EntrySpace,     \* entry_space, in pages: less than RingPages
  RingPages,      \* ppl.size, in pages
  Losable,        \* members that may fail
  PplBudgets      \* bounds, one of them in a behaviour

N == K + M
Members == 0..(N - 1)
Data == 0..(K - 1)
Block == 0..(Q - 1)
Vectors == [Data -> Block]

\* Parity j lies on the j-th member from pd_idx, the data on those behind.
Role(s, d) == (d - ParityAt[s] + N) % N
ParityDev(s, j) == (ParityAt[s] + j) % N
DataDev(s, i) == (ParityAt[s] + M + i) % N
Encode(j, x) == FoldFunction(+, 0, [i \in Data |-> Coef[j][i] * x[i]]) % Q
\* What member d has of stripe s when the data are x.
Symbol(s, d, x) == IF Role(s, d) < M THEN Encode(Role(s, d), x) ELSE x[Role(s, d) - M]

VARIABLES
  present,  \* members with an rdev that is not Faulty
  cell,     \* [Members -> [Stripes -> Block]], as a member reads
  media,    \* the same, as of its last flush
  ring,     \* [Members -> [0..RingPages-1 -> page]]
  next,     \* [Members -> next_io_sector]
  units,    \* [Members -> io_list]
  seq,
  st,       \* [Stripes -> the write in flight]
  resync,   \* recovery_cp is not MaxSector
  sb,       \* on the members: resync_offset is not MaxSector
  asm,      \* the assembly: logs to load, the recovery's writes, the counts
  up,       \* "run", "down" or "load"
  cur,      \* [Stripes -> Vectors]: what was written last (history)
  old,      \* [Stripes -> [Data -> earlier blocks a power failure may bring back]]
  open,     \* [Stripes -> blocks of a write that is not durable] (history)
  torn,     \* stripes whose interrupted write the log could not mend (history)
  budget

vars == <<present, cell, media, ring, next, units, seq, st, resync, sb, asm, up, cur, old, open, torn, budget>>
history == <<cur, old, open, torn>>
members == <<cell, media, ring>>
logs == <<next, units, seq>>

Have(what) == budget[what] > 0
Use(what) == budget' = [budget EXCEPT ![what] = @ - 1]

Missing == Members \ present
Idle == [pc |-> "idle", blocks |-> {}, x |-> [i \in Data |-> 0], left |-> {}]
NoAsm == [todo |-> {}, loaded |-> FALSE, redo |-> {}, recovered |-> 0, mismatches |-> 0]

Page(kind, gen, entries, pp) == [kind |-> kind, gen |-> gen, entries |-> entries, pp |-> pp]
Zero == Page("zero", 0, <<>>, 0)
Torn == Page("torn", 0, <<>>, 0)
\* ppl_write_empty_header
Emptied == [p \in 0..(RingPages - 1) |-> IF p = 0 THEN Page("header", 0, <<>>, 0) ELSE Zero]

-----------------------------------------------------------------------------
(* A stripe is written: its partial parity, its entry, its unit.           *)

\* The data as the array reads them: blocks at hand, and parities for the others.
Decoded(s) ==
  LET at == {d \in present : Role(s, d) >= M}
      use == at \union CHOOSE P \in SUBSET (present \ at) :
                          /\ Cardinality(P) = K - Cardinality(at)
                          /\ \A d \in P, e \in present \ (at \union P) : Role(s, d) < Role(s, e)
  IN  CHOOSE x \in Vectors : \A d \in use : cell[d][s] = Symbol(s, d, x)

\* The parities less the blocks of the write; a full write needs none.
PartialParity(x, blocks) ==
  IF blocks = Data THEN <<>>
  ELSE [j \in 1..M |-> Encode(j - 1, [i \in Data |-> IF i \in blocks THEN 0 ELSE x[i]])]

Entry(s, x, blocks) == [s |-> s, blocks |-> blocks, pp |-> PartialParity(x, blocks)]
PpSize(entries) == MapThenSumSet(LAMBDA n : Len(entries[n].pp), DOMAIN entries)
NewUnit == [gen |-> seq + 1, entries |-> <<>>, stage |-> "gather", at |-> 0, left |-> {}, flush |-> {}]
UnitFull(u) == PpSize(u.entries) = EntrySpace

LogStripe(l, e) ==
  LET io == units[l]
      current == io # <<>> /\ Last(io).stage = "gather" /\ ~UnitFull(Last(io))
      u == IF current THEN Last(io) ELSE NewUnit
      added == [u EXCEPT !.entries = Append(@, e), !.left = @ \union {e.s}]
  IN  /\ units' = [units EXCEPT ![l] = Append(IF current THEN Front(io) ELSE io, added)]
      /\ seq' = IF current THEN seq ELSE seq + 1

\* A user writes the blocks; without the log's member the stripe goes out unlogged.
UserWrite(s, blocks) ==
  LET x == Decoded(s)
      new == [i \in Data |-> IF i \in blocks THEN (x[i] + 1) % Q ELSE x[i]]
      logged == ParityAt[s] \in present
  IN  /\ up = "run" /\ st[s].pc = "idle" /\ Have("writes")
      /\ blocks = Data => budget.full
      /\ st' = [st EXCEPT ![s] = [pc |-> IF logged THEN "log" ELSE "write", blocks |-> blocks, x |-> new,
                                  left |-> IF logged THEN {} ELSE present]]
      /\ IF logged
         THEN LogStripe(ParityAt[s], Entry(s, x, blocks)) /\ UNCHANGED open
         ELSE open' = [open EXCEPT ![s] = @ \union blocks] /\ UNCHANGED <<units, seq>>
      /\ sb' = TRUE
      /\ Use("writes")
      /\ UNCHANGED <<present, members, next, resync, asm, up, cur, old, torn>>

-----------------------------------------------------------------------------
(* The unit is written; then its stripes; then their members are flushed.  *)

Multi == RingPages >= 2 * (EntrySpace + 1)   \* use_multippl
Size(u) == 1 + PpSize(u.entries)
Contents(u) ==
  LET pps == FlattenSeq([n \in DOMAIN u.entries |-> u.entries[n].pp])
  IN  [p \in 0..(Size(u) - 1) |-> IF p = 0 THEN Page("header", u.gen, u.entries, 0)
                                  ELSE Page("pp", 0, <<>>, pps[p])]
\* The ring with the pages `which` of the unit.
Written(r, u, which) == [p \in DOMAIN r |-> IF p - u.at \in which THEN Contents(u)[p - u.at] ELSE r[p]]

WritesTo(e) == {DataDev(e.s, i) : i \in e.blocks} \union {ParityDev(e.s, j) : j \in 0..(M - 1)}
\* Mutant: the parities are not flushed, as if all were on the log's own member.
FlushDataOnly(u) ==
  IF budget.cached
  THEN UNION {{DataDev(u.entries[n].s, i) : i \in u.entries[n].blocks} : n \in DOMAIN u.entries} ELSE {}

DiskFlushBitmap(u) ==
  IF budget.cached THEN UNION {WritesTo(u.entries[n]) : n \in DOMAIN u.entries} ELSE {}

\* The unit's stripes go on to be written.
Release(u) ==
  /\ st' = [s \in Stripes |-> IF s \in u.left THEN [st[s] EXCEPT !.pc = "write", !.left = present] ELSE st[s]]
  /\ open' = [s \in Stripes |-> IF s \in u.left THEN open[s] \union st[s].blocks ELSE open[s]]

First(l) == units[l] # <<>> /\ up = "run"
SetFirst(l, u) == units' = [units EXCEPT ![l][1] = u]

Submit(l) ==
  LET u == Head(units[l])
      at == IF Multi /\ RingPages - next[l] >= Size(u) THEN next[l] ELSE 0
  IN  /\ First(l) /\ u.stage = "gather"
      /\ IF l \in present
         THEN /\ SetFirst(l, [u EXCEPT !.stage = "log", !.at = at, !.flush = DiskFlushBitmap(u)])
              /\ next' = [next EXCEPT ![l] = at + Size(u)]
              /\ UNCHANGED <<st, open>>
         ELSE SetFirst(l, [u EXCEPT !.stage = "raid"]) /\ Release(u) /\ UNCHANGED next
      /\ UNCHANGED <<present, members, seq, resync, sb, asm, up, cur, old, torn, budget>>

LogEndio(l) ==
  LET u == Head(units[l])
  IN  /\ First(l) /\ u.stage = "log"
      /\ ring' = IF l \in present THEN [ring EXCEPT ![l] = Written(@, u, DOMAIN Contents(u))] ELSE ring
      /\ SetFirst(l, [u EXCEPT !.stage = "raid"])
      /\ Release(u)
      /\ UNCHANGED <<present, cell, media, next, seq, resync, sb, asm, up, cur, old, torn, budget>>

\* A block reaches a member.
Put(d, s, v) ==
  /\ cell' = [cell EXCEPT ![d][s] = v]
  /\ media' = IF budget.cached THEN media ELSE [media EXCEPT ![d][s] = v]

Land(s, d) ==
  /\ up = "run" /\ st[s].pc = "write" /\ d \in st[s].left \intersect present
  /\ Put(d, s, Symbol(s, d, st[s].x))
  /\ st' = [st EXCEPT ![s].left = @ \ {d}]
  /\ UNCHANGED <<present, ring, logs, resync, sb, asm, up, history, budget>>

\* ppl_io_unit_finished: the first unit leaves the list.
Finished(l) == units' = [units EXCEPT ![l] = Tail(@)]

\* ppl_do_flush: the members whose caches the unit waits for.
ToFlush(u) == u.flush \intersect present

StripeWriteFinished(s) ==
  LET l == ParityAt[s]
      u == Head(units[l])
      ours == units[l] # <<>> /\ u.stage = "raid" /\ s \in u.left
      after == [u EXCEPT !.left = @ \ {s}, !.flush = ToFlush(u)]
  IN  /\ up = "run" /\ st[s].pc = "write" /\ st[s].left \intersect present = {}
      /\ st' = [st EXCEPT ![s] = Idle]
      /\ CASE ~ours -> UNCHANGED units
           [] ours /\ after.left # {} -> SetFirst(l, [u EXCEPT !.left = @ \ {s}])
           [] ours /\ after.left = {} /\ after.flush # {} -> SetFirst(l, [after EXCEPT !.stage = "flush"])
           [] OTHER -> Finished(l)
      /\ cur' = [cur EXCEPT ![s] = st[s].x]
      /\ old' = [old EXCEPT ![s] = [i \in Data |-> CASE i \notin st[s].blocks -> @[i]
                                                     [] budget.cached -> @[i] \union {cur[s][i]}
                                                     [] OTHER -> {}]]
      /\ open' = IF budget.cached THEN open ELSE [open EXCEPT ![s] = {}]
      /\ UNCHANGED <<present, members, next, seq, resync, sb, asm, up, torn, budget>>

FlushEndio(l, d) ==
  LET u == Head(units[l])
      last == u.flush = {d}
      settled == IF last /\ l \in present THEN {u.entries[n].s : n \in DOMAIN u.entries} ELSE {}
  IN  /\ First(l) /\ u.stage = "flush" /\ d \in u.flush
      /\ media' = IF d \in present THEN [media EXCEPT ![d] = cell[d]] ELSE media
      /\ IF last THEN Finished(l) ELSE SetFirst(l, [u EXCEPT !.flush = @ \ {d}])
      /\ old' = [s \in Stripes |-> IF s \in settled THEN [i \in Data |-> {}] ELSE old[s]]
      /\ open' = [s \in Stripes |-> IF s \in settled THEN {} ELSE open[s]]
      /\ UNCHANGED <<present, cell, ring, next, seq, st, resync, sb, asm, up, cur, torn, budget>>

-----------------------------------------------------------------------------
(* Around it: md and its members.                                          *)

Quiet == up = "run" /\ \A s \in Stripes : st[s].pc = "idle" /\ \A l \in Members : units[l] = <<>>
Flushed == media' = [d \in Members |-> IF d \in present THEN cell'[d] ELSE media[d]]
NothingOpen == /\ old' = [s \in Stripes |-> [i \in Data |-> {}]]
               /\ open' = [s \in Stripes |-> {}]
Settled == Flushed /\ NothingOpen

Fail(d) ==
  /\ up = "run" /\ Have("lost") /\ d \in Losable \intersect present /\ Cardinality(Missing) < M
  /\ present' = present \ {d}
  /\ Use("lost")
  /\ UNCHANGED <<members, logs, st, resync, sb, asm, up, history>>

\* ppl_modify_log, and md's recovery of the member, which ends with a superblock.
AddMember(d) ==
  /\ Quiet /\ Have("adds") /\ d \in Missing
  /\ present' = present \union {d}
  /\ cell' = [cell EXCEPT ![d] = [s \in Stripes |-> Symbol(s, d, Decoded(s))]]
  /\ media' = [m \in Members |-> IF m \in present' THEN cell'[m] ELSE media[m]]
  /\ NothingOpen
  /\ ring' = [ring EXCEPT ![d] = Emptied]
  /\ next' = [next EXCEPT ![d] = 0]
  /\ Use("adds")
  /\ UNCHANGED <<units, seq, st, resync, sb, asm, up, cur, torn>>

\* The superblock of an idle array, which flushes every member.
MarkClean ==
  /\ Quiet /\ sb /\ ~resync
  /\ sb' = FALSE
  /\ cell' = cell /\ Settled
  /\ UNCHANGED <<present, ring, logs, st, resync, asm, up, cur, torn, budget>>

Resync ==
  /\ Quiet /\ resync /\ Missing = {}
  /\ cell' = [d \in Members |-> [s \in Stripes |->
                Symbol(s, d, [i \in Data |-> cell[DataDev(s, i)][s]])]]
  /\ Settled
  /\ resync' = FALSE
  /\ UNCHANGED <<present, ring, logs, st, sb, asm, up, cur, torn, budget>>

\* Writes under way land or not, caches are lost in part, so is a log's write;
\* members may be lost with the power.
Interrupted(after) ==
  {s \in Stripes : open[s] # {} /\ (ParityAt[s] \notin after \/ \E i \in open[s] : DataDev(s, i) \notin after)}

PowerFailure ==
  LET writes == {<<d, s, Symbol(s, d, st[s].x)>> :
                   <<d, s>> \in {w \in present \X Stripes : st[w[2]].pc = "write" /\ w[1] \in st[w[2]].left}}
                \union asm.redo
      unflushed == {w \in present \X Stripes : cell[w[1]][w[2]] # media[w[1]][w[2]]}
      busy == {l \in present : units[l] # <<>> /\ Head(units[l]).stage = "log"}
      pages == {<<l, p>> \in busy \X (1..RingPages) : p < Size(Head(units[l]))}
  IN  /\ up \in {"run", "load"} /\ Have("crashes")
      /\ \E landed \in SUBSET writes, lost \in SUBSET unflushed,
            header \in [busy -> {"new", "old", "torn"}], pps \in SUBSET pages,
            gone \in SUBSET (Losable \intersect present) :
           /\ Cardinality(gone) <= budget.lost /\ Cardinality(Missing \union gone) <= M
           /\ present' = present \ gone
           /\ media' = [d \in Members |-> [s \in Stripes |->
                          LET new == {w \in landed : w[1] = d /\ w[2] = s}
                          IN  IF new # {} THEN (CHOOSE w \in new : TRUE)[3]
                              ELSE IF <<d, s>> \in lost THEN media[d][s] ELSE cell[d][s]]]
           /\ cell' = media'
           /\ ring' = [l \in Members |->
                IF l \notin busy THEN ring[l]
                ELSE LET u == Head(units[l])
                         which == {p \in 1..RingPages : <<l, p>> \in pps}
                                  \union (IF header[l] = "new" THEN {0} ELSE {})
                         r == Written(ring[l], u, which)
                     IN  IF header[l] = "torn" THEN [r EXCEPT ![u.at] = Torn] ELSE r]
           /\ torn' = torn \union Interrupted(present')
           /\ budget' = [budget EXCEPT !.crashes = @ - 1, !.lost = @ - Cardinality(gone)]
      /\ budget.torn \/ torn' = {}
      /\ old' = [s \in Stripes |-> [i \in Data |->
                   IF st[s].pc = "write" /\ i \in st[s].blocks THEN old[s][i] \union {st[s].x[i]} ELSE old[s][i]]]
      /\ st' = [s \in Stripes |-> Idle]
      /\ units' = [l \in Members |-> <<>>]
      /\ next' = [l \in Members |-> 0]
      /\ seq' = 0 /\ asm' = NoAsm /\ up' = "down"
      /\ UNCHANGED <<resync, sb, cur, open>>

-----------------------------------------------------------------------------
(* The assembly: ppl_load, one log after another.                          *)

Assemble ==
  /\ up = "down"
  /\ up' = "load" /\ resync' = sb
  /\ asm' = [NoAsm EXCEPT !.todo = present]
  /\ UNCHANGED <<present, members, logs, st, sb, history, budget>>

\* ppl_load_distributed: the last header of the row of headers that starts the
\* region, as long as their generations grow; and where its entries are taken from.
Newest(r) ==
  LET walk[at \in 0..(2 * RingPages), prev \in (-1)..RingPages] ==
        IF at >= RingPages - 1 THEN [header |-> prev, offset |-> at]
        ELSE IF r[at].kind # "header" \/ (prev >= 0 /\ r[IF prev >= 0 THEN prev ELSE 0].gen > r[at].gen)
        THEN [header |-> prev, offset |-> prev]
        ELSE walk[at + 1 + PpSize(r[at].entries), at]
  IN  walk[0, -1]

\* Where entry n's partial parities are read, and whether they have its checksum.
PpAt(found, entries, n) == found.offset + 1 + PpSize(SubSeq(entries, 1, n - 1))
ChecksumHolds(r, at, e) ==
  \A j \in DOMAIN e.pp : at + j - 1 \in DOMAIN r /\ r[at + j - 1] = Page("pp", 0, <<>>, e.pp[j])

\* Mutant: the first parity alone, as with one parity.
RecoveryOfP(e) ==
  LET x == [i \in Data |-> IF i \in e.blocks THEN cell[DataDev(e.s, i)][e.s] ELSE 0]
  IN  IF \A i \in e.blocks : DataDev(e.s, i) \in present
      THEN {<<ParityDev(e.s, 0), e.s, (Encode(0, x) + IF e.pp = <<>> THEN 0 ELSE e.pp[1]) % Q>>}
      ELSE {}

\* ppl_recover_entry_km: P_j = PP_j xor encode_j(modified data), if all of that is there.
Recovery(e) ==
  LET x == [i \in Data |-> IF i \in e.blocks THEN cell[DataDev(e.s, i)][e.s] ELSE 0]
      P(j) == (Encode(j, x) + IF e.pp = <<>> THEN 0 ELSE e.pp[j + 1]) % Q
  IN  IF \A i \in e.blocks : DataDev(e.s, i) \in present
      THEN {<<ParityDev(e.s, j), e.s, P(j)>> : j \in {j \in 0..(M - 1) : ParityDev(e.s, j) \in present}}
      ELSE {}

Load(l) ==
  LET r == ring[l]
      found == Newest(r)
      entries == IF found.header >= 0 /\ resync THEN r[found.header].entries ELSE <<>>
      good == {n \in DOMAIN entries : ChecksumHolds(r, PpAt(found, entries, n), entries[n])}
  IN  /\ up = "load" /\ asm.todo # {} /\ ~asm.loaded /\ l = Min(asm.todo)
      /\ asm' = [asm EXCEPT !.loaded = TRUE,
                            !.redo = UNION {Recovery(entries[n]) : n \in good},
                            !.recovered = @ + Cardinality(good),
                            !.mismatches = @ + Len(entries) - Cardinality(good)
                                             + IF found.header < 0 THEN 1 ELSE 0]
      /\ UNCHANGED <<present, members, logs, st, resync, sb, up, history, budget>>

WriteParity(w) ==
  /\ up = "load" /\ w \in asm.redo
  /\ Put(w[1], w[2], w[3])
  /\ asm' = [asm EXCEPT !.redo = @ \ {w}]
  /\ UNCHANGED <<present, ring, logs, st, resync, sb, up, history, budget>>

\* The log's own member is flushed, and its region emptied.
EmptyLog(l) ==
  /\ up = "load" /\ asm.loaded /\ asm.redo = {} /\ l = Min(asm.todo)
  /\ media' = [media EXCEPT ![l] = cell[l]]
  /\ ring' = [ring EXCEPT ![l] = Emptied]
  /\ asm' = [asm EXCEPT !.todo = @ \ {l}, !.loaded = FALSE]
  /\ open' = [s \in Stripes |-> IF ParityAt[s] = l THEN {} ELSE open[s]]
  /\ UNCHANGED <<present, cell, logs, st, resync, sb, up, cur, old, torn, budget>>

\* A member's read or write fails: the load stops there with what it has written, the
\* array does not start and is assembled anew.
LoadFails ==
  /\ up = "load" /\ asm.todo # {} /\ Have("crashes") /\ Use("crashes")
  /\ up' = "down" /\ asm' = NoAsm
  /\ UNCHANGED <<present, members, logs, st, resync, sb, history>>

\* The end of ppl_init_log: a recovery without a mismatch makes the array clean, and
\* the superblocks that say so flush the members.  What an interrupted write came to
\* is settled.
Start ==
  LET clean == resync /\ asm.recovered > 0 /\ asm.mismatches = 0
  IN  /\ up = "load" /\ asm.todo = {}
      /\ up' = "run" /\ asm' = NoAsm
      /\ IF clean
         THEN resync' = FALSE /\ sb' = FALSE /\ cell' = cell /\ Flushed
         ELSE UNCHANGED <<resync, sb, cell, media>>
      /\ cur' = [s \in Stripes |-> [i \in Data |->
                   IF Decoded(s)[i] \in old[s][i] THEN Decoded(s)[i] ELSE cur[s][i]]]
      /\ NothingOpen
      /\ UNCHANGED <<present, ring, logs, st, torn, budget>>

-----------------------------------------------------------------------------
Init ==
  LET zero == [d \in Members |-> [s \in Stripes |-> 0]]
  IN  /\ present = Members /\ cell = zero /\ media = zero
      /\ ring = [l \in Members |-> Emptied] /\ next = [l \in Members |-> 0]
      /\ units = [l \in Members |-> <<>>] /\ seq = 0
      /\ st = [s \in Stripes |-> Idle]
      /\ resync = FALSE /\ sb = FALSE /\ asm = NoAsm /\ up = "run"
      /\ cur = [s \in Stripes |-> [i \in Data |-> 0]]
      /\ old = [s \in Stripes |-> [i \in Data |-> {}]]
      /\ open = [s \in Stripes |-> {}] /\ torn = {}
      /\ budget \in PplBudgets

Next ==
  \/ \E s \in Stripes : \/ \E blocks \in SUBSET Data \ {{}} : UserWrite(s, blocks)
                        \/ \E d \in Members : Land(s, d)
                        \/ StripeWriteFinished(s)
  \/ \E l \in Members : \/ Submit(l) \/ LogEndio(l)
                        \/ \E d \in Members : FlushEndio(l, d)
                        \/ Load(l) \/ EmptyLog(l)
  \/ \E d \in Members : Fail(d) \/ AddMember(d)
  \/ \E w \in asm.redo : WriteParity(w)
  \/ MarkClean \/ Resync \/ PowerFailure \/ Assemble \/ LoadFails \/ Start

Spec == Init /\ [][Next]_vars

-----------------------------------------------------------------------------
\* The partial parities of a unit fit the space of one, and the unit its region: it is
\* "full if the maximum number of entries or size of PPL is reached" (75).
UnitsFit ==
  \A l \in Members : \A n \in DOMAIN units[l] :
    LET u == units[l][n]
    IN  PpSize(u.entries) <= EntrySpace /\ (u.stage # "gather" => u.at + Size(u) <= RingPages)

\* The write hole is closed: after any power failure, whatever members were missing or
\* went with it, every K blocks of a stripe that the array has left give data that were
\* written -- those of an interrupted write old or new, all others the last ones --
\* unless the interrupted write's own log or one of its data members is lost.
WriteHoleClosed ==
  up = "run" =>
    /\ UnitsFit
    /\ \A s \in Stripes \ torn : st[s].pc # "write" =>
         \A B \in kSubset(K, present) :
           \E x \in Vectors : /\ \A d \in B : cell[d][s] = Symbol(s, d, x)
                              /\ \A i \in Data : x[i] \in {cur[s][i]} \union old[s][i]

\* An array that needs no resync has none to do: its stripes are codewords, those that
\* no log could mend included.
CleanIsWhole ==
  up = "run" /\ ~resync =>
    \A s \in Stripes : st[s].pc # "write" =>
      \E x \in Vectors : \A d \in present : cell[d][s] = Symbol(s, d, x)
=============================================================================
