---------------------------- MODULE RaidkmSnapMeta ----------------------------
(***************************************************************************)
(* What the native snapshots keep on disk: on every member two headers,    *)
(* two tables, two page maps, two slots per page of the reverse map, and a *)
(* ring of journal records.  The commit worker is the only writer: it      *)
(* takes what is pending, writes one record and applies it, and writes the *)
(* checkpoints.  A page is good or torn by its seal, and has a generation. *)
(*                                                                         *)
(* Around it: members with a write cache that a power failure empties page *)
(* by page, a member that fails and one that is rebuilt, writes that copy  *)
(* a shared row and writes in place, snapshots created and destroyed, and  *)
(* the load at assembly.  A row of chunks is one page of a member here.    *)
(***************************************************************************)
EXTENDS Integers, FiniteSets, Sequences, SequencesExt, FiniteSetsExt

CONSTANTS
  MetaMembers,    \* 1..n
  MetaO, MetaR,   \* origin rows, physical rows
  PerPage,        \* rows of a page of the reverse map
  Slots,          \* snapshots there may be
  JPages,         \* records of the ring
  MetaBudgets     \* bounds, one of them in a behaviour

Origin == 0..(MetaO - 1)
Physical == 0..(MetaR - 1)
Pages == 0..((MetaR - 1) \div PerPage)
InPage(p) == {P \in Physical : P \div PerPage = p}
Free == <<"free", 0, 0>>
Ours(L) == <<"origin", 0, L>>
Theirs(slot, L) == <<"snap", slot, L>>
Default == [P \in Physical |-> IF P < MetaO THEN Ours(P) ELSE Free]

Hdr(c) == <<"hdr", c % 2>>
Tbl(c) == <<"tbl", c % 2>>
Pmap(c) == <<"pmap", c % 2>>
Rmap(t, p) == <<"rmap", t, p>>
Ring(seq) == <<"ring", seq % JPages>>
Row(P) == <<"row", P>>
Address ==
  {Hdr(0), Hdr(1), Tbl(0), Tbl(1), Pmap(0), Pmap(1)} \cup {Rmap(t, p) : t \in {0, 1}, p \in Pages}
    \cup {Ring(i) : i \in 0..(JPages - 1)} \cup {Row(P) : P \in Physical}

VARIABLES
  disk,      \* [MetaMembers -> [Address -> page]]: what a power failure leaves
  cache,     \* [MetaMembers -> pages written and not flushed]
  member,    \* [MetaMembers -> {"insync", "added", "seeded", "failing", "faulty"}]
  core,      \* the maps: snaps, rmap, pmap, rdirty, used, ckpt, jhead, jtail, jscrub
  pending,   \* sn->pending
  work,      \* the commit worker
  cmd,       \* the command that waits: its hold and suspend keep writers out
  loaded,    \* whether the last assembly could read the metadata
  origin,    \* [Origin -> what was written there last] (history)
  kept,      \* [Origin -> what a power failure must not undo] (history)
  chain,     \* the snapshots there may be: as users were told, or with a command
             \* that a power failure cut off, until something is written (history)
  promised,  \* [Slots -> [MetaMembers -> [Origin -> what it must show]]] (history)
  budget

vars == <<disk, cache, member, core, pending, work, cmd, loaded, origin, kept, chain, promised, budget>>
history == <<origin, kept, chain, promised>>

-----------------------------------------------------------------------------
(* Members: rk_sn_write_all, rk_sn_flush_all, rk_sn_put, rk_sn_get.        *)

Page(gen, body) == [gen |-> gen, body |-> body, ok |-> TRUE]
Zero == Page(-1, 0)
Live == {m \in MetaMembers : member[m] \in {"insync", "added", "seeded"}}
Insync(members) == {m \in MetaMembers : members[m] = "insync"}
Over(new, old) == [a \in DOMAIN new \cup DOMAIN old |-> IF a \in DOMAIN new THEN new[a] ELSE old[a]]
NoPages == [a \in {} |-> Zero]

\* Written to every member that is not failed: in its cache.
Put(pages) == cache' = [m \in MetaMembers |-> IF m \in Live THEN Over(pages, cache[m]) ELSE cache[m]]
\* What is in the caches of those addresses is on the media (a flush, or FUA).
Settled(addresses) ==
  LET Kept(m) == [a \in DOMAIN cache[m] \ addresses |-> cache[m][a]]
      Gone(m) == [a \in DOMAIN cache[m] \cap addresses |-> cache[m][a]]
  IN  /\ disk' = [m \in MetaMembers |-> IF m \in Live THEN Over(Gone(m), disk[m]) ELSE disk[m]]
      /\ cache' = [m \in MetaMembers |-> IF m \in Live THEN Kept(m) ELSE cache[m]]
FlushAll == Settled(Address)

\* The newest good copy with a generation in that range, of the in-sync members.
Copies(on, from, a, low, high) ==
  {on[m][a] : m \in {i \in from : on[i][a].ok /\ on[i][a].gen \in low..high}}
Newest(pages) == CHOOSE x \in pages : \A y \in pages : y.gen <= x.gen

-----------------------------------------------------------------------------
(* The maps and the ops: rk_snap_apply, rk_sn_op_valid.                    *)

NoOp == [type |-> "none", L |-> 0, oldP |-> 0, newP |-> 0, slot |-> 0, val |-> 0]
Redirect(L, oldP, newP, v) == [NoOp EXCEPT !.type = "redirect", !.L = L, !.oldP = oldP, !.newP = newP, !.val = v]
Create(slot) == [NoOp EXCEPT !.type = "create", !.slot = slot]
Destroy(slot) == [NoOp EXCEPT !.type = "destroy", !.slot = slot]

At(c, L) == CHOOSE P \in Physical : c.rmap[P] = Ours(L)
Holds(c, slot, L) == \E P \in Physical : c.rmap[P] = Theirs(slot, L)
Shared(c, L) == c.snaps # <<>> /\ ~Holds(c, Last(c.snaps), L)

\* rk_sn_rmap_set on several rows: their pages are dirty.
Change(c, new) == [c EXCEPT !.rmap = new,
  !.rdirty = @ \cup {P \div PerPage : P \in {Q \in Physical : new[Q] # c.rmap[Q]}}]

Apply(c, op) ==
  CASE op.type = "redirect" ->
         [Change(c, [c.rmap EXCEPT ![op.oldP] = Theirs(Last(c.snaps), op.L), ![op.newP] = Ours(op.L)])
            EXCEPT !.used = @ \cup {op.newP}]
    [] op.type = "create" -> [c EXCEPT !.snaps = Append(@, op.slot)]
    [] op.type = "destroy" ->
         LET k == CHOOSE i \in DOMAIN c.snaps : c.snaps[i] = op.slot
             To(L) == IF k > 1 /\ ~Holds(c, c.snaps[k - 1], L) THEN Theirs(c.snaps[k - 1], L) ELSE Free
             new == [P \in Physical |-> IF c.rmap[P][1] = "snap" /\ c.rmap[P][2] = op.slot THEN To(c.rmap[P][3]) ELSE c.rmap[P]]
         IN  [Change(c, new) EXCEPT !.snaps = RemoveAt(@, k),
                !.used = @ \ {P \in Physical : new[P] = Free /\ c.rmap[P] # Free}]
    [] OTHER -> c

Valid(c, op) ==
  CASE op.type = "redirect" -> c.snaps # <<>> /\ c.rmap[op.oldP] = Ours(op.L) /\ op.newP \notin c.used
    [] op.type = "create" -> \A k \in DOMAIN c.snaps : c.snaps[k] # op.slot
    [] OTHER -> \E k \in DOMAIN c.snaps : c.snaps[k] = op.slot

\* The row a snapshot shows: its own, the next newer one's, or the origin's.
Shown(c, slot, L) ==
  LET k == CHOOSE i \in DOMAIN c.snaps : c.snaps[i] = slot
      has == {i \in k..Len(c.snaps) : Holds(c, c.snaps[i], L)}
  IN  IF has = {} THEN At(c, L) ELSE CHOOSE P \in Physical : c.rmap[P] = Theirs(c.snaps[Min(has)], L)

-----------------------------------------------------------------------------
(* The load at assembly, from the in-sync members: header, table, maps,    *)
(* derive, replay.  "broken" when the code gives up.                       *)

Untouched == [p \in Pages |-> "none"]
Blank == [snaps |-> <<>>, rmap |-> Default, pmap |-> Untouched, rdirty |-> {}, used |-> Origin,
          ckpt |-> 0, jhead |-> 0, jtail |-> 0, jscrub |-> TRUE, ok |-> TRUE]
Unloadable == [Blank EXCEPT !.ok = FALSE]

\* The maps as of the checkpoint c.
LoadMaps(on, from, c, tail) ==
  LET table == Copies(on, from, Tbl(c), c, c)
      maps == Copies(on, from, Pmap(c), c, c)
      pmap == Newest(maps).body
      rmaps(p) == Copies(on, from, Rmap(IF pmap[p] = "one" THEN 1 ELSE 0, p), 0, c)
      rmap == [P \in Physical |-> LET p == P \div PerPage IN
                 IF pmap[p] = "none" THEN Default[P] ELSE Newest(rmaps(p)).body[P]]
      Sound == \* rk_sn_derive
        /\ \A L \in Origin : Cardinality({P \in Physical : rmap[P] = Ours(L)}) = 1
        /\ \A P \in Physical : rmap[P][1] = "snap" => rmap[P][2] \in ToSet(Newest(table).body)
  IN  IF c = 0 THEN [Blank EXCEPT !.jtail = tail, !.jhead = tail]
      ELSE IF table = {} \/ maps = {} \/ (\E p \in Pages : pmap[p] # "none" /\ rmaps(p) = {}) THEN Unloadable
      ELSE IF ~Sound THEN Unloadable
      ELSE [Blank EXCEPT !.snaps = Newest(table).body, !.rmap = rmap, !.pmap = pmap, !.ckpt = c,
              !.used = {P \in Physical : rmap[P] # Free}, !.jtail = tail, !.jhead = tail]

\* The records from the tail on, as long as there is one with the next number.
Replay(on, from, c) ==
  LET There(seq) == Copies(on, from, Ring(seq), seq, seq)
      run == {n \in 0..JPages : \A i \in 0..(n - 1) : There(c.jtail + i) # {}}
      ops == FoldLeft(LAMBDA all, i : all \o Newest(There(c.jtail + i - 1)).body, <<>>, [i \in 1..Max(run) |-> i])
      Step(d, op) == IF d.ok /\ Valid(d, op) THEN Apply(d, op) ELSE Unloadable
  IN  [FoldLeft(Step, c, ops) EXCEPT !.jhead = c.jtail + Max(run)]

Load(on, from) ==
  LET headers == UNION {Copies(on, from, Hdr(i), 0, 99) : i \in {0, 1}}
      h == Newest(headers)
      maps == LoadMaps(on, from, h.gen, h.body)
  IN  IF headers = {} THEN Unloadable ELSE IF maps.ok THEN Replay(on, from, maps) ELSE Unloadable

-----------------------------------------------------------------------------
(* Users: writes to shared rows and in place, flushes, snapshot commands.  *)

Busy(L) == \E k \in DOMAIN pending : pending[k].type = "redirect" /\ pending[k].L = L
InWork(L) == \E k \in DOMAIN work.batch : work.batch[k].type = "redirect" /\ work.batch[k].L = L
MostWrites == 9                              \* bound of the two budgets together
Version == MostWrites - budget.cows - budget.writes
Reads(m, P) == Over(cache[m], disk[m])[Row(P)]

\* rk_cow_fn: the copy, with the write merged in, goes to a free row, then the op.
WriteShared(L) ==
  /\ loaded /\ cmd = NoOp /\ budget.cows > 0 /\ Shared(core, L) /\ ~Busy(L) /\ ~InWork(L)
  /\ \E newP \in Physical \ core.used :
       /\ Put([a \in {Row(newP)} |-> Page(Version, L)])
       /\ core' = [core EXCEPT !.used = @ \cup {newP}]
       /\ pending' = Append(pending, Redirect(L, At(core, L), newP, Version))
  /\ budget' = [budget EXCEPT !.cows = @ - 1]
  /\ UNCHANGED <<disk, member, work, cmd, loaded, history>>

WriteInPlace(L) ==
  /\ loaded /\ cmd = NoOp /\ budget.writes > 0 /\ ~Shared(core, L) /\ ~Busy(L) /\ ~InWork(L)
  /\ Put([a \in {Row(At(core, L))} |-> Page(Version, L)])
  /\ origin' = [origin EXCEPT ![L] = Version]
  /\ budget' = [budget EXCEPT !.writes = @ - 1]
  /\ UNCHANGED <<disk, member, core, pending, work, cmd, loaded, kept, chain, promised>>

UserFlush ==
  /\ loaded /\ kept # origin /\ budget.flushes > 0
  /\ FlushAll
  /\ kept' = origin
  /\ budget' = [budget EXCEPT !.flushes = @ - 1]
  /\ UNCHANGED <<member, core, pending, work, cmd, loaded, origin, chain, promised>>

\* rk_snap_create and rk_snap_drop hold the COWs off and suspend the array, then
\* wait for the commit worker.
SnapCommand(op) ==
  /\ loaded /\ cmd = NoOp /\ pending = <<>> /\ work.at = "idle"
  /\ \/ /\ op.type = "create" /\ budget.creates > 0 /\ \A k \in DOMAIN core.snaps : core.snaps[k] # op.slot
        /\ op.slot = Min(Slots \ ToSet(core.snaps))
        /\ promised' = [promised EXCEPT ![op.slot] = [m \in MetaMembers |-> [L \in Origin |-> Reads(m, At(core, L)).gen]]]
        /\ budget' = [budget EXCEPT !.creates = @ - 1]
     \/ /\ op.type = "destroy" /\ budget.destroys > 0 /\ \E k \in DOMAIN core.snaps : core.snaps[k] = op.slot
        /\ budget' = [budget EXCEPT !.destroys = @ - 1]
        /\ UNCHANGED promised
  /\ cmd' = op
  /\ pending' = Append(pending, op)
  /\ UNCHANGED <<disk, cache, member, core, work, loaded, origin, kept, chain>>

-----------------------------------------------------------------------------
(* The commit worker: rk_sn_commit_fn, rk_sn_settle, rk_sn_checkpoint.     *)

Idle == [at |-> "idle", batch |-> <<>>, then |-> "none", full |-> FALSE]
Working(at) == [work EXCEPT !.at = at]
NeedsData(batch) == \E k \in DOMAIN batch : batch[k].type \in {"redirect", "create"}

TakeBatch ==
  /\ loaded /\ work.at = "idle" /\ pending # <<>>
  /\ work' = [Idle EXCEPT !.at = "settle", !.batch = pending]
  /\ pending' = <<>>
  /\ UNCHANGED <<disk, cache, member, core, cmd, loaded, history, budget>>

\* Mutant: only the ring past the head is cleaned.
SettleScrubs ==
  /\ work.at = "settle"
  /\ work' = Working(IF core.jscrub THEN "scrub" ELSE "flush")
  /\ UNCHANGED <<disk, cache, member, core, pending, cmd, loaded, history, budget>>

\* The first record after a load waits for a checkpoint of what was replayed, then for
\* the ring past the head to be zero.
Settle ==
  /\ work.at = "settle"
  /\ work' = IF ~core.jscrub THEN Working("flush")
             ELSE IF core.jhead # core.jtail THEN [work EXCEPT !.at = "rmap", !.then = "scrub", !.full = FALSE]
             ELSE Working("scrub")
  /\ UNCHANGED <<disk, cache, member, core, pending, cmd, loaded, history, budget>>

Scrub ==
  /\ work.at = "scrub"
  /\ Put([a \in {Ring(core.jhead)} |-> Zero])
  /\ work' = Working("scrubbed")
  /\ UNCHANGED <<disk, member, core, pending, cmd, loaded, history, budget>>
Scrubbed ==
  /\ work.at = "scrubbed"
  /\ Settled({Ring(core.jhead)})
  /\ core' = [core EXCEPT !.jscrub = FALSE]
  /\ work' = Working("flush")
  /\ UNCHANGED <<member, pending, cmd, loaded, history, budget>>

\* Mutant: the records do not wait for the data.
NoDataFlush ==
  /\ work.at = "flush"
  /\ work' = Working("record")
  /\ UNCHANGED <<disk, cache, member, core, pending, cmd, loaded, history, budget>>

\* A redirect's new row, and what a create's snapshot holds, first: on every member.
DataFlush ==
  /\ work.at = "flush"
  /\ IF NeedsData(work.batch) THEN FlushAll ELSE UNCHANGED <<disk, cache>>
  /\ work' = Working("record")
  /\ UNCHANGED <<member, core, pending, cmd, loaded, history, budget>>

PutRecord ==
  /\ work.at = "record"
  /\ Put([a \in {Ring(core.jhead)} |-> Page(core.jhead, work.batch)])
  /\ work' = Working("apply")
  /\ UNCHANGED <<disk, member, core, pending, cmd, loaded, history, budget>>

\* The record is on the media of a member: the ops are applied and their users told.
Committed ==
  /\ work.at = "apply"
  /\ Settled({Ring(core.jhead)})
  /\ LET Told(L) == {k \in DOMAIN work.batch : work.batch[k].type = "redirect" /\ work.batch[k].L = L}
         New(old) == [L \in Origin |-> IF Told(L) = {} THEN old[L] ELSE work.batch[Max(Told(L))].val]
         after == FoldLeft(Apply, core, work.batch)
     IN  /\ core' = [after EXCEPT !.jhead = @ + 1]
         /\ origin' = New(origin) /\ kept' = New(kept)
         /\ chain' = {after.snaps}
  /\ cmd' = NoOp
  /\ work' = IF core.jhead + 1 - core.jtail >= JPages \div 2 THEN [Idle EXCEPT !.at = "rmap", !.then = "idle"] ELSE Idle
  /\ UNCHANGED <<member, pending, loaded, promised, budget>>

\* rk_sn_checkpoint_sync, from sysfs, a clean stop's, or before a member is rebuilt.
AskCheckpoint ==
  /\ loaded /\ work.at = "idle" /\ pending = <<>>
  /\ \/ /\ budget.ckpts > 0
        /\ budget' = [budget EXCEPT !.ckpts = @ - 1]
        /\ work' = [Idle EXCEPT !.at = "rmap", !.then = "idle"]
     \/ /\ \E m \in MetaMembers : member[m] = "added"
        /\ work' = [Idle EXCEPT !.at = "rmap", !.then = "seed", !.full = TRUE]
        /\ UNCHANGED budget
  /\ UNCHANGED <<disk, cache, member, core, pending, cmd, loaded, history>>

\* 1: changed pages, each into the slot that does not hold it as of the last one.
Other(t) == IF t = "zero" THEN "one" ELSE "zero"
CkptRmap ==
  LET c == core.ckpt + 1
      todo == core.rdirty \cup {p \in Pages : work.full /\ core.pmap[p] # "none"}
      plain(p) == \A P \in InPage(p) : core.rmap[P] = Default[P]
      slot == [p \in Pages |-> IF p \notin todo THEN core.pmap[p]
                               ELSE IF plain(p) THEN "none" ELSE Other(core.pmap[p])]
      To(p) == Rmap(IF slot[p] = "one" THEN 1 ELSE 0, p)
      writes == {p \in todo : ~plain(p)}
      Of(a) == CHOOSE p \in writes : To(p) = a
  IN  /\ work.at = "rmap"
      /\ Put([a \in {To(p) : p \in writes} |-> Page(c, [P \in InPage(Of(a)) |-> core.rmap[P]])])
      /\ core' = [core EXCEPT !.pmap = slot]
      /\ work' = Working("rmapflush")
      /\ UNCHANGED <<disk, member, pending, cmd, loaded, history, budget>>
CkptRmapFlush ==
  /\ work.at = "rmapflush"
  /\ FlushAll
  /\ work' = Working("table")
  /\ UNCHANGED <<member, core, pending, cmd, loaded, history, budget>>

\* 2: the page map and the table, into the copy of this checkpoint.
CkptTable ==
  LET c == core.ckpt + 1
  IN  /\ work.at = "table"
      /\ Put([a \in {Tbl(c), Pmap(c)} |-> Page(c, IF a = Tbl(c) THEN core.snaps ELSE core.pmap)])
      /\ work' = Working("tableflush")
      /\ UNCHANGED <<disk, member, core, pending, cmd, loaded, history, budget>>
CkptTableFlush ==
  /\ work.at = "tableflush"
  /\ FlushAll
  /\ work' = Working("header")
  /\ UNCHANGED <<member, core, pending, cmd, loaded, history, budget>>

\* 3: the header, which makes it the checkpoint.
CkptHeader ==
  /\ work.at = "header"
  /\ Put([a \in {Hdr(core.ckpt + 1)} |-> Page(core.ckpt + 1, core.jhead)])
  /\ work' = Working("done")
  /\ UNCHANGED <<disk, member, core, pending, cmd, loaded, history, budget>>
CkptDone ==
  /\ work.at = "done"
  /\ Settled({Hdr(core.ckpt + 1)})
  /\ core' = [core EXCEPT !.ckpt = @ + 1, !.jtail = core.jhead, !.rdirty = {}]
  /\ work' = IF work.then = "scrub" THEN Working("scrub") ELSE Idle
  /\ member' = [m \in MetaMembers |-> IF work.then = "seed" /\ member[m] = "added" THEN "seeded" ELSE member[m]]
  /\ chain' = {core.snaps}
  /\ UNCHANGED <<pending, cmd, loaded, origin, kept, promised, budget>>

-----------------------------------------------------------------------------
(* Members fail and are rebuilt; the power fails; assembly.                *)

\* md_error: out of the array at once, in the superblocks a little later.
LoseMember(m) ==
  /\ budget.lost > 0 /\ member[m] = "insync" /\ Cardinality(Insync(member)) > 1
  /\ budget' = [budget EXCEPT !.lost = @ - 1]
  /\ member' = [member EXCEPT ![m] = IF budget.late THEN "failing" ELSE "faulty"]
  /\ UNCHANGED <<disk, cache, core, pending, work, cmd, loaded, history>>
SuperblockWritten ==
  /\ \E m \in MetaMembers : member[m] = "failing" /\ member' = [member EXCEPT ![m] = "faulty"]
  /\ UNCHANGED <<disk, cache, core, pending, work, cmd, loaded, history, budget>>

\* A disk is added, or the failed one again with what is on it.
AddMember ==
  /\ loaded /\ budget.adds > 0
  /\ budget' = [budget EXCEPT !.adds = @ - 1]
  /\ \E m \in MetaMembers :
       /\ member[m] = "faulty"
       /\ member' = [member EXCEPT ![m] = "added"]
       /\ cache' = [cache EXCEPT ![m] = NoPages]
       /\ \E blank \in BOOLEAN : disk' = IF blank THEN [disk EXCEPT ![m] = [a \in Address |-> Zero]] ELSE disk
  /\ UNCHANGED <<core, pending, work, cmd, loaded, history>>

\* Every row was rebuilt, from a member that has it.
Rebuilt ==
  /\ \E m \in MetaMembers : member[m] = "seeded"
  /\ LET from == Min(Insync(member))
         Was(a, m) == IF a[1] = "row" THEN Over(cache[from], disk[from])[a] ELSE disk[m][a]
     IN  /\ disk' = [m \in MetaMembers |-> IF member[m] = "seeded" THEN [a \in Address |-> Was(a, m)] ELSE disk[m]]
         /\ promised' = [s \in Slots |-> [m \in MetaMembers |-> promised[s][IF member[m] = "seeded" THEN from ELSE m]]]
  /\ member' = [m \in MetaMembers |-> IF member[m] = "seeded" THEN "insync" ELSE member[m]]
  /\ UNCHANGED <<cache, core, pending, work, cmd, loaded, origin, kept, chain, budget>>

\* Of what is in a cache each page is on the media, or not, or torn.
PowerFails ==
  /\ loaded /\ budget.crashes > 0
  /\ budget' = [budget EXCEPT !.crashes = @ - 1]
  /\ \E fate \in [{<<m, a>> \in MetaMembers \X Address : m \in Live /\ a \in DOMAIN cache[m]} -> {"kept", "lost", "torn"}] :
       /\ \A x \in DOMAIN fate : x[2][1] = "row" => fate[x] # "torn"
       /\ disk' = [m \in MetaMembers |-> [a \in Address |->
                    IF <<m, a>> \notin DOMAIN fate THEN disk[m][a]
                    ELSE CASE fate[<<m, a>>] = "kept" -> cache[m][a]
                           [] fate[<<m, a>>] = "lost" -> disk[m][a]
                           [] OTHER -> [cache[m][a] EXCEPT !.ok = FALSE]]]
  /\ cache' = [m \in MetaMembers |-> NoPages]
  /\ member' = [m \in MetaMembers |-> CASE member[m] = "failing" -> "insync"
                                        [] member[m] \in {"added", "seeded"} -> "faulty" [] OTHER -> member[m]]
  /\ LET now == Load(disk', Insync(member'))
     IN  core' = now /\ loaded' = now.ok
  \* What the users may see now: the command in the air took place, or it did not.
  /\ LET op == IF work.at = "apply" THEN work.batch ELSE <<>>
         Left(L) == {disk'[m][Row(At(core', L))].gen : m \in Insync(member')}
     IN  /\ chain' = chain \cup {FoldLeft(Apply, core, op).snaps}
         /\ origin' = IF loaded' THEN [L \in Origin |-> Min(Left(L))] ELSE origin
  /\ pending' = <<>> /\ work' = Idle /\ cmd' = NoOp
  /\ UNCHANGED <<kept, promised>>

-----------------------------------------------------------------------------

\* mdadm wrote a header with no rows in it; the rest of the region is zero.
Init ==
  /\ budget \in MetaBudgets
  /\ disk = [m \in MetaMembers |-> [a \in Address |->
       IF a = Hdr(0) THEN Page(0, 0) ELSE IF a[1] = "row" /\ a[2] < MetaO THEN Page(0, a[2]) ELSE Zero]]
  /\ cache = [m \in MetaMembers |-> NoPages]
  /\ member = [m \in MetaMembers |-> "insync"]
  /\ core = Load(disk, MetaMembers) /\ loaded = TRUE
  /\ pending = <<>> /\ work = Idle /\ cmd = NoOp
  /\ origin = [L \in Origin |-> 0] /\ kept = [L \in Origin |-> 0]
  /\ chain = {<<>>} /\ promised = [s \in Slots |-> [m \in MetaMembers |-> [L \in Origin |-> 0]]]

Users == UserFlush \/ \E L \in Origin : WriteShared(L) \/ WriteInPlace(L)
Commands == \E s \in Slots : SnapCommand(Create(s)) \/ SnapCommand(Destroy(s))
Worker ==
  \/ TakeBatch \/ Settle \/ Scrub \/ Scrubbed \/ DataFlush \/ PutRecord \/ Committed \/ AskCheckpoint
  \/ CkptRmap \/ CkptRmapFlush \/ CkptTable \/ CkptTableFlush \/ CkptHeader \/ CkptDone
Failures == SuperblockWritten \/ AddMember \/ Rebuilt \/ PowerFails \/ \E m \in MetaMembers : LoseMember(m)
Next == Users \/ Commands \/ Worker \/ Failures

Spec == Init /\ [][Next]_vars

-----------------------------------------------------------------------------
(* Properties. *)

\* Whatever a power failure leaves of the caches and whichever member is gone, the
\* metadata can be read, and the snapshots are those the users were told of, or those
\* with the command that was in the air: a checkpoint cut short leaves the last one
\* whole, and no record that was acked is behind one that a ring does not have.
AssembleFindsTheChain == loaded /\ core.snaps \in chain

\* On every member in sync, each row holds what it must: the origin nothing older than
\* a write that was acked with its record or flushed, and never another row's data, and
\* a snapshot what the origin was when it was taken.
RowsHoldWhatTheyPromise ==
  loaded =>
    \A m \in Insync(member), L \in Origin :
      /\ LET x == Reads(m, At(core, L)) IN x.body = L /\ x.gen >= kept[L]
      /\ \A k \in DOMAIN core.snaps :
           LET x == Reads(m, Shown(core, core.snaps[k], L))
           IN  x.body = L /\ x.gen = promised[core.snaps[k]][m][L]
=============================================================================
