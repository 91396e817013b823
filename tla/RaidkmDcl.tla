------------------------------- MODULE RaidkmDcl -------------------------------
(***************************************************************************)
(* A declustered pool: every row of chunks is a permutation of its columns *)
(* over the disks, and the last columns of a row are spare.  A failed disk *)
(* is assigned a spare column.  A population pass rebuilds the disk's      *)
(* content into it; reads and writes are redirected; a replacement takes   *)
(* the content back with a copy, or with a stock recovery once every       *)
(* assignment is retired.  The table of assignments is journaled member by *)
(* member, and an assembly elects the newest block.                        *)
(*                                                                         *)
(* A row is one chunk of a disk, its stripes one unit; addresses, the mark *)
(* and recovery_offset count rows.  A user write is one step and durable:  *)
(* quiesces and claims wait for the stripes it holds.  Read errors of a    *)
(* live member (and with them a population that is stuck), the row window  *)
(* and the reshape are left out.                                           *)
(***************************************************************************)
EXTENDS Integers, FiniteSets, Sequences, SequencesExt, FiniteSetsExt

CONSTANTS
  Pool,         \* N
  K, M, Groups, \* k, m, ngroups
  S,            \* s
  Rows,         \* rows of chunks
  Base,         \* the base permutation: <<disk of column 0 in row 0, ...>>
  PopWindow,    \* reb_win_size
  CheckEvery,   \* RKDCL_REB_CHK_SECTORS
  CopyBand,     \* RKDCL_COPY_BAND_SECTORS
  Losable,      \* disks that may fail
  DclBudgets    \* bounds, one of them in a behaviour

ASSUME DclAssumption ==
  /\ Pool = Groups * (K + M) + S
  /\ Len(Base) = Pool /\ ToSet(Base) = 0..(Pool - 1)

G == K + M
Disks == 0..(Pool - 1)
RowSet == 0..(Rows - 1)
Columns == 0..(Groups * G - 1)
GroupOf(c) == {e \in Columns : e \div G = c \div G}
IsData(c) == c % G < K

\* dcl_disk and dcl_lcol, of one base shuffle
Disk(r, col) == (Base[col + 1] + r) % Pool
Column(r, d) == CHOOSE col \in 0..(Pool - 1) : Disk(r, col) = d
SpareDisk(r, j) == Disk(r, Groups * G + j)

VARIABLES
  member,    \* [Disks -> {"insync", "gone", "recovering"}]
  rec,       \* [Disks -> recovery_offset]
  cell,      \* [Disks -> [RowSet -> <<column, version>>]]
  soft,      \* population and copy writes in a member's cache: <<disk, row, what is on the media>>
  cur,       \* [RowSet -> [Columns -> version]] (history)
  asg,       \* conf->reb[0..nreb-1]
  mark,      \* reb_mark
  done,      \* reb_win_bits
  gen,       \* reb_gen
  jmark,     \* reb_journal_mark
  jrnl,      \* [Disks -> the rkdcl block]
  flight,    \* rows whose population stripes are being handled
  pass,      \* md's sync thread
  job,       \* [{"pass", "ctl"} -> what that thread is changing]
  budget

vars == <<member, rec, cell, soft, cur, asg, mark, done, gen, jmark, jrnl, flight, pass, job, budget>>
disks == <<member, rec, cell, soft, cur>>
journal == <<gen, jmark, jrnl>>

Have(what) == budget[what] > 0
Use(what) == budget' = [budget EXCEPT ![what] = @ - 1]

-----------------------------------------------------------------------------
(* The table: raidkm_dcl_redirect, raidkm_dcl_chain_root.                  *)

Pop(table) == LET at == {i \in DOMAIN table : table[i].state # "populated"} IN IF at = {} THEN 0 ELSE Min(at)
PopState == IF Pop(asg) = 0 THEN "none" ELSE asg[Pop(asg)].state
PopDisk == asg[Pop(asg)].disk
Assigned(d) == \E i \in DOMAIN asg : asg[i].disk = d
Steps == [i \in 1..(Len(asg) + 1) |-> i]

ToSpare(a, r, forWrite) ==
  CASE a.state = "populated" -> TRUE
    [] a.state = "populating" -> forWrite \/ r + 1 <= mark
    [] OTHER -> r + 1 > mark

Hop(d, r, forWrite) ==
  LET at == {i \in DOMAIN asg : asg[i].disk = d /\ ToSpare(asg[i], r, forWrite)}
  IN  IF at = {} THEN d ELSE SpareDisk(r, asg[Min(at)].spare)
\* Mutant: one hop, as with one assignment.
RedirectOnce(d, r, forWrite) == Hop(d, r, forWrite)
Redirect(d, r, forWrite) == FoldLeft(LAMBDA e, i : Hop(e, r, forWrite), d, Steps)
ReadFrom(r, c) == Redirect(Disk(r, c), r, FALSE)
WriteTo(r, c) == Redirect(Disk(r, c), r, TRUE)

\* Mutant: a spare column has nothing to rebuild, as with one assignment.
RootUnchained(r, x) == IF Column(r, x) \in Columns THEN Column(r, x) ELSE -1
\* The group column whose chain goes through the disk, or -1.
ChainRoot(r, x) ==
  LET Step(d, i) ==
        LET col == IF d < 0 THEN -1 ELSE Column(r, d)
            from == {k \in DOMAIN asg : asg[k].spare = col - Groups * G}
        IN  IF col \in Columns \/ d < 0 THEN d ELSE IF from = {} THEN -1 ELSE asg[Min(from)].disk
      end == FoldLeft(Step, x, Steps)
  IN  IF end < 0 THEN -1 ELSE IF Column(r, end) \in Columns THEN Column(r, end) ELSE -1

-----------------------------------------------------------------------------
(* Members and what is on them.                                            *)

Current(r, c) == <<c, cur[r][c]>>
Blank == <<-1, -1>>
Present(d) == member[d] # "gone"
Out == {d \in Disks : member[d] # "insync"}
Readable(d, r) == member[d] = "insync" \/ (member[d] = "recovering" /\ r < rec[d])

\* Up to K in-sync sources of the column, in slot order (a parity column is
\* made from data alone): the columns, without the disks to avoid.
Sources(r, c, avoid) ==
  LET Usable(e) == /\ e # c /\ (IsData(c) \/ IsData(e))
                   /\ ReadFrom(r, e) \notin avoid /\ member[ReadFrom(r, e)] = "insync"
      all == SetToSortSeq({e \in GroupOf(c) : Usable(e)}, <)
  IN  ToSet(SubSeq(all, 1, Min({K, Len(all)})))
\* What decoding them gives: the column as it is now, or garbage.
Decoded(r, c, from) == IF \A s \in from : cell[s[2]][r] = Current(r, s[1]) THEN Current(r, c) ELSE Blank

\* A population or copy write to that member: in its cache.
Written(writes) ==
  /\ cell' = [d \in Disks |-> [r \in RowSet |->
       IF \E w \in writes : w[1] = d /\ w[2] = r THEN (CHOOSE w \in writes : w[1] = d /\ w[2] = r)[3] ELSE cell[d][r]]]
  /\ soft' = IF ~budget.cached THEN soft
             ELSE soft \cup {<<w[1], w[2], cell[w[1]][w[2]]>> : w \in {v \in writes : \A s \in soft : s[1] # v[1] \/ s[2] # v[2]}}

-----------------------------------------------------------------------------
(* The threads.  A job is a change of the table, the mark or both with its *)
(* journal write: "drain" while the quiesce waits, "write" while the block *)
(* goes to the members, "end" when it is on those that took it.            *)

NoJob == [what |-> "none", step |-> "none", x |-> 0, then |-> "none", block |-> 0, left |-> {},
          failed |-> FALSE, written |-> FALSE, saved |-> 0]
NoPick == [row |-> -1, root |-> 0, target |-> 0, from |-> {}, claimed |-> FALSE]
NoPass == [kind |-> "none", pos |-> 0, intr |-> FALSE, fault |-> FALSE, step |-> "run", pick |-> NoPick]

Quiescing == {"retire_all", "retire_one", "band", "copy_arm"}
Quiesced == \E t \in DOMAIN job : job[t].what \in Quiescing
\* dcl_retire_mutex
MutexFree == \A t \in DOMAIN job : job[t].what \notin {"retire_all", "retire_one", "band"}
Idle(t) == job[t].what = "none"
Drained == flight = {} /\ ~pass.pick.claimed

Set(t, j) == job' = [job EXCEPT ![t] = j]
Drain(t, what, x, then) == Set(t, [NoJob EXCEPT !.what = what, !.step = "drain", !.x = x, !.then = then])

\* raidkm_dcl_journal_write begins with the table and the mark as they now are.
Journal(t, j, table, m) ==
  /\ budget.overlap \/ \A u \in DOMAIN job : job[u].step # "write"
  /\ asg' = table /\ mark' = m /\ gen' = gen + 1 /\ jmark' = m
  /\ Set(t, [j EXCEPT !.step = "write", !.block = [gen |-> gen + 1, asg |-> table, mark |-> m],
                      !.left = {d \in Disks : Present(d)}, !.saved = [asg |-> asg, mark |-> mark, jmark |-> jmark]])

JournalMember(t) ==
  /\ job[t].step = "write" /\ job[t].left # {}
  /\ LET d == Min(job[t].left)
         rest == [job[t] EXCEPT !.left = @ \ {d}]
     IN  \/ /\ Present(d)
            /\ jrnl' = [jrnl EXCEPT ![d] = job[t].block]
            /\ soft' = {s \in soft : s[1] # d}
            /\ Set(t, [rest EXCEPT !.written = TRUE])
            /\ UNCHANGED budget
         \/ ~Present(d) /\ Set(t, rest) /\ UNCHANGED <<jrnl, soft, budget>>
         \/ Present(d) /\ Have("jfails") /\ Use("jfails") /\ Set(t, [rest EXCEPT !.failed = TRUE]) /\ UNCHANGED <<jrnl, soft>>
  /\ UNCHANGED <<member, rec, cell, cur, asg, mark, done, gen, jmark, flight, pass>>

Ended(t) == job[t].step = "write" /\ job[t].left = {}
StrictError(t) == job[t].failed \/ ~job[t].written

-----------------------------------------------------------------------------
(* Users, failures, power.                                                 *)

\* A write of a data column and its group's parity, to where each is now.
UserWrite(r, c) ==
  LET touched == {c} \cup {e \in GroupOf(c) : ~IsData(e)}
      New(e) == <<e, cur[r][e] + 1>>
      On(d) == {e \in touched : WriteTo(r, e) = d}
  IN  /\ Have("writes") /\ Use("writes")
      /\ ~Quiesced /\ ~(pass.pick.claimed /\ pass.pick.row = r)
      /\ cur' = [cur EXCEPT ![r] = [e \in Columns |-> IF e \in touched THEN cur[r][e] + 1 ELSE cur[r][e]]]
      /\ cell' = [d \in Disks |-> IF On(d) # {} /\ Present(d) THEN [cell[d] EXCEPT ![r] = New(Min(On(d)))] ELSE cell[d]]
      /\ soft' = {s \in soft : ~(s[2] = r /\ On(s[1]) # {})}
      /\ UNCHANGED <<member, rec, asg, mark, done, flight, pass, job>> /\ UNCHANGED journal

\* raid5_error, and the member leaves its slot; the pass is told after.
LoseMember(d) ==
  /\ Have("lost") /\ Use("lost")
  /\ Present(d) /\ Cardinality(Out \cup {d}) <= M
  /\ member' = [member EXCEPT ![d] = "gone"]
  /\ pass' = IF pass.kind = "none" THEN pass ELSE [pass EXCEPT !.fault = TRUE]
  /\ UNCHANGED <<rec, cell, soft, cur, asg, mark, done, flight, job>> /\ UNCHANGED journal

Interrupt ==
  /\ pass.fault /\ pass' = [pass EXCEPT !.fault = FALSE, !.intr = TRUE]
  /\ UNCHANGED <<asg, mark, done, flight, job, budget>> /\ UNCHANGED disks /\ UNCHANGED journal

\* raidkm_dcl_load: the newest block of the members.
Elected == CHOOSE b \in {jrnl[d] : d \in {e \in Disks : Present(e)}} :
             \A d \in Disks : Present(d) => jrnl[d].gen <= b.gen

PowerFailure ==
  /\ Have("crashes") /\ Use("crashes")
  /\ \E lost \in SUBSET soft :
       cell' = [d \in Disks |-> [r \in RowSet |->
         IF \E s \in lost : s[1] = d /\ s[2] = r THEN (CHOOSE s \in lost : s[1] = d /\ s[2] = r)[3] ELSE cell[d][r]]]
  /\ soft' = {}
  /\ asg' = Elected.asg /\ gen' = Elected.gen
  /\ mark' = (IF Pop(Elected.asg) = 0 THEN 0 ELSE Elected.mark) /\ jmark' = mark'
  /\ done' = {} /\ flight' = {}
  /\ pass' = NoPass /\ job' = [t \in DOMAIN job |-> NoJob]
  /\ UNCHANGED <<member, rec, cur, jrnl>>

-----------------------------------------------------------------------------
(* Retiring: raidkm_dcl_retire_all, raidkm_dcl_retire_one.                 *)

RetireStart(t, what, x, then) == MutexFree /\ Drain(t, what, x, then)

At(x) == {i \in DOMAIN asg : asg[i].disk = x /\ asg[i].state = "copying"}

Retire(t) ==
  /\ job[t].what \in {"retire_all", "retire_one"} /\ job[t].step = "drain"
  /\ LET all == job[t].what = "retire_all"
         none == IF all THEN asg = <<>> ELSE At(job[t].x) = {}
     IN  IF none THEN Set(t, [job[t] EXCEPT !.step = "end"]) /\ UNCHANGED <<asg, mark, gen, jmark>>
         ELSE Drained /\ Journal(t, job[t], IF all THEN <<>> ELSE RemoveAt(asg, Min(At(job[t].x))), mark)
  /\ UNCHANGED <<done, jrnl, flight, pass, budget>> /\ UNCHANGED disks

RetireEnd(t) ==
  /\ job[t].what \in {"retire_all", "retire_one"} /\ Ended(t)
  /\ asg' = IF StrictError(t) THEN job[t].saved.asg ELSE asg
  /\ Set(t, [job[t] EXCEPT !.step = "end", !.failed = StrictError(t)])
  /\ UNCHANGED <<mark, done, gen, jmark, jrnl, flight, pass, budget>> /\ UNCHANGED disks

-----------------------------------------------------------------------------
(* The mddev lock: arming, adding a replacement, the rescue.               *)

Locked == ~Idle("ctl")

\* raidkm_dcl_arm, for the sysfs store and for raid5d.
Arm(x) ==
  LET free == {j \in 0..(S - 1) : \A i \in DOMAIN asg : asg[i].spare # j}
  IN  /\ Have("arms") /\ Use("arms")
      /\ ~Locked /\ pass.kind = "none" /\ Pop(asg) = 0 /\ Len(asg) < S
      /\ ~Assigned(x) /\ ~Present(x)
      /\ done' = {}
      /\ Journal("ctl", [NoJob EXCEPT !.what = "arm"], Append(asg, [disk |-> x, spare |-> Min(free), state |-> "populating"]), 0)
      /\ UNCHANGED <<jrnl, flight, pass>> /\ UNCHANGED disks

ArmEnd ==
  /\ job["ctl"].what = "arm" /\ Ended("ctl")
  /\ asg' = IF StrictError("ctl") THEN Front(asg) ELSE asg
  /\ Set("ctl", NoJob)
  /\ UNCHANGED <<mark, done, gen, jmark, jrnl, flight, pass, budget>> /\ UNCHANGED disks

\* raid5_add_disk: into a named slot, or into the first that is empty.  Blank stands for
\* whatever the disk holds: nothing is read of it before it is rebuilt.
Place(d) ==
  /\ member' = [member EXCEPT ![d] = "recovering"]
  /\ rec' = [rec EXCEPT ![d] = 0]
  /\ cell' = [cell EXCEPT ![d] = [r \in RowSet |-> Blank]]
  /\ jrnl' = IF budget.stale THEN jrnl ELSE [jrnl EXCEPT ![d] = [gen |-> -1, asg |-> <<>>, mark |-> 0]]
  /\ soft' = {s \in soft : s[1] # d}

CopyEligible(d, named) ==
  /\ asg # <<>> /\ Pop(asg) = 0
  /\ \E i \in DOMAIN asg : ~Present(asg[i].disk) /\ (named => asg[i].disk = d)

AddMember(d, named) ==
  /\ Have("adds") /\ Use("adds")
  /\ ~Locked /\ pass.kind = "none"
  /\ ~Present(d) /\ (named \/ d = Min({e \in Disks : ~Present(e)}))
  /\ \/ /\ CopyEligible(d, named) /\ Place(d)
        /\ IF Assigned(d) THEN Drain("ctl", "copy_arm", d, "none") ELSE RetireStart("ctl", "retire_all", d, "unplace")
     \/ /\ ~CopyEligible(d, named) /\ asg = <<>> /\ Place(d) /\ UNCHANGED job
     \/ /\ ~CopyEligible(d, named) /\ asg # <<>> /\ Pop(asg) = 0
        /\ RetireStart("ctl", "retire_all", d, "place") /\ UNCHANGED <<member, rec, cell, jrnl, soft>>
  /\ UNCHANGED <<cur, asg, mark, done, gen, jmark, flight, pass>>

CopyArm ==
  LET x == job["ctl"].x
      i == CHOOSE k \in DOMAIN asg : asg[k].disk = x
  IN  /\ job["ctl"].what = "copy_arm" /\ job["ctl"].step = "drain" /\ Drained
      /\ Journal("ctl", job["ctl"], [asg EXCEPT ![i].state = "copying"], 0)
      /\ UNCHANGED <<done, jrnl, flight, pass, budget>> /\ UNCHANGED disks

CopyArmEnd ==
  /\ job["ctl"].what = "copy_arm" /\ Ended("ctl")
  /\ IF StrictError("ctl")
     THEN /\ asg' = job["ctl"].saved.asg /\ mark' = job["ctl"].saved.mark /\ jmark' = job["ctl"].saved.jmark
          /\ Drain("ctl", "retire_all", job["ctl"].x, "unplace")
     ELSE Set("ctl", NoJob) /\ UNCHANGED <<asg, mark, jmark>>
  /\ UNCHANGED <<done, gen, jrnl, flight, pass, budget>> /\ UNCHANGED disks

\* The retire of an add is over: the replacement goes in, stays or comes out.
AddEnd ==
  /\ job["ctl"].step = "end" /\ job["ctl"].then \in {"place", "unplace"}
  /\ LET d == job["ctl"].x IN
     CASE job["ctl"].then = "place" /\ ~job["ctl"].failed -> Place(d)
       [] job["ctl"].then = "unplace" /\ job["ctl"].failed ->
            member' = [member EXCEPT ![d] = "gone"] /\ UNCHANGED <<rec, cell, jrnl, soft>>
       [] OTHER -> UNCHANGED <<member, rec, cell, jrnl, soft>>
  /\ Set("ctl", NoJob)
  /\ UNCHANGED <<cur, asg, mark, done, gen, jmark, flight, pass, budget>>

\* raidkm_dcl_rescue_worker: a copy whose replacement is gone or whose retire failed.
Rescue ==
  /\ ~Locked /\ PopState = "copying" /\ (~Present(PopDisk) \/ mark = Rows)
  /\ RetireStart("ctl", "retire_one", PopDisk, "rescued")
  /\ UNCHANGED <<asg, mark, done, flight, pass, budget>> /\ UNCHANGED disks /\ UNCHANGED journal

RescueEnd ==
  /\ job["ctl"].step = "end" /\ job["ctl"].then = "rescued"
  /\ Set("ctl", NoJob)
  /\ UNCHANGED <<asg, mark, done, flight, pass, budget>> /\ UNCHANGED disks /\ UNCHANGED journal

-----------------------------------------------------------------------------
(* Passes: md_check_recovery starts one, raid5_sync_request drives it.     *)

Recovering == {d \in Disks : member[d] = "recovering"}

PassStart ==
  /\ ~Locked /\ pass.kind = "none"
  /\ \/ /\ Recovering # {}
        /\ pass' = [NoPass EXCEPT !.kind = "recover", !.pos = Min({rec[d] : d \in Recovering})]
     \/ /\ Recovering = {} /\ PopState = "populating"
        /\ pass' = [NoPass EXCEPT !.kind = "pop"]
  /\ UNCHANGED <<asg, mark, done, flight, job, budget>> /\ UNCHANGED disks /\ UNCHANGED journal

Running(kind) == pass.kind = kind /\ pass.step = "run" /\ Idle("pass") /\ ~pass.intr /\ pass.pos < Rows

\* raidkm_dcl_pop_done, and the checkpoint of the caller when it is due.
Prefix(rows) == CHOOSE n \in mark..Rows : (\A r \in mark..(n - 1) : r \in rows) /\ n \notin rows
PopDone(r) ==
  LET rows == done \cup (IF r < mark THEN {} ELSE {r})
  IN  /\ mark' = Prefix(rows)
      /\ done' = {q \in rows : q >= mark'}
Checkpoint ==
  /\ Running("pop") /\ pass.pick = NoPick /\ mark - jmark >= CheckEvery
  /\ Journal("pass", [NoJob EXCEPT !.what = "lax"], asg, mark)
  /\ UNCHANGED <<done, jrnl, flight, pass, budget>> /\ UNCHANGED disks
CheckpointEnd ==
  /\ job["pass"].what = "lax" /\ Ended("pass")
  /\ Set("pass", NoJob)
  /\ UNCHANGED <<asg, mark, done, flight, pass, budget>> /\ UNCHANGED disks /\ UNCHANGED journal

\* raidkm_dcl_populate_request at an address that needs no stripe.
PopSkip ==
  /\ Running("pop") /\ pass.pick = NoPick
  /\ \/ /\ PopState = "populating" /\ pass.pos < mark
        /\ pass' = [pass EXCEPT !.pos = mark] /\ UNCHANGED <<mark, done>>
     \/ /\ PopState = "populating" /\ pass.pos >= mark
        /\ ChainRoot(pass.pos, PopDisk) < 0 /\ pass.pos < mark + PopWindow
        /\ PopDone(pass.pos)
        /\ pass' = [pass EXCEPT !.pos = @ + 1]
  /\ UNCHANGED <<asg, flight, job, budget>> /\ UNCHANGED disks /\ UNCHANGED journal

\* raidkm_dcl_rebuild_chunk: its members, then its claim, then the I/O.
RowPick ==
  LET r == pass.pos
      root == ChainRoot(r, PopDisk)
      from == Sources(r, root, {PopDisk})
  IN  /\ Running("pop") /\ pass.pick = NoPick /\ PopState = "populating" /\ r >= mark
      /\ root >= 0 /\ WriteTo(r, root) # PopDisk /\ Present(WriteTo(r, root)) /\ Cardinality(from) = K
      /\ pass' = [pass EXCEPT !.pick = [NoPick EXCEPT !.row = r, !.root = root, !.target = WriteTo(r, root),
                                                      !.from = {<<e, ReadFrom(r, e)>> : e \in from}]]
      /\ UNCHANGED <<asg, mark, done, flight, job, budget>> /\ UNCHANGED disks /\ UNCHANGED journal

RowClaim ==
  /\ pass.pick # NoPick /\ ~pass.pick.claimed
  /\ pass' = IF Quiesced \/ PopState # "populating" \/ pass.pick.row \in flight
             THEN [pass EXCEPT !.pick = NoPick] ELSE [pass EXCEPT !.pick.claimed = TRUE]
  /\ UNCHANGED <<asg, mark, done, flight, job, budget>> /\ UNCHANGED disks /\ UNCHANGED journal

\* A failed member may have failed writes and still answer reads.
RowRebuilt ==
  LET p == pass.pick
      reads == \A s \in p.from : Present(s[2]) \/ budget.answers
  IN  /\ p.claimed
      /\ IF reads /\ Present(p.target)
         THEN /\ Written({<<p.target, p.row, Decoded(p.row, p.root, p.from)>>})
              /\ PopDone(p.row)
              /\ pass' = [pass EXCEPT !.pick = NoPick, !.pos = @ + 1]
         ELSE pass' = [pass EXCEPT !.pick = NoPick] /\ UNCHANGED <<cell, soft, mark, done>>
      /\ UNCHANGED <<member, rec, cur, asg, flight, job, budget>> /\ UNCHANGED journal

\* The stripe path: the stripes of the row are requested, and handled later.
StripePopulate ==
  LET r == pass.pos
  IN  /\ Running("pop") /\ pass.pick = NoPick /\ PopState = "populating" /\ r >= mark
      /\ ChainRoot(r, PopDisk) >= 0 /\ r < mark + PopWindow /\ ~Quiesced
      /\ flight' = flight \cup {r}
      /\ pass' = [pass EXCEPT !.pos = r + 1]
      /\ UNCHANGED <<asg, mark, done, job, budget>> /\ UNCHANGED disks /\ UNCHANGED journal

StripePopulated(r) ==
  LET c == ChainRoot(r, PopDisk)
      from == {<<e, ReadFrom(r, e)>> : e \in {f \in GroupOf(c) \ {c} : Readable(ReadFrom(r, f), r)}}
  IN  /\ PopState = "populating" /\ flight' = flight \ {r}
      /\ Written({w \in {<<WriteTo(r, c), r, Decoded(r, c, from)>>} : Present(w[1])})
      /\ PopDone(r)
      /\ UNCHANGED <<member, rec, cur, asg, pass, job, budget>> /\ UNCHANGED journal

-----------------------------------------------------------------------------
(* A recovery: the copy of the spare, or the stock one.                    *)

\* raidkm_dcl_copy_request, under the retire mutex.
CopyRequest ==
  /\ Running("recover") /\ PopState = "copying" /\ MutexFree
  /\ CASE pass.pos < mark -> pass' = [pass EXCEPT !.pos = mark] /\ UNCHANGED job
       [] pass.pos >= mark /\ ~Present(PopDisk) -> Drain("pass", "retire_one", PopDisk, "intr") /\ UNCHANGED pass
       [] OTHER -> Drain("pass", "band", PopDisk, "none") /\ UNCHANGED pass
  /\ UNCHANGED <<asg, mark, done, flight, budget>> /\ UNCHANGED disks /\ UNCHANGED journal

\* What a row of the replacement gets: the end of its chain, or what decodes.
CopyRow(r, x) ==
  LET c == ChainRoot(r, x)
      src == ReadFrom(r, c)
      from == {<<e, ReadFrom(r, e)>> : e \in Sources(r, c, {x, src})}
  IN  CASE c < 0 -> "none"
        [] c >= 0 /\ Present(src) -> cell[src][r]
        [] c >= 0 /\ ~Present(src) /\ Cardinality(from) = K -> Decoded(r, c, from)
        [] OTHER -> "error"

CopyRows ==
  LET x == job["pass"].x
      last == Min({pass.pos + CopyBand, Rows})
      band == pass.pos..(last - 1)
      error == \E r \in band : CopyRow(r, x) = "error" \/ (CopyRow(r, x) # "none" /\ ~Present(x))
  IN  /\ job["pass"].what = "band" /\ job["pass"].step = "drain" /\ Drained
      /\ IF error
         THEN Set("pass", [job["pass"] EXCEPT !.step = "end", !.failed = TRUE]) /\ UNCHANGED <<asg, mark, gen, jmark, cell, soft>>
         ELSE /\ Written({<<x, r, CopyRow(r, x)>> : r \in {q \in band : CopyRow(q, x) # "none"}})
              /\ Journal("pass", job["pass"], asg, last)
      /\ UNCHANGED <<member, rec, cur, done, jrnl, flight, pass, budget>>

CopyRowsEnd ==
  /\ job["pass"].what = "band" /\ (Ended("pass") \/ job["pass"].step = "end")
  /\ IF job["pass"].step = "end" \/ StrictError("pass")
     THEN /\ IF job["pass"].step = "end" THEN UNCHANGED <<mark, jmark>>
             ELSE mark' = job["pass"].saved.mark /\ jmark' = job["pass"].saved.mark
          /\ Set("pass", NoJob) /\ pass' = [pass EXCEPT !.step = "abandon"]
     ELSE Set("pass", NoJob) /\ pass' = [pass EXCEPT !.pos = IF pass.intr THEN @ ELSE mark] /\ UNCHANGED <<mark, jmark>>
  /\ UNCHANGED <<asg, done, gen, jrnl, flight, budget>> /\ UNCHANGED disks

\* The band failed, or a stock recovery meets assignments: all of them go.
Abandon ==
  /\ Idle("pass")
  /\ \/ pass.step = "abandon"
     \/ Running("recover") /\ PopState # "copying" /\ asg # <<>>
  /\ RetireStart("pass", "retire_all", 0, "intr")
  /\ pass' = [pass EXCEPT !.step = "run"]
  /\ UNCHANGED <<asg, mark, done, flight, budget>> /\ UNCHANGED disks /\ UNCHANGED journal

AbandonEnd ==
  /\ job["pass"].step = "end" /\ job["pass"].then = "intr"
  /\ Set("pass", NoJob) /\ pass' = [pass EXCEPT !.intr = TRUE]
  /\ UNCHANGED <<asg, mark, done, flight, budget>> /\ UNCHANGED disks /\ UNCHANGED journal

\* A row of the stock recovery: every column on a recovering disk.
RecoverRow ==
  LET r == pass.pos
      Rebuilt(d) == Column(r, d) \in Columns /\ member[d] = "recovering"
      From(c) == {<<e, ReadFrom(r, e)>> : e \in {f \in GroupOf(c) \ {c} : Readable(ReadFrom(r, f), r)}}
  IN  /\ Running("recover") /\ asg = <<>> /\ ~Quiesced
      /\ cell' = [d \in Disks |-> IF Rebuilt(d) THEN [cell[d] EXCEPT ![r] = Decoded(r, Column(r, d), From(Column(r, d)))] ELSE cell[d]]
      /\ pass' = [pass EXCEPT !.pos = r + 1]
      /\ UNCHANGED <<member, rec, soft, cur, asg, mark, done, flight, job, budget>> /\ UNCHANGED journal

\* md_do_sync and md_update_sb while the pass runs: what is behind it is recovered.
RecoveryOffset ==
  /\ pass.kind = "recover" /\ pass.step = "run" /\ Idle("pass")
  /\ \E d \in Recovering : rec[d] < pass.pos
  /\ rec' = [d \in Disks |-> IF d \in Recovering THEN Max({rec[d], pass.pos}) ELSE rec[d]]
  /\ UNCHANGED <<member, cell, soft, cur, asg, mark, done, flight, pass, job, budget>> /\ UNCHANGED journal

\* The last call of raid5_sync_request; md waits for what was issued first.
PassEnds ==
  LET complete == ~pass.intr /\ mark = Rows
  IN  /\ pass.kind # "none" /\ pass.step = "run" /\ Idle("pass") /\ pass.pick = NoPick
      /\ (pass.intr \/ pass.pos = Rows) /\ flight = {}
      /\ pass' = [pass EXCEPT !.step = "finish"]
      /\ CASE PopState = "copying" /\ pass.kind = "recover" /\ complete ->
                RetireStart("pass", "retire_one", PopDisk, "copied") /\ UNCHANGED <<asg, mark, gen, jmark>>
           [] PopState = "populating" /\ pass.kind = "pop" ->
                Journal("pass", [NoJob EXCEPT !.what = "lax"],
                        IF complete THEN [asg EXCEPT ![Pop(asg)].state = "populated"] ELSE asg, mark)
           [] PopState = "copying" /\ ~(pass.kind = "recover" /\ complete) ->
                Journal("pass", [NoJob EXCEPT !.what = "lax"], asg, mark)
           [] OTHER -> UNCHANGED <<job, asg, mark, gen, jmark>>
      /\ UNCHANGED <<done, jrnl, flight, budget>> /\ UNCHANGED disks

CopiedEnd ==
  /\ job["pass"].step = "end" /\ job["pass"].then = "copied"
  /\ Set("pass", NoJob)
  /\ UNCHANGED <<asg, mark, done, flight, pass, budget>> /\ UNCHANGED disks /\ UNCHANGED journal

\* md_do_sync's end and raid5_spare_active: recovery_offset, In_sync.
PassReaped ==
  LET whole == pass.kind = "recover" /\ ~pass.intr
  IN  /\ pass.step = "finish" /\ Idle("pass") /\ ~Locked
      /\ rec' = [d \in Disks |-> IF d \in Recovering /\ pass.kind = "recover" THEN Max({rec[d], IF whole THEN Rows ELSE pass.pos}) ELSE rec[d]]
      /\ member' = [d \in Disks |-> IF d \in Recovering /\ whole THEN "insync" ELSE member[d]]
      /\ pass' = NoPass
      /\ UNCHANGED <<cell, soft, cur, asg, mark, done, flight, job, budget>> /\ UNCHANGED journal

-----------------------------------------------------------------------------
Init ==
  /\ member = [d \in Disks |-> "insync"] /\ rec = [d \in Disks |-> Rows]
  /\ cell = [d \in Disks |-> [r \in RowSet |-> IF Column(r, d) \in Columns THEN <<Column(r, d), 0>> ELSE Blank]]
  /\ soft = {} /\ cur = [r \in RowSet |-> [c \in Columns |-> 0]]
  /\ asg = <<>> /\ mark = 0 /\ done = {} /\ gen = 0 /\ jmark = 0
  /\ jrnl = [d \in Disks |-> [gen |-> 0, asg |-> <<>>, mark |-> 0]]
  /\ flight = {} /\ pass = NoPass /\ job = [t \in {"pass", "ctl"} |-> NoJob]
  /\ budget \in DclBudgets

Users == Interrupt \/ (\E r \in RowSet, c \in {e \in Columns : IsData(e)} : UserWrite(r, c)) \/ (\E d \in Losable : LoseMember(d)) \/ PowerFailure
Commands ==
  \/ (\E x \in Losable : Arm(x)) \/ ArmEnd
  \/ (\E d \in Losable, named \in BOOLEAN : AddMember(d, named))
  \/ CopyArm \/ CopyArmEnd \/ AddEnd \/ Rescue \/ RescueEnd
Populates == Checkpoint \/ CheckpointEnd \/ PopSkip \/ RowPick \/ RowClaim \/ RowRebuilt \/ StripePopulate \/ (\E r \in flight : StripePopulated(r))
Recovers == CopyRequest \/ CopyRows \/ CopyRowsEnd \/ Abandon \/ AbandonEnd \/ RecoverRow \/ RecoveryOffset
Next ==
  \/ Users \/ Commands \/ Populates \/ Recovers
  \/ PassStart \/ PassEnds \/ CopiedEnd \/ PassReaped
  \/ \E t \in {"pass", "ctl"} : JournalMember(t) \/ Retire(t) \/ RetireEnd(t)

Spec == Init /\ [][Next]_vars

-----------------------------------------------------------------------------
(* What a read of a group column finds where the table sends it is what    *)
(* was written there last, if that member is trusted with the row: through *)
(* every order of failures, arming, population, copy, retirement and       *)
(* assembly.                                                               *)
ReadsFollowTheWrites ==
  \A r \in RowSet, c \in Columns : Readable(ReadFrom(r, c), r) => cell[ReadFrom(r, c)][r] = Current(r, c)

(* A finished population restores redundancy: a row misses no more columns *)
(* than there are disks out whose assignment is not populated.  Chains     *)
(* count: the spare of one failed disk may be on another.                  *)
PopulatedIsRedundant ==
  \A r \in RowSet, g \in 0..(Groups - 1) :
    Cardinality({c \in GroupOf(g * G) : ~Readable(ReadFrom(r, c), r)})
      <= Cardinality({d \in Out : \A i \in DOMAIN asg : ~(asg[i].disk = d /\ asg[i].state = "populated")})
===============================================================================
