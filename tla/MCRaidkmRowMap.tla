---------------------------- MODULE MCRaidkmRowMap ----------------------------
(*****************************************************************************)
(* Two rows of two stripes, under mixes of both kinds of write with passes,  *)
(* member changes and power failures.                                        *)
(*****************************************************************************)
EXTENDS RaidkmRowMap, TLC

\* Writes through the cache, whole-row writes, discards; members lost (and replaced),
\* power failures, repairs and resyncs, interrupts of a pass; background
\* flushes of a dirty map; an array with a bitmap; a discard that trims the members.
Bd(w, rw, d, l, c, rp, i, lz, b, t) ==
  [write |-> w, rowwrite |-> rw, discard |-> d, lost |-> l, crashes |-> c,
   repairs |-> rp, interrupts |-> i, lazy |-> lz, bitmap |-> b, trim |-> t, outages |-> 0]

\* And all members fail a page at once.
Outage(b) == [b EXCEPT !.outages = 1]

MCBudgets == {
  Bd(1, 1, 1, 0, 0, 0, 0, FALSE, FALSE, FALSE),
  Bd(2, 0, 0, 0, 0, 1, 1, FALSE, FALSE, FALSE),
  Bd(2, 0, 0, 0, 1, 0, 0, FALSE, FALSE, FALSE),
  Bd(1, 0, 0, 1, 1, 0, 0, FALSE, FALSE, FALSE),
  Bd(1, 0, 1, 1, 0, 0, 1, FALSE, FALSE, FALSE),
  Bd(0, 1, 0, 1, 0, 0, 0, FALSE, FALSE, FALSE),
  Bd(2, 0, 0, 0, 1, 0, 0, FALSE, TRUE, FALSE),
  Bd(1, 0, 1, 0, 1, 0, 0, FALSE, TRUE, TRUE),
  Bd(0, 1, 1, 0, 1, 0, 0, FALSE, FALSE, TRUE),
  Bd(1, 0, 1, 0, 1, 0, 0, TRUE, FALSE, FALSE),
  Outage(Bd(2, 0, 0, 0, 1, 0, 0, FALSE, FALSE, FALSE)),
  Outage(Bd(1, 0, 0, 0, 2, 0, 0, FALSE, TRUE, FALSE)),
  Outage(Bd(0, 1, 1, 0, 1, 0, 0, FALSE, FALSE, FALSE))}

Symmetric == Permutations(Writers)
=============================================================================
