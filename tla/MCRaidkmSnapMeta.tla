---------------------------- MODULE MCRaidkmSnapMeta ----------------------------
(*****************************************************************************)
(* Two members and a ring of four pages, under mixes of redirects, commands, *)
(* checkpoints and power failures.                                           *)
(*****************************************************************************)
EXTENDS RaidkmSnapMeta

\* Redirects, writes in place, users' flushes; creates, destroys,
\* checkpoints; power failures, members lost and added; a member's failure that the
\* superblocks learn of late.
Bd(cw, w, fl, cr, de, ck, x, lo, ad, la) ==
  [cows |-> cw, writes |-> w, flushes |-> fl, creates |-> cr, destroys |-> de,
   ckpts |-> ck, crashes |-> x, lost |-> lo, adds |-> ad, late |-> la]

MCBudgets == {
  Bd(1, 1, 1, 1, 0, 0, 1, 1, 0, FALSE),
  Bd(1, 1, 1, 1, 1, 0, 1, 0, 0, FALSE),
  Bd(1, 0, 0, 1, 0, 0, 2, 1, 0, FALSE),
  Bd(1, 0, 0, 1, 0, 0, 1, 1, 1, FALSE),
  Bd(1, 1, 1, 1, 0, 0, 0, 1, 1, FALSE),
  Bd(4, 0, 0, 1, 0, 0, 1, 0, 0, FALSE),
  Bd(1, 0, 0, 1, 0, 1, 2, 0, 0, FALSE),
  Bd(1, 0, 0, 1, 0, 0, 0, 1, 0, TRUE)}
=============================================================================
