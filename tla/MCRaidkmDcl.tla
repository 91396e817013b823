---------------------------- MODULE MCRaidkmDcl ----------------------------
(*****************************************************************************)
(* The smallest pool with two parities and room for a chain of two           *)
(* assignments, under mixes of writes, failures and commands.                *)
(*****************************************************************************)
EXTENDS RaidkmDcl

\* User writes; disks lost, assignments armed, disks added; journal writes that fail on
\* a member; power failures; members with a write cache; a lost disk that still answers
\* reads; two journal writes at once.  What is added has no journal block.
Bd(w, lo, ar, ad, jf, x, ca, an, ov) ==
  [writes |-> w, lost |-> lo, arms |-> ar, adds |-> ad, jfails |-> jf,
   crashes |-> x, cached |-> ca, answers |-> an, overlap |-> ov, stale |-> FALSE]

MCBudgets == {
  Bd(1, 2, 1, 1, 0, 1, FALSE, FALSE, FALSE),
  Bd(1, 1, 1, 1, 0, 2, FALSE, FALSE, TRUE),
  Bd(1, 1, 1, 1, 1, 0, FALSE, FALSE, TRUE),
  Bd(1, 2, 2, 0, 0, 1, FALSE, FALSE, FALSE),
  Bd(0, 2, 2, 2, 0, 0, FALSE, FALSE, TRUE),
  Bd(2, 1, 1, 1, 0, 1, FALSE, FALSE, FALSE),
  Bd(1, 2, 2, 1, 0, 0, FALSE, FALSE, TRUE),
  Bd(0, 2, 2, 0, 1, 1, FALSE, FALSE, TRUE),
  Bd(0, 1, 1, 1, 2, 0, FALSE, FALSE, TRUE)}

\* The base permutation.
Base5 == <<0,1,2,3,4>>
=============================================================================
