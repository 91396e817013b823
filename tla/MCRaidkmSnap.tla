---------------------------- MODULE MCRaidkmSnap ----------------------------
(***************************************************************************)
(* Small instances of RaidkmSnap.                                          *)
(***************************************************************************)
EXTENDS RaidkmSnap, TLC

Budget(w, d, c, e) ==
  [reads |-> TRUE, whole |-> BOOLEAN,
   writes |-> w, discards |-> d, commands |-> c, errors |-> e]
WithoutReads(budgets) == {[b EXCEPT !.reads = FALSE] : b \in budgets}

\* Two writes across three commands; one write against failures, and against a
\* discard; two writes and a failure.
Mixed == {Budget(2, 0, 3, 0), Budget(1, 0, 3, 1), Budget(1, 1, 2, 0), Budget(2, 0, 1, 1)}

\* A write for every copy and one more.
Crowd ==
  WithoutReads({[Budget(3, 0, 1, 0) EXCEPT !.whole = {FALSE}],
                [Budget(2, 0, 1, 1) EXCEPT !.whole = {FALSE}], Budget(1, 1, 2, 0)})

Symmetric == Permutations(Requests)
=============================================================================
