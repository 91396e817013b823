--------------------------- MODULE MCRaidkmStripe ---------------------------
(* RaidkmStripe on small instances: two data blocks, two or three parities. *)
EXTENDS RaidkmStripe

Coef2 == [p \in 0..1 |-> [j \in 0..1 |-> IF p = 0 THEN 1 ELSE j + 1]]
Coef3 == [p \in 0..2 |-> [j \in 0..1 |-> IF p = 0 THEN 1 ELSE (p * j) + 1]]

Bound(w, r, l, m, f, p, c) == [writes |-> w, reads |-> r, lost |-> l, media |-> m,
                               wfaults |-> f, passes |-> p, crashes |-> c, retries |-> 0]
Again(b) == [b EXCEPT !.retries = 1]
\* Two writes and a member; errors under one write; two writes and a crash; passes.
Main == {Bound(2,0,1,0,0,0,0), Bound(1,0,1,1,0,0,0), Bound(1,0,1,0,1,0,0), Bound(1,1,0,3,0,0,0),
         Bound(2,0,0,0,0,0,1), Bound(1,0,1,0,0,0,1), Bound(1,0,0,0,0,1,1), Bound(2,1,0,0,0,0,0),
         Again(Bound(1,0,1,0,0,0,0)), Again(Bound(1,0,0,1,0,0,0)), Again(Bound(2,0,0,0,0,0,0))}
Wide == {Bound(1,1,0,0,0,0,0), Again(Bound(1,0,0,0,0,0,0)), Bound(1,0,0,0,0,1,1), Bound(1,0,0,1,0,1,0), Bound(0,0,1,0,0,1,0)}
\* Two writes and up to two sector errors.
Rewritten == {Bound(2,0,0,1,0,0,0), Bound(2,0,0,2,0,0,0)}
NoSync == {}
AllPasses == {"resync", "recover", "check", "repair"}
Symmetric == Permutations(Requests)
=============================================================================
