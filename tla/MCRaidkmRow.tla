----------------------------- MODULE MCRaidkmRow -----------------------------
(* RaidkmRow on a row of two stripes, two data members and one parity. *)
EXTENDS RaidkmRow

Coef1 == [p \in 0..0 |-> [j \in 0..1 |-> 1]]
TwoStripes == 0..1

Bound(w, rw, r, l, f, z, p, st) ==
  [write |-> w, rowwrite |-> rw, read |-> r, lost |-> l, wfaults |-> f, quiesces |-> z,
   pass |-> p, start |-> st, forever |-> FALSE]
Endless(w, p, st) == [Bound(w, 1, 0, 0, 0, 0, p, st) EXCEPT !.forever = TRUE]
\* Two writers and a failure, also more than the parity covers; a read beside a writer and a quiesce; each pass beside
\* a writer and a reader; a writer beside an endless stream of row writes.
Main == {Bound(2,0,0,0,1,0,"none","degraded"), Bound(0,2,0,0,1,0,"none","clean"),
         Bound(1,0,1,0,0,1,"none","degraded"), Bound(0,1,1,0,0,1,"none","degraded"),
         Bound(1,0,0,0,0,1,"recover","rebuilding"), Bound(0,1,0,0,0,1,"recover","rebuilding"),
         Bound(0,0,1,0,0,0,"recover","rebuilding"),
         Bound(1,0,0,0,0,1,"repair","torn"), Bound(0,0,1,0,0,1,"repair","torn"),
         Bound(0,1,0,1,0,0,"none","clean"),
         Bound(1,1,0,0,0,1,"none","clean"), Endless(1,"none","clean")}
=============================================================================
