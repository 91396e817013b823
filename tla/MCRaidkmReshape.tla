-------------------------- MODULE MCRaidkmReshape --------------------------
(***************************************************************************)
(* Small instances of RaidkmReshape: k+m, the parity rotating.             *)
(***************************************************************************)
EXTENDS RaidkmReshape

G21 == [n |-> 3, m |-> 1, rot |-> TRUE]
G31 == [n |-> 4, m |-> 1, rot |-> TRUE]
G22 == [n |-> 4, m |-> 2, rot |-> TRUE]

Of(old, new, w, c, ft, fl) ==
  [old |-> old, new |-> new, writes |-> w, crashes |-> c, faults |-> ft, fails |-> fl]

MCReshapes == {
  Of(G21, G22, 0, 2, 1, 0), Of(G21, G22, 1, 2, 0, 1), Of(G21, G22, 1, 1, 1, 0),
  Of(G31, G21, 1, 1, 1, 0), Of(G31, G21, 0, 1, 1, 1), Of(G31, G21, 1, 2, 0, 0)}
=============================================================================
