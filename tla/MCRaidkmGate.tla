---------------------------- MODULE MCRaidkmGate ----------------------------
(***************************************************************************)
(* Small instances of RaidkmGate: k+m, the parity rotating.                *)
(***************************************************************************)
EXTENDS RaidkmGate, TLC

G21 == [n |-> 3, m |-> 1, rot |-> TRUE]
G31 == [n |-> 4, m |-> 1, rot |-> TRUE]

Symmetric == Permutations(Requests)
=============================================================================
