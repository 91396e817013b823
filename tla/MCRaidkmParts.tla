------------------------------ MODULE MCRaidkmParts ------------------------------
(***************************************************************************)
(* Three components that share no state, in one run: a behaviour is the    *)
(* walk over the geometries, one of the checksum cache, or one of the      *)
(* partial parity log.                                                     *)
(***************************************************************************)
EXTENDS RaidkmGeometryCheck

VARIABLE part  \* "geometry", "csum" or "ppl"

CONSTANTS Blocks, PerPage, CacheMax, Discards, CsumBudgets
VARIABLES data, disk, media, page, dirty, pend, shard, landing, writer, disc, trims, seq, unw, unwDisk,
          insync, sb, sync, kept, budget

Csum == INSTANCE RaidkmCsum

csumVars == <<data, disk, media, page, dirty, pend, shard, landing, writer, disc, trims, seq, unw,
              unwDisk, insync, sb, sync, kept, budget>>

CONSTANTS K, M, Q, Coef, Stripes, ParityAt, EntrySpace, RingPages, Losable, PplBudgets
VARIABLES present, cell, pplMedia, ring, next, units, pplSeq, st, resync, pplSb, asm, up, cur, old,
          open, torn, pplBudget

Ppl == INSTANCE RaidkmPpl WITH media <- pplMedia, seq <- pplSeq, sb <- pplSb, budget <- pplBudget

pplVars == <<present, cell, pplMedia, ring, next, units, pplSeq, st, resync, pplSb, asm, up, cur, old,
             open, torn, pplBudget>>

\* The cache: writes, discards, reads that fault, clean stops, power failures; the
\* repairs and rebuilds among the writes ("none", "dirty": on an array that a write has
\* made dirty, "any"); whether a page may be written back under a discard.
Bd(w, d, r, s, c, pass, gap) ==
  [writes |-> w, total |-> w, discards |-> d, reads |-> r, stops |-> s, crashes |-> c, pass |-> pass, gap |-> gap]
MCBudgets == {
  Bd(2, 1, 0, 0, 0, "none", FALSE), Bd(1, 1, 1, 0, 0, "dirty", FALSE), Bd(1, 1, 0, 0, 1, "dirty", FALSE),
  Bd(2, 0, 1, 1, 0, "dirty", FALSE), Bd(1, 1, 0, 0, 2, "none", FALSE), Bd(2, 0, 0, 0, 1, "dirty", FALSE)}
MCDiscards == {<<1, 3>>}

\* The log: writes, members lost, power failures or assemblies that a member's error ends,
\* members added; full writes; members with a write cache; losses that the log cannot mend.
Lg(w, l, c, a, full, cached, hopeless) ==
  [writes |-> w, lost |-> l, crashes |-> c, adds |-> a, full |-> full, cached |-> cached, torn |-> hopeless]
MCPplBudgets == {
  Lg(2, 1, 1, 0, FALSE, FALSE, FALSE), Lg(1, 2, 1, 0, TRUE, FALSE, FALSE), Lg(1, 1, 2, 0, TRUE, FALSE, FALSE),
  Lg(2, 0, 1, 0, TRUE, FALSE, FALSE), Lg(2, 0, 1, 0, FALSE, TRUE, FALSE), Lg(1, 1, 1, 1, FALSE, TRUE, FALSE)}
\* Two parities, and for the findings three.  Stripes 0 and 1 share a log.
Coef2 == [p \in 0..1 |-> [j \in 0..1 |-> IF p = 0 THEN 1 ELSE j + 1]]
Coef3 == [p \in 0..2 |-> [j \in 0..1 |-> IF p = 0 THEN 1 ELSE (p * j) + 1]]
MCParityAt == [s \in 0..2 |-> IF s = 2 THEN 3 ELSE 2]
ApartAt == [s \in 0..2 |-> IF s = 2 THEN 1 ELSE 2]

InitPart ==
  /\ Csum!Init /\ Ppl!Init /\ Init
  /\ part \in {"geometry", "csum", "ppl"}
  /\ part # "geometry" => <<from, to>> = CHOOSE p \in Geometry(3) \X Geometry(4) : Reshapable(p[1], p[2])
  /\ part # "csum" => budget = CHOOSE b \in CsumBudgets : TRUE
  /\ part # "ppl" => pplBudget = CHOOSE b \in PplBudgets : TRUE

WalkStep == part = "geometry" /\ Next /\ UNCHANGED <<part, csumVars, pplVars>>
CsumStep == part = "csum" /\ Csum!Next /\ UNCHANGED <<part, vars, pplVars>>
PplStep == part = "ppl" /\ Ppl!Next /\ UNCHANGED <<part, vars, csumVars>>

PartSpec == InitPart /\ [][WalkStep \/ CsumStep \/ PplStep]_<<part, vars, csumVars, pplVars>>

\* The properties of a component, in its own behaviours.
\* While reads are verified, no block is failed for a CRC that is not its own.
NoGoodBlockFails == part = "csum" => Csum!NoGoodBlockFails

\* A block written on its own stays verified until a discard or a power failure.
WritesStayVerified == part = "csum" => Csum!WritesStayVerified

\* No power failure costs a block that was not being written (partial parity log).
WriteHoleClosed == part = "ppl" => Ppl!WriteHoleClosed

\* An array that the log's recovery leaves clean has no stripe that needs a resync.
CleanIsWhole == part = "ppl" => Ppl!CleanIsWhole
=================================================================================
