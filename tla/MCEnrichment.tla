---------------------------- MODULE MCEnrichment ----------------------------
(* Instances of Enrichment for TLC. *)
EXTENDS Enrichment, TLC

CONSTANTS a, b, h1, h2, ing, swp, d1

MCNames     == {a, b}
MCSensitive == {a}
MCHandlers  == {h1, h2}
MCOneHandler == {h1}
MCIngesters == {ing}
MCDeadIds   == {d1}

Symmetry == Permutations(MCHandlers)
=============================================================================
