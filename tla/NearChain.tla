------------------------------ MODULE NearChain ------------------------------
(***************************************************************************)
(* The chain that the block sources read and the explorer shows.  NEAR     *)
(* skips heights: no block is ever found at one that is not in Chain.      *)
(***************************************************************************)
EXTENDS Naturals, FiniteSets

CONSTANT Chain    \* the heights at which a block exists

ASSUME ChainAssumption == Chain \subseteq Nat /\ IsFiniteSet(Chain)
=============================================================================
