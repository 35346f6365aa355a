---------------------------- MODULE MCTokenStore ----------------------------
(***************************************************************************)
(* Instances of TokenStore for TLC: two connections and two tokens, so that*)
(* a stale token can be told from the one just stored.                     *)
(***************************************************************************)
EXTENDS TokenStore, TLC

CONSTANTS c1, c2, t1, t2

MCConns    == {c1, c2}
MCTokens   == {t1, t2}
MCSymmetry == Permutations(MCConns) \cup Permutations(MCTokens)
=============================================================================
