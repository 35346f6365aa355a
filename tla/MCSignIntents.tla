--------------------------- MODULE MCSignIntents ---------------------------
(***************************************************************************)
(* An instance of SignIntents for TLC: two connections and two intents     *)
(* whose requested lifetime is clamped.                                    *)
(***************************************************************************)
EXTENDS SignIntents

CONSTANTS c1, c2, i1, i2

MCConns == {c1, c2}
MCIds   == {i1, i2}
=============================================================================
