--------------------------- MODULE MCKeyDiscovery ---------------------------
(***************************************************************************)
(* An instance of KeyDiscovery for TLC.  One account has a full-access key *)
(* and another key on one network, the first of them on a second network   *)
(* too (an implicit account has the same name on both); lists of more than *)
(* one access key are looked up by enumeration.  Another account is known  *)
(* to accounts.json, and only the chain can have its key.                  *)
(***************************************************************************)
EXTENDS KeyDiscovery

CONSTANTS main, test, a1, a2, k1, k2

MCNetworks == {main, test}
MCAccounts == {a1, a2}
MCKeys     == {k1, k2}
MCItems    == {<<main, a1, k1>>, <<main, a1, k2>>, <<test, a1, k1>>, <<main, a2, k1>>}
MCFull     == {k1}
MCSigners  == {a2}
MCCli      == {<<main, a1, k1>>, <<main, a1, k2>>}
MCFiles    == {<<main, a1, k1>>}
MCOlder    == {<<main, a1, k2>>}
=============================================================================
