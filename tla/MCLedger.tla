------------------------------ MODULE MCLedger ------------------------------
(***************************************************************************)
(* Bounds for Ledger: two threads, two devices with a key at each of two   *)
(* paths, a transaction of one chunk and one of three, and an account      *)
(* has one of the keys.                                                    *)
(***************************************************************************)
EXTENDS Ledger

CONSTANTS d1, d2, p1, p2, short, long, alice

MCKeyOf == [s \in Seeds |-> [p \in Paths |-> <<s, p>>]]
MCAccounts == {alice}
MCOnChain == [a \in MCAccounts |-> {<<d1, p1>>}]
MCSize == [t \in Txs |-> IF t = short THEN 1 ELSE 3]
=============================================================================
