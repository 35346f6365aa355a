------------------------ MODULE MCKeychainCredentials ------------------------
(***************************************************************************)
(* Instances of KeychainCredentials for TLC.  Two connections interleave   *)
(* imports with and without overwrite, of both protections, saved in the   *)
(* index or not, with the other requests, whether the key is also in a     *)
(* credential file or in an item of the account.                           *)
(***************************************************************************)
EXTENDS KeychainCredentials, TLC

CONSTANTS c1, c2

MCConns    == {c1, c2}

Import(b, o, s) == [op |-> "import", source |-> "legacy_file", biometry |-> b,
                    overwrite |-> o, persist |-> TRUE, save |-> s]
MCRequests ==
    {Import(TRUE, FALSE, TRUE), Import(TRUE, TRUE, TRUE), Import(FALSE, TRUE, FALSE),
     [Import(TRUE, FALSE, TRUE) EXCEPT !.persist = FALSE],
     [op |-> "reprotect"], [op |-> "get"],
     [op |-> "sign", explicit |-> TRUE], [op |-> "sign", explicit |-> FALSE]}

MCSymmetry == Permutations(MCConns)
=============================================================================
