----------------------------- MODULE MCExplorer -----------------------------
(***************************************************************************)
(* Explorer with a chain of five heights, one of them without a block.  The*)
(* filter lets blocks 1 and 3 through, by the signer of one transaction and*)
(* the receiver of another; 4 has no transaction, 0 another account's.     *)
(***************************************************************************)
EXTENDS Explorer

MCChain == {0, 1, 3, 4}

Tx(hash, signer, receiver) == [hash |-> hash, signer |-> signer, receiver |-> receiver]
MCTxs == [h \in MCChain |->
            CASE h = 0 -> {Tx("h0", "bob", "bob")}
              [] h = 1 -> {Tx("h1", "alice.near", "bob"), Tx("h2", "bob", "bob")}
              [] h = 3 -> {Tx("h3", "bob", "alice.near")}
              [] h = 4 -> {}]

MCWithin(text, v) == text = v
MCLooks(v) == IF v = "alice.near" THEN "acct" ELSE "free"
MCJoined(k, v) == v
MCFilterQuery == <<[key |-> Bare, values |-> {"alice.near"}], [key |-> "acct", values |-> {"carol"}]>>
=============================================================================
