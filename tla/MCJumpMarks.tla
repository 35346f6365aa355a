---------------------------- MODULE MCJumpMarks -----------------------------
(***************************************************************************)
(* An instance of JumpMarks for TLC.  Of the marks: two labels, so that    *)
(* they run out.  Of the search: a height that is received with two        *)
(* transactions and again with one of them, and a newer block that has the *)
(* other one too; the rows are written with their account columns NULL, as *)
(* the explorer's loop writes them.                                        *)
(***************************************************************************)
EXTENDS JumpMarks

CONSTANTS x, y, z

MCLikeText(text, v) == text = v

Tx(h) == [hash |-> h, signer |-> Null, receiver |-> Null, actions |-> Null, raw |-> Null]

MCBlocks == {[height |-> 1, txs |-> {Tx(x), Tx(y)}],
             [height |-> 1, txs |-> {Tx(y)}],
             [height |-> 2, txs |-> {Tx(x), Tx(z)}]}

MCLabels   == <<"1", "2">>
MCContexts == {[pane |-> 0, height |-> 1, tx |-> x]}
MCQueries  == {<<[key |-> "hash", value |-> x]>>,
               <<[key |-> "from", value |-> 2], [key |-> "from", value |-> x]>>}
=============================================================================
