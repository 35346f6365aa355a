------------------------------ MODULE TxFilter ------------------------------
(***************************************************************************)
(* The filter of the explorer's lists (src/filter.rs): what a query is     *)
(* compiled to and which transactions it lets through.                     *)
(*                                                                         *)
(* Query and columns are lower-cased before they are compared: a text here *)
(* stands for all its spellings.  A query is a sequence of tokens          *)
(* [key, values]: what stands before the first colon of a word, and the    *)
(* values between commas behind it that are not blank; the key of a word   *)
(* without a colon is Bare, and it has one value.                          *)
(***************************************************************************)
EXTENDS Sequences

CONSTANTS
    Bare,               \* the key of a word without a colon
    Within(_, _),       \* is the second text a part of the first?
    Looks(_),           \* what a bare word looks like: "hash", "acct" or "free"
    Joined(_, _)        \* a key and a value with the colon between them

Fields == {"signer", "receiver", "acct", "action", "method", "raw", "hash", "free"}

\* push: any other key is free text, colon and all.
FieldOf(key) ==
    CASE key \in {"acct", "account"}              -> "acct"
      [] key \in {"receiver", "rcv"}              -> "receiver"
      [] key \in {"hash", "tx", "txn", "transaction"} -> "hash"
      [] key \in {"signer", "action", "method", "raw"} -> key
      [] OTHER                                    -> "free"

Added(tok, field) ==
    CASE tok.key = Bare -> {v \in tok.values : Looks(v) = field}
      [] tok.key # Bare /\ FieldOf(tok.key) # field -> {}
      [] tok.key # Bare /\ FieldOf(tok.key) = field ->
            IF field = "free" THEN {Joined(tok.key, v) : v \in tok.values} ELSE tok.values

CompileFilter(query) ==
    [field \in Fields |-> UNION {Added(query[i], field) : i \in DOMAIN query}]

IsEmpty(f) == \A field \in Fields : f[field] = {}

\* Nothing asked for, or one of the values is in one of the texts.
AnyIn(values, texts) == values = {} \/ \E v \in values, x \in texts : Within(x, v)

\* tx_matches_filter: free text is looked for in signer, receiver, hash and
\* method names, joined by blanks, which no value has.
TxMatchesFilter(tx, f) ==
    \/ IsEmpty(f)
    \/ /\ AnyIn(f.acct, {tx.signer}) \/ AnyIn(f.acct, {tx.receiver})
       /\ AnyIn(f.signer, {tx.signer})
       /\ AnyIn(f.receiver, {tx.receiver})
       /\ AnyIn(f.action, tx.actions)
       /\ AnyIn(f.method, tx.methods)
       /\ AnyIn(f.raw, tx.raw)
       /\ AnyIn(f.hash, {tx.hash})
       /\ AnyIn(f.free, {tx.signer, tx.receiver, tx.hash} \cup tx.methods)

\* What App hands to it of a row's transaction: the actions are left out, so
\* that a filter on actions or methods lets nothing through.  The raw text is
\* that of the JSON, given by its names and values.
Listed(tx) ==
    [hash |-> tx.hash, signer |-> tx.signer, receiver |-> tx.receiver,
     actions |-> {}, methods |-> {},
     raw |-> {"hash", "signer_id", "receiver_id", tx.hash, tx.signer, tx.receiver}]
=============================================================================
