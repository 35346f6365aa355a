----------------------------- MODULE HistoryDb ------------------------------
(***************************************************************************)
(* The SQLite tables of the terminal explorer and the statements run on    *)
(* them (src/history.rs), as functions of a database value.                *)
(*                                                                         *)
(* A database is [blocks : height -> set of transactions, marks : set of   *)
(* marks]: txs references blocks with ON DELETE CASCADE, and the bundled   *)
(* SQLite enforces it, so that replacing a block drops its transactions.   *)
(* A column that may be NULL is Null here.                                 *)
(***************************************************************************)
EXTENDS Naturals, FiniteSets, SequencesExt

CONSTANTS
    Null,
    LikeText(_, _),     \* is the second text within the first, as LIKE '%v%' has it?
    HitLimit            \* the smaller of the caller's limit and 500

ASSUME HitLimitAssumption == HitLimit \in 1..500

EmptyDb == [blocks |-> [b \in {} |-> {}], marks |-> {}]

\* Faulty variant: the transactions of the block that is replaced are kept.
PersistKeeps(db, b) ==
    LET old == IF b.height \in DOMAIN db.blocks THEN db.blocks[b.height] ELSE {}
    IN  [db EXCEPT !.blocks = [h \in DOMAIN db.blocks \cup {b.height} |->
            IF h = b.height THEN b.txs \cup old ELSE db.blocks[h]]]

\* HistoryMsg::Persist in one transaction: INSERT OR REPLACE of the block, then
\* of its transactions; a hash has one row, wherever it was before.
Persist(db, b) ==
    LET moved == {t.hash : t \in b.txs}
    IN  [db EXCEPT !.blocks = [h \in DOMAIN db.blocks \cup {b.height} |->
            IF h = b.height THEN b.txs
                            ELSE {t \in db.blocks[h] : t.hash \notin moved}]]

\* put_mark_db, del_mark_db, set_mark_pinned_db.
PutMark(db, m) ==
    [db EXCEPT !.marks = {n \in db.marks : n.label # m.label} \cup {m}]

DelMark(db, l) == [db EXCEPT !.marks = {n \in db.marks : n.label # l}]

SetPinned(db, l, p) ==
    [db EXCEPT !.marks = {IF n.label = l THEN [n EXCEPT !.pinned = p] ELSE n : n \in db.marks}]

\* list_marks_db: newest first; SQLite leaves open how equal times are ordered.
ListMarks(db) ==
    {s \in SetToSeqs(db.marks) :
        \A i, j \in DOMAIN s : i < j => s[i].when >= s[j].when}
-----------------------------------------------------------------------------
\* parse_search_query: a query is a sequence of tokens [key, value], words
\* without a known key being free text.  Words add up; of from: and to: the
\* last one counts, and one that is no number takes the limit away.
Words(toks, keys) == {toks[i].value : i \in {j \in DOMAIN toks : toks[j].key \in keys}}

LastOf(toks, key) ==
    LET at == {j \in DOMAIN toks : toks[j].key = key}
        v  == toks[CHOOSE j \in at : \A k \in at : k <= j].value
    IN  IF at = {} \/ v \notin Nat THEN Null ELSE v

ParseQuery(toks) ==
    [signer   |-> Words(toks, {"signer"}),
     receiver |-> Words(toks, {"receiver", "rcv"}),
     acct     |-> Words(toks, {"acct", "account"}),
     method   |-> Words(toks, {"method"}),
     action   |-> Words(toks, {"action"}),
     hash     |-> Words(toks, {"hash"}),
     free     |-> Words(toks, {"free"}),
     from     |-> LastOf(toks, "from"),
     to       |-> LastOf(toks, "to")]

\* LIKE on a column that is NULL is not true.
Like(x, v) == x # Null /\ LikeText(x, v)

AnyLike(x, vs) == vs = {} \/ \E v \in vs : Like(x, v)

\* The WHERE clause.  Free text is looked for in a concatenation of four
\* columns, which is NULL when one of them is.
Matches(height, t, q) ==
    /\ \A a \in q.acct : Like(t.signer, a) \/ Like(t.receiver, a)
    /\ AnyLike(t.signer, q.signer)
    /\ AnyLike(t.receiver, q.receiver)
    /\ AnyLike(t.actions, q.method) /\ AnyLike(t.actions, q.action)
    /\ q.hash = {} \/ t.hash \in q.hash
    /\ q.from = Null \/ height >= q.from
    /\ q.to = Null \/ height <= q.to
    /\ \A f \in q.free :
          /\ Null \notin {t.signer, t.receiver, t.actions}
          /\ \E x \in {t.signer, t.receiver, t.actions, t.hash} : LikeText(x, f)

\* search_db: the newest HitLimit of them, those of a block in some fixed order.
Search(db, toks) ==
    LET q    == ParseQuery(toks)
        hits == UNION {{[height |-> h, hash |-> t.hash] :
                            t \in {u \in db.blocks[h] : Matches(h, u, q)}}
                       : h \in DOMAIN db.blocks}
        list == CHOOSE s \in SetToSeqs(hits) :
                    \A i, j \in DOMAIN s : i < j => s[i].height >= s[j].height
    IN  SubSeq(list, 1, IF Len(list) < HitLimit THEN Len(list) ELSE HitLimit)

\* get_tx_db: the raw JSON of a transaction, Null when there is none.
RawOf(db, hash) ==
    LET rows == {t \in UNION {db.blocks[h] : h \in DOMAIN db.blocks} : t.hash = hash}
    IN  IF rows = {} THEN Null ELSE (CHOOSE t \in rows : TRUE).raw
=============================================================================
