-------------------------- MODULE SettingsDocument --------------------------
(***************************************************************************)
(* The signing settings document of nearxd and what each mutating request  *)
(* makes of it (src/bin/nearxd/settings.rs and its callers in broker.rs,   *)
(* signing.rs and hardware_wallet.rs).  Pure operators: module             *)
(* AtomicSettings says when they take effect, SettingsStore how.           *)
(***************************************************************************)
EXTENDS Naturals

CONSTANTS
    Keys,      \* the (network, account, public key) triples of the key index
    Labels,    \* labels after trim and length check
    NoLabel,   \* label: None
    Absent,    \* the index has no record of a key
    Accounts,  \* accounts of the staking watchlist
    Prefs,     \* values of the "preferences" section
    NoPrefs,   \* the document has no such section
    Scalar,    \* a JSON value that is not an object
    RawDocs,   \* documents that set_signing_settings is called with
    Requests   \* the mutating requests that clients send

\* last_seen_at_ms, counted in spans of more than SIGNING_KEY_PRUNE_AFTER_MS;
\* 0 is the default of a record that does not have the field.
Record == [label : Labels \cup {NoLabel}, seen : Nat]

Doc == [keys  : [Keys -> Record \cup {Absent}],
        hw    : SUBSET Keys,
        watch : SUBSET Accounts,
        prefs : Prefs \cup {NoPrefs}]

EmptyDoc == [keys |-> [k \in Keys |-> Absent], hw |-> {}, watch |-> {}, prefs |-> NoPrefs]

Op == [kind : {"label"}, key : Keys, label : Labels \cup {NoLabel}]
      \cup [kind : {"index"}, keys : SUBSET Keys]
      \cup [kind : {"connect"}, key : Keys]
      \cup [kind : {"watch", "unwatch"}, account : Accounts]
      \cup [kind : {"prefs"}, prefs : Prefs]
      \cup [kind : {"raw"}, doc : RawDocs]

ASSUME DocAssumption ==
    /\ NoLabel \notin Labels
    /\ NoPrefs \notin Prefs
    /\ Absent \notin Record
    /\ Scalar \notin Doc
    /\ RawDocs \subseteq Doc \cup {Scalar}
    /\ Requests \subseteq Op

\* A read-modify-write starts from {} when there is no object to start from.
Object(d) == IF d \in Doc THEN d ELSE EmptyDoc

\* is_index_record_prunable
Prunable(r, y) == r # Absent /\ r.seen # 0 /\ r.seen < y

Kept(d, k, y) == IF Prunable(d.keys[k], y) THEN Absent ELSE d.keys[k]

\* A record that is merged into the one the index has: a missing label is
\* taken from the old record, and last_seen_at_ms never goes back.
Merged(old, l, y) ==
    [label |-> IF l = NoLabel /\ old # Absent THEN old.label ELSE l,
     seen  |-> IF old # Absent /\ old.seen > y THEN old.seen ELSE y]

\* upsert_signing_key_index: nothing to update, nothing pruned.
UpsertKeys(d, ks, l, y) ==
    IF ks = {} THEN d
    ELSE [d EXCEPT !.keys =
            [k \in Keys |-> IF k \in ks THEN Merged(Kept(d, k, y), l, y)
                                        ELSE Kept(d, k, y)]]

\* upsert_staking_watchlist_entry: an entry of the account is replaced by the new one.
WithEntry(d, a) == [d EXCEPT !.watch = @ \cup {a}]

WithoutEntry(d, a) == [d EXCEPT !.watch = @ \ {a}]

\* upsert_hardware_wallet_index, of one key.
WithWallet(d, k) == [d EXCEPT !.hw = @ \cup {k}]

WithPreferences(d, p) == [d EXCEPT !.prefs = p]

\* The document a request stores when the file holds d and it is year y.
Apply(o, d, y) ==
    CASE o.kind = "label"   -> UpsertKeys(Object(d), {o.key}, o.label, y)
      [] o.kind = "index"   -> UpsertKeys(Object(d), o.keys, NoLabel, y)
      [] o.kind = "connect" ->
            UpsertKeys(WithWallet(Object(d), o.key), {o.key}, NoLabel, y)
      [] o.kind = "watch"   -> WithEntry(Object(d), o.account)
      [] o.kind = "unwatch" -> WithoutEntry(Object(d), o.account)
      [] o.kind = "prefs"   -> WithPreferences(Object(d), o.prefs)
      [] o.kind = "raw"     -> o.doc
=============================================================================
