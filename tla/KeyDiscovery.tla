---------------------------- MODULE KeyDiscovery ----------------------------
(***************************************************************************)
(* Which signing keys nearxd lists, from which sources it says they can be *)
(* read, and from which source it then signs (build_signing_keys and       *)
(* resolve_signing_credential in src/bin/nearxd/signing.rs, with           *)
(* credentials.rs and rpc.rs, on macOS).                                   *)
(*                                                                         *)
(* A listing reads the settings and the credential files at its start,     *)
(* asks the node about one account after the other, and probes the         *)
(* Keychain in between, while imports, Ledger connections and near-cli     *)
(* change what it has read and what it is about to read.  The probes that  *)
(* follow one answer of the node are one step, and so are those of the     *)
(* final pass over the index.                                              *)
(***************************************************************************)
EXTENDS Naturals, FiniteSets

CONSTANTS
    Networks, Accounts, Keys,
    Items,       \* the keys of the instance: <<network, account, key>>
    FullAccess,  \* the public keys that are full-access keys where they are on chain
    Signers,     \* accounts that accounts.json calls used_as_signer
    CliItems,    \* ... those that near-cli may keep in the Keychain
    FileItems,   \* ... those that a credential file may hold
    Older,       \* ... those that an older Keychain item, one per account, may hold
    PrefetchOver,\* 8: above so many access keys near-cli's items are enumerated
    MaxChanges,  \* bound: changes by others and failed readings
    NoRecord, NoRow

Sources == {"nearxd_keychain", "near_cli_secure", "legacy_file", "hardware_wallet"}
Software == Sources \ {"hardware_wallet"}

ASSUME DiscoveryAssumption ==
    /\ Items \subseteq Networks \X Accounts \X Keys
    /\ FullAccess \subseteq Keys
    /\ Signers \subseteq Accounts
    /\ CliItems \cup FileItems \cup Older \subseteq Items
    /\ \A i, j \in Older : i[1] = j[1] /\ i[2] = j[2] => i = j
    /\ {PrefetchOver, MaxChanges} \subseteq Nat
    /\ NoRow \notin [account : Accounts, key : Keys, sources : SUBSET Sources,
                     wallet : BOOLEAN, full : BOOLEAN]

VARIABLES
    chain,    \* the access keys the node answers with: the network is not asked about
    own,      \* keys with an item of their own in the nearxd Keychain
    older,    \* keys in an older item, named after their account only
    cli,      \* keys that near-cli keeps in the Keychain
    files,    \* keys in the credential files of their network's directory
    index,    \* the signing key index: is it a Ledger key, is the record prunable?
    ledger,   \* the hardware wallet index
    pc,
    asked,    \* the network of the listing
    seen,     \* what its start has read: the files, the index, the wallets and
              \* the accounts; what could not be read; are these all accounts?
    todo,     \* accounts left
    account,  \* the account being built
    rows,     \* the keys found
    nodeUp,   \* accounts for which the node answered
    unlisted, \* accounts for which near-cli's items could not be enumerated
    last,     \* the last signature asked for, or NoRow
    ever,     \* history: the sources that held a key at some time since the start
    always,   \* history: ... and all the time
    changes

stores == <<chain, own, older, cli, files, index, ledger>>
listing == <<pc, asked, seen, todo, account, rows, nodeUp, unlisted>>
history == <<ever, always>>
vars == <<stores, listing, last, history, changes>>

Live(i) == index[i] # NoRecord /\ ~index[i].old
Held ==
    {<<"nearxd_keychain", i>> : i \in own} \cup {<<"near_cli_secure", i>> : i \in cli}
    \cup {<<"legacy_file", i>> : i \in files}
    \cup {<<"hardware_wallet", i>> : i \in {j \in Items : Live(j) /\ index[j].hardware}}
    \cup {<<"index", i>> : i \in {j \in Items : Live(j)}}
    \cup {<<"chain", i>> : i \in {j \in Items : <<j[2], j[3]>> \in chain}}

Init ==
    /\ chain \in SUBSET {<<i[2], i[3]>> : i \in Items}
    /\ cli \in SUBSET CliItems
    /\ files \in SUBSET FileItems
    /\ own = {} /\ ledger = {}
    /\ older \in SUBSET Older
    /\ index = [i \in Items |-> NoRecord]
    /\ pc = "idle" /\ todo = {}
    /\ asked = (CHOOSE n \in Networks : TRUE) /\ account = (CHOOSE a \in Accounts : TRUE)
    /\ seen = [accounts |-> {}, complete |-> FALSE, files |-> {}, live |-> {}, hardware |-> {},
               wallets |-> {}, unread |-> {}]
    /\ rows = {} /\ nodeUp = {} /\ unlisted = {}
    /\ last = NoRow
    /\ ever = Held /\ always = Held
    /\ changes = 0
-----------------------------------------------------------------------------
Item(a, k) == <<asked, a, k>>
KeysOf(a, set) == {k \in Keys : Item(a, k) \in set}

\* Enumerated by the accounts that name the items, the older ones included.
KeychainAccounts(n) == {i[2] : i \in {j \in own \cup older : j[1] = n}}

IndexedFor(n) == {i \in Items : i[1] = n /\ Live(i)}

FilesOf(n) == {i \in files : i[1] = n}

\* Faulty variant: the index names no accounts.
DiscoveredUnindexed(n, read, failed) ==
    {i[2] : i \in read}
    \cup (IF "accounts" \in failed THEN {} ELSE Signers)
    \cup (IF "keychain" \in failed THEN {} ELSE KeychainAccounts(n))

\* discover_signing_accounts, with a reading of the directory of its own:
\* near-cli's own items are not enumerated for it.
DiscoveredAccounts(n, read, failed) ==
    {i[2] : i \in read}
    \cup (IF "accounts" \in failed THEN {} ELSE Signers)
    \cup (IF "keychain" \in failed THEN {} ELSE KeychainAccounts(n))
    \cup (IF "settings" \in failed THEN {} ELSE {i[2] : i \in IndexedFor(n)})

\* What is read at the start: files, index and wallets, and the accounts that
\* are listed.  What cannot be read counts as empty: a credential file, its
\* directory or all of them (one nested directory that vanishes is enough), the
\* settings, and for the accounts also accounts.json and the Keychain.
Snapshot(n, read, failed, accounts, complete) ==
    LET records == IF "settings" \in failed THEN {} ELSE IndexedFor(n) IN
    [accounts |-> accounts,
     complete |-> complete,
     unread   |-> (failed \cap {"settings"}) \cup (IF read = FilesOf(n) THEN {} ELSE {"files"}),
     files    |-> read,
     live     |-> records,
     hardware |-> {i \in records : index[i].hardware},
     wallets  |-> IF "settings" \in failed THEN {} ELSE ledger]

\* list_near_signing_keys: for one account, or for all that are found.
ListKeys ==
    /\ pc \in {"idle", "listed"}
    /\ \E n \in Networks, failed \in SUBSET {"accounts", "keychain", "settings"} :
       \E read \in SUBSET FilesOf(n), again \in SUBSET FilesOf(n) :
          /\ changes' = changes + Cardinality(failed) + Cardinality({read, again} \ {FilesOf(n)})
          /\ changes' <= MaxChanges
          /\ asked' = n
          /\ \/ \E a \in Accounts : seen' = Snapshot(n, read, failed, {a}, FALSE)
             \/ seen' = Snapshot(n, read, failed, DiscoveredAccounts(n, again, failed),
                                 failed = {} /\ again = FilesOf(n))
    /\ todo' = seen'.accounts
    /\ pc' = IF todo' = {} THEN "listed" ELSE "account"
    /\ rows' = {} /\ nodeUp' = {} /\ unlisted' = {}
    /\ last' = NoRow
    /\ ever' = Held /\ always' = Held
    /\ UNCHANGED <<stores, account>>

\* hardware_by_key: the network of a wallet's record is not looked at.
WalletOf(a, k) == \E n \in Networks : <<n, a, k>> \in seen.wallets

\* preferred_source_from_set.
Preferred(sources) ==
    CASE "nearxd_keychain" \in sources -> "nearxd_keychain"
      [] "nearxd_keychain" \notin sources /\ "near_cli_secure" \in sources -> "near_cli_secure"
      [] sources \cap {"nearxd_keychain", "near_cli_secure"} = {} /\ "legacy_file" \in sources
            -> "legacy_file"
      [] sources = {"hardware_wallet"} -> "hardware_wallet"
      [] sources = {} -> "none"

\* merge_indexed_hardware_source.
IndexedWallet(i) == IF i \in seen.hardware THEN {"hardware_wallet"} ELSE {}

\* Faulty variant: an older item counts for every key of its account.
SourcesOfUnscoped(a, k, inCli) ==
    LET i == <<asked, a, k>> IN
    (IF i \in own \/ \E j \in older : j[1] = asked /\ j[2] = a THEN {"nearxd_keychain"} ELSE {})
    \cup (IF inCli THEN {"near_cli_secure"} ELSE {})
    \cup (IF i \in seen.files THEN {"legacy_file"} ELSE {})
    \cup IndexedWallet(i)

\* The sources of a key; inCli: is it among near-cli's items, as far as known?
SourcesOf(a, k, inCli) ==
    LET i == Item(a, k) IN
    (IF i \in own THEN {"nearxd_keychain"} ELSE {})
    \cup (IF inCli THEN {"near_cli_secure"} ELSE {})
    \cup (IF i \in seen.files THEN {"legacy_file"} ELSE {})
    \cup IndexedWallet(i)

Row(a, k, sources, full) ==
    [account |-> a, key |-> k, sources |-> sources, wallet |-> WalletOf(a, k), full |-> full]

OnChain(a) == {k \in Keys : <<a, k>> \in chain}

\* The node answers: a row for every access key, held somewhere or not.
NodeAnswers(a) ==
    LET many == Cardinality(OnChain(a)) > PrefetchOver IN
    \E enumerated \in BOOLEAN :
        /\ rows' = rows \cup {Row(a, k, SourcesOf(a, k, Item(a, k) \in cli /\ (many => enumerated)),
                                  k \in FullAccess) : k \in OnChain(a)}
        /\ nodeUp' = nodeUp \cup {a}
        /\ unlisted' = IF many /\ ~enumerated THEN unlisted \cup {a} ELSE unlisted

\* It does not: the keys that near-cli's items name.
NodeFails(a) ==
    \E enumerated \in BOOLEAN :
        /\ rows' = rows \cup {Row(a, k, SourcesOf(a, k, TRUE), FALSE) :
                                 k \in IF enumerated THEN KeysOf(a, cli) ELSE {}}
        /\ unlisted' = IF enumerated THEN unlisted ELSE unlisted \cup {a}
        /\ UNCHANGED nodeUp

FetchAccount ==
    /\ pc = "account"
    /\ \E a \in todo :
          /\ account' = a
          /\ NodeAnswers(a) \/ NodeFails(a)
    /\ pc' = "merge"
    /\ UNCHANGED <<stores, asked, seen, todo, last, history, changes>>

\* What the pass over the index makes of a row that is there already: the
\* Keychain is probed again.
Refreshed(r) ==
    IF Item(r.account, r.key) \notin seen.live THEN r
    ELSE [r EXCEPT !.sources = SourcesOf(r.account, r.key, Item(r.account, r.key) \in cli)]

\* Faulty variant: the keys of the credential files are not added.
MergedIndexOnly(a) ==
    LET there == {r.key : r \in {q \in rows : q.account = a}} IN
    {IF r.account = a THEN Refreshed(r) ELSE r : r \in rows}
    \cup {Row(a, k, SourcesOf(a, k, Item(a, k) \in cli), FALSE) :
             k \in KeysOf(a, seen.live) \ there}

\* The keys of the credential files and of the index that have no row yet.
Merged(a) ==
    LET there == {r.key : r \in {q \in rows : q.account = a}} IN
    {IF r.account = a THEN Refreshed(r) ELSE r : r \in rows}
    \cup {Row(a, k, SourcesOf(a, k, Item(a, k) \in cli), FALSE) :
             k \in KeysOf(a, seen.files \cup seen.live) \ there}

MergeAccount ==
    /\ pc = "merge"
    /\ rows' = Merged(account)
    /\ todo' = todo \ {account}
    /\ pc' = IF todo' = {} THEN "listed" ELSE "account"
    /\ UNCHANGED <<stores, asked, seen, account, nodeUp, unlisted, last, history, changes>>
-----------------------------------------------------------------------------
\* Can source s give the key?  nearxd's own store falls back to the older item.
Gives(s, i) ==
    CASE s = "nearxd_keychain" -> i \in own \cup older
      [] s = "near_cli_secure" -> i \in cli
      [] s = "legacy_file"     -> i \in files

\* resolve_signing_credential goes through the sources in this order.
Order == <<"nearxd_keychain", "near_cli_secure", "legacy_file">>
FirstOf(willing) ==
    IF willing = {} THEN "none"
    ELSE Order[CHOOSE n \in 1..3 : Order[n] \in willing
                                   /\ \A m \in 1..(n - 1) : Order[m] \notin willing]

\* A credential read from the older item is copied into an item of the key.
Signed(r, a, k, source, refused) ==
    /\ last' = [row |-> r, account |-> a, key |-> k, source |-> source,
                clean |-> ~refused /\ ever = always]
    /\ UNCHANGED <<chain, older, cli, files, index, ledger, listing, changes>>
    /\ \/ UNCHANGED <<own, ever, always>>
       \/ /\ source = "nearxd_keychain" /\ Item(a, k) \in older
          /\ own' = own \cup {Item(a, k)}
          /\ ever' = ever \cup Held' /\ always' = always \cap Held'

\* hardware_wallet_record_for_key: the wallet that is recorded for the network.
WalletSigns(i) == IF i \in ledger THEN "hardware_wallet" ELSE "none"

\* The page signs with a listed key.  A key with a wallet is signed by the
\* wallet that is recorded for the network; any other by the first source that
\* gives it, passing over a prompt that is refused and files that cannot be read.
SignListed ==
    /\ pc = "listed" /\ last = NoRow
    /\ \E r \in rows, refused \in SUBSET Software :
          LET i == Item(r.account, r.key) IN
          Signed(r, r.account, r.key,
                 IF r.wallet THEN WalletSigns(i)
                 ELSE FirstOf({s \in Software \ refused : Gives(s, i)}),
                 refused # {})

\* Faulty variant: the candidates are tried in the order of the node's answer.
PickAny(givers) == givers

\* Among the candidates, full-access keys are tried first in every source.
Pick(givers) == IF givers \cap FullAccess # {} THEN givers \cap FullAccess ELSE givers

\* A client that names no key: the older item is read first, whatever key it
\* holds; then the candidates are tried, source by source: the node's, or what
\* could be enumerated of near-cli's.  Without any candidate the first key of the
\* files is taken.  What is refused or cannot be read is passed over, so any key
\* that a source gives may be the one.
SignAny ==
    /\ pc \in {"idle", "listed"} /\ last = NoRow
    /\ \E a \in Accounts, nodeAnswers, enumerated \in BOOLEAN :
          LET candidates == IF nodeAnswers THEN OnChain(a)
                            ELSE IF enumerated THEN KeysOf(a, cli) ELSE {}
              givers(s) == IF s = "legacy_file" /\ candidates = {} THEN KeysOf(a, files)
                           ELSE {k \in candidates : Gives(s, Item(a, k))}
              first(s, k) == /\ KeysOf(a, older) = {}
                             /\ s = FirstOf({q \in Software : givers(q) # {}})
                             /\ candidates = {} \/ k \in Pick(givers(s))
          IN \/ \E k \in KeysOf(a, older) : Signed(NoRow, a, k, "nearxd_keychain", ~nodeAnswers)
             \/ \E s \in Software : \E k \in givers(s) :
                   Signed(NoRow, a, k, s, ~ (nodeAnswers /\ first(s, k)))
-----------------------------------------------------------------------------
\* upsert_signing_key_index: sources are merged, a prunable record counts for nothing.
Upserted(i, hardware) ==
    [j \in Items |->
        CASE j = i -> [hardware |-> hardware \/ (Live(i) /\ index[i].hardware), old |-> FALSE]
          [] j # i -> IF Live(j) THEN index[j] ELSE NoRecord]

\* import_near_signing_keys and connect_hardware_wallet on other connections.
ImportKey(i) ==
    /\ i \in cli \cup files
    /\ own' = own \cup {i}
    /\ index' = Upserted(i, FALSE) \/ UNCHANGED index
    /\ UNCHANGED <<chain, older, cli, files, ledger>>

ConnectLedger(i) ==
    /\ <<i[2], i[3]>> \in chain
    /\ ledger' = ledger \cup {i}
    /\ index' = Upserted(i, TRUE)
    /\ UNCHANGED <<chain, own, older, cli, files>>

\* A year passes without a look at the key.
RecordAges(i) ==
    /\ Live(i)
    /\ index' = [index EXCEPT ![i].old = TRUE]
    /\ UNCHANGED <<chain, own, older, cli, files, ledger>>

Toggled(set, x) == IF x \in set THEN set \ {x} ELSE set \cup {x}

\* near-cli, the Keychain's own application, and transactions on the chain.
OutsideChange(i) ==
    \/ i \in CliItems /\ cli' = Toggled(cli, i)
       /\ UNCHANGED <<chain, own, older, files, index, ledger>>
    \/ i \in FileItems /\ files' = Toggled(files, i)
       /\ UNCHANGED <<chain, own, older, cli, index, ledger>>
    \/ i \in own /\ own' = own \ {i}
       /\ UNCHANGED <<chain, older, cli, files, index, ledger>>
    \/ chain' = Toggled(chain, <<i[2], i[3]>>)
       /\ UNCHANGED <<own, older, cli, files, index, ledger>>

Change ==
    /\ changes < MaxChanges
    /\ \E i \in Items : ImportKey(i) \/ ConnectLedger(i) \/ RecordAges(i) \/ OutsideChange(i)
    /\ ever' = ever \cup Held'
    /\ always' = always \cap Held'
    /\ changes' = changes + 1
    /\ last' = NoRow
    /\ UNCHANGED listing

Next == ListKeys \/ FetchAccount \/ MergeAccount \/ SignListed \/ SignAny \/ Change

Spec == Init /\ [][Next]_vars
-----------------------------------------------------------------------------
HeldBy(pairs, i) == {s \in Sources : <<s, i>> \in pairs}

\* The sources that the listing may be silent about, for one account.
Excused(a) ==
    (IF "files" \in seen.unread THEN {"legacy_file"} ELSE {})
    \cup (IF "settings" \in seen.unread THEN {"hardware_wallet"} ELSE {})
    \cup (IF a \in unlisted THEN {"near_cli_secure"} ELSE {})

\* However the stores change while a listing runs, and whether the node answers
\* or not: a source that is listed for a key held it at some time since the
\* listing began, and a source that held it all the time is listed, unless a
\* failure to read it was swallowed: a credential file or directory, the
\* settings, or near-cli's items.
SourcesAreTrue ==
    pc = "listed" => \A r \in rows :
        LET i == Item(r.account, r.key) IN
        /\ r.sources \subseteq HeldBy(ever, i)
        /\ HeldBy(always, i) \subseteq r.sources \cup Excused(r.account)

\* The accounts a listing is for: the one that was asked for, or, when all that
\* names them could be read, all that left a trace.
ListedFor(a) ==
    \/ a \in seen.accounts
    \/ /\ seen.complete
       /\ \/ a \in Signers
          \/ \E i \in Items :
                /\ i[1] = asked /\ i[2] = a
                /\ \/ i \in older
                   \/ \E s \in {"nearxd_keychain", "legacy_file", "index"} : <<s, i>> \in always

\* No key of an account that the listing is for is missing if one of these had
\* it all the time and could be read: the credential files, the index, the
\* chain, or near-cli's items when the node did not answer.  (So with the node
\* down a key that only nearxd's own Keychain holds is listed by its index
\* record, and not without one.)
NoKeyMissing ==
    pc = "listed" => \A i \in Items :
        LET a == i[2] IN
        /\ i[1] = asked /\ ListedFor(a)
        /\ \/ <<"legacy_file", i>> \in always /\ "files" \notin seen.unread
           \/ <<"index", i>> \in always /\ "settings" \notin seen.unread
           \/ a \in nodeUp /\ <<"chain", i>> \in always
           \/ a \notin nodeUp \cup unlisted /\ <<"near_cli_secure", i>> \in always
        => \E r \in rows : Item(r.account, r.key) = i

\* When nothing changed since the listing began, all was read then and now, and
\* no prompt was refused, a listed key signs: from the source that was listed as
\* preferred, or from the older item that the listing does not look at; and a key
\* that is listed with a wallet's source, by that wallet.  Who names no key gets
\* one that is listed with the source that signs, and one with full access if
\* that source has it.
SignsAsListed ==
    pc = "listed" /\ last # NoRow /\ last.clean /\ Excused(last.account) = {} =>
        LET r == last.row
            listed == {q \in rows : q.account = last.account /\ last.source \in q.sources}
        IN /\ r # NoRow /\ "hardware_wallet" \in r.sources => last.source = "hardware_wallet"
           /\ r # NoRow /\ ~r.wallet /\ r.sources # {} =>
                 last.source = Preferred(r.sources)
                 \/ (last.source = "nearxd_keychain" /\ Item(r.account, r.key) \in older)
           /\ r = NoRow /\ last.account \in nodeUp
              /\ Item(last.account, last.key) \notin older =>
                 \E q \in listed : q.key = last.key /\ (q.full \/ \A p \in listed : ~p.full)
=============================================================================
