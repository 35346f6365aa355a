------------------------- MODULE KeyDiscoveryProofs -------------------------
(***************************************************************************)
(* A listing of signing keys tells the truth about stores that change while*)
(* it is made, and what it listed signs, for every set of networks,        *)
(* accounts and keys and any number of changes.                            *)
(***************************************************************************)
EXTENDS KeyDiscovery, TLAPS

RowType == [account : Accounts, key : Keys, sources : SUBSET Sources,
            wallet : BOOLEAN, full : BOOLEAN]

\* Every key is one of the instance's, and an index record of a Ledger key has
\* its wallet in the hardware wallet index.
StoresOK ==
    /\ own \subseteq Items /\ older \subseteq Items /\ cli \subseteq Items /\ files \subseteq Items
    /\ chain \subseteq {<<i[2], i[3]>> : i \in Items}
    /\ index \in [Items -> {NoRecord} \cup [hardware : BOOLEAN, old : BOOLEAN]]
    /\ \A i \in Items : Live(i) /\ index[i].hardware => i \in ledger

HistoryOK == always \subseteq Held /\ Held \subseteq ever

\* The snapshot lies between what was held all the time and at some time, but
\* for what could not be read, and names the accounts the listing is for.
SeenOK ==
    pc # "idle" =>
        /\ asked \in Networks
        /\ \A i \in seen.files : <<"legacy_file", i>> \in ever
        /\ \A i \in seen.hardware : <<"hardware_wallet", i>> \in ever /\ i \in seen.wallets
        /\ \A i \in Items : i[1] = asked =>
              /\ <<"legacy_file", i>> \in always /\ "files" \notin seen.unread => i \in seen.files
              /\ <<"hardware_wallet", i>> \in always /\ "settings" \notin seen.unread
                    => i \in seen.hardware
              /\ <<"index", i>> \in always /\ "settings" \notin seen.unread => i \in seen.live
        /\ \A a \in Accounts : ListedFor(a) => a \in seen.accounts

\* One row: its sources lie in the same bounds, it has the wallet of the
\* snapshot, and full access only of a key that was on chain.
RowOK(r) ==
    LET i == Item(r.account, r.key) IN
    /\ r \in RowType
    /\ r.sources \subseteq HeldBy(ever, i)
    /\ HeldBy(always, i) \subseteq r.sources \cup Excused(r.account)
    /\ r.wallet = WalletOf(r.account, r.key)
    /\ r.full => /\ r.key \in FullAccess
                 /\ \E j \in Items : /\ j[2] = r.account /\ j[3] = r.key
                                     /\ <<"chain", j>> \in ever

RowsOK == pc # "idle" => \A r \in rows : RowOK(r)

HasRow(a, k) == \E r \in rows : r.account = a /\ r.key = k

\* The account has been built.
Built(a) == a \in seen.accounts \ todo

\* What has been listed so far for the accounts that are built, or being built:
\* the files and the index count once the account is merged.
ListedOK ==
    /\ \A i \in Items :
          /\ i[2] \in nodeUp /\ <<"chain", i>> \in always
          => \E r \in rows : r.account = i[2] /\ r.key = i[3] /\ r.full = (i[3] \in FullAccess)
    /\ \A i \in Items :
          /\ i[1] = asked /\ (Built(i[2]) \/ (pc = "merge" /\ i[2] = account))
          /\ i[2] \notin nodeUp \cup unlisted /\ <<"near_cli_secure", i>> \in always
          => HasRow(i[2], i[3])
    /\ \A i \in Items :
          /\ i[1] = asked /\ Built(i[2])
          /\ \/ <<"legacy_file", i>> \in always /\ "files" \notin seen.unread
             \/ <<"index", i>> \in always /\ "settings" \notin seen.unread
          => HasRow(i[2], i[3])

LoopOK ==
    /\ pc \in {"idle", "account", "merge", "listed"}
    /\ seen.accounts \subseteq Accounts
    /\ todo \cup nodeUp \subseteq seen.accounts
    /\ pc = "merge" => account \in todo
    /\ pc = "listed" => todo = {}
    /\ pc \in {"account", "merge"} => last = NoRow
    /\ pc = "idle" => rows = {} /\ nodeUp = {}

IInv == StoresOK /\ HistoryOK /\ SeenOK /\ RowsOK /\ ListedOK /\ LoopOK /\ SignsAsListed
-----------------------------------------------------------------------------
\* What is held where: every source's pairs are those of its own store.
LEMMA HeldIs ==
    ASSUME NEW i
    PROVE  /\ <<"nearxd_keychain", i>> \in Held <=> i \in own
           /\ <<"near_cli_secure", i>> \in Held <=> i \in cli
           /\ <<"legacy_file", i>> \in Held <=> i \in files
           /\ <<"hardware_wallet", i>> \in Held <=> i \in Items /\ Live(i) /\ index[i].hardware
           /\ <<"index", i>> \in Held <=> i \in Items /\ Live(i)
           /\ <<"chain", i>> \in Held <=> i \in Items /\ <<i[2], i[3]>> \in chain
<1>1. <<"nearxd_keychain", i>> \in Held <=> i \in own
    BY DEF Held
<1>2. <<"near_cli_secure", i>> \in Held <=> i \in cli
    BY DEF Held
<1>3. <<"legacy_file", i>> \in Held <=> i \in files
    BY DEF Held
<1>4. <<"hardware_wallet", i>> \in Held <=> i \in Items /\ Live(i) /\ index[i].hardware
    BY DEF Held
<1>5. <<"index", i>> \in Held <=> i \in Items /\ Live(i)
    BY DEF Held
<1>6. <<"chain", i>> \in Held <=> i \in Items /\ <<i[2], i[3]>> \in chain
    BY DEF Held
<1>. QED  BY <1>1, <1>2, <1>3, <1>4, <1>5, <1>6

\* The sources a row is given lie between those that held the key all the time
\* since the listing began and those that held it at some time: the Keychain is
\* probed now, files and index were read at the start.
LEMMA SourcesBetween ==
    ASSUME StoresOK, HistoryOK, SeenOK, pc # "idle",
           NEW a, NEW k, NEW inCli \in BOOLEAN, inCli => Item(a, k) \in cli
    PROVE  /\ SourcesOf(a, k, inCli) \subseteq HeldBy(ever, Item(a, k))
           /\ \A s \in HeldBy(always, Item(a, k)) :
                 \/ s \in SourcesOf(a, k, inCli)
                 \/ s = "near_cli_secure" /\ ~inCli /\ Item(a, k) \in cli
                 \/ s \in Excused(a)
<1>. DEFINE i == Item(a, k)
<1>1. i[1] = asked
    BY DEF Item
<1>2. ASSUME NEW s \in SourcesOf(a, k, inCli)
      PROVE  s \in Sources /\ <<s, i>> \in ever
    <2>. \/ s = "nearxd_keychain" /\ i \in own
         \/ s = "near_cli_secure" /\ inCli
         \/ s = "legacy_file" /\ i \in seen.files
         \/ s = "hardware_wallet" /\ i \in seen.hardware
        BY <1>2 DEF SourcesOf, IndexedWallet
    <2>. QED  BY HeldIs DEF HistoryOK, SeenOK, Sources
<1>3. ASSUME NEW s \in HeldBy(always, i)
      PROVE  \/ s \in SourcesOf(a, k, inCli)
             \/ s = "near_cli_secure" /\ ~inCli /\ i \in cli
             \/ s \in Excused(a)
    <2>0. <<s, i>> \in always /\ <<s, i>> \in Held
        BY <1>3 DEF HeldBy, HistoryOK
    <2>1. CASE s = "nearxd_keychain"
        BY <2>0, <2>1, HeldIs DEF SourcesOf
    <2>2. CASE s = "near_cli_secure"
        BY <2>0, <2>2, HeldIs DEF SourcesOf
    <2>3. CASE s = "legacy_file"
        <3>1. i \in Items
            BY <2>0, <2>3, HeldIs DEF StoresOK
        <3>2. i \in seen.files \/ "files" \in seen.unread
            BY <2>0, <2>3, <3>1, <1>1 DEF SeenOK
        <3>. QED  BY <2>3, <3>2 DEF SourcesOf, Excused
    <2>4. CASE s = "hardware_wallet"
        <3>1. i \in Items
            BY <2>0, <2>4, HeldIs
        <3>2. i \in seen.hardware \/ "settings" \in seen.unread
            BY <2>0, <2>4, <3>1, <1>1 DEF SeenOK
        <3>. QED  BY <2>4, <3>2 DEF SourcesOf, IndexedWallet, Excused
    <2>5. s \in Sources
        BY <1>3 DEF HeldBy
    <2>. QED  BY <2>1, <2>2, <2>3, <2>4, <2>5 DEF Sources
<1>. QED  BY <1>2, <1>3 DEF HeldBy

\* A row stays right while more is seen of the stores.
LEMMA RowKept ==
    ASSUME UNCHANGED <<asked, seen>>, unlisted \subseteq unlisted',
           ever \subseteq ever', always' \subseteq always, NEW r, RowOK(r)
    PROVE  RowOK(r)'
<1>1. Item(r.account, r.key)' = Item(r.account, r.key)
    BY DEF Item
<1>2. WalletOf(r.account, r.key)' = WalletOf(r.account, r.key)
    BY DEF WalletOf
<1>3. HeldBy(ever, Item(r.account, r.key)) \subseteq HeldBy(ever, Item(r.account, r.key))'
    BY <1>1 DEF HeldBy
<1>4. HeldBy(always, Item(r.account, r.key))' \subseteq HeldBy(always, Item(r.account, r.key))
    BY <1>1 DEF HeldBy
<1>5. r.full => /\ r.key \in FullAccess
                /\ \E j \in Items : /\ j[2] = r.account /\ j[3] = r.key
                                    /\ <<"chain", j>> \in ever'
    BY DEF RowOK
<1>6. Excused(r.account) \subseteq Excused(r.account)'
    BY DEF Excused
<1>. QED  BY <1>2, <1>3, <1>4, <1>5, <1>6 DEF RowOK

\* A new row is right.
LEMMA NewRow ==
    ASSUME StoresOK, HistoryOK, SeenOK, pc # "idle", UNCHANGED <<asked, seen, ever, always>>,
           unlisted \subseteq unlisted',
           NEW a \in Accounts, NEW k \in Keys, NEW inCli \in BOOLEAN, NEW full \in BOOLEAN,
           inCli => Item(a, k) \in cli,
           Item(a, k) \in cli => inCli \/ a \in unlisted',
           full => k \in FullAccess /\ <<a, k>> \in chain,
           NEW r, r = Row(a, k, SourcesOf(a, k, inCli), full)
    PROVE  RowOK(r)'
<1>. DEFINE S == SourcesOf(a, k, inCli)
<1>1. /\ S \subseteq HeldBy(ever, Item(a, k))
      /\ \A s \in HeldBy(always, Item(a, k)) :
            s \in S \/ (s = "near_cli_secure" /\ ~inCli /\ Item(a, k) \in cli) \/ s \in Excused(a)
    BY SourcesBetween
<1>2. S \in SUBSET Sources
    BY <1>1 DEF HeldBy
<1>. HIDE DEF S
<1>3. WalletOf(a, k) \in BOOLEAN
    BY DEF WalletOf
<1>4. /\ r.account = a /\ r.key = k /\ r.sources = S /\ r.full = full
      /\ r.wallet = WalletOf(a, k) /\ r \in RowType
    BY <1>2, <1>3 DEF Row, RowType, S
<1>5. WalletOf(a, k)' = WalletOf(a, k) /\ Item(a, k)' = Item(a, k)
    BY DEF WalletOf, Item
<1>6. /\ HeldBy(ever, Item(a, k))' = HeldBy(ever, Item(a, k))
      /\ HeldBy(always, Item(a, k))' = HeldBy(always, Item(a, k))
    BY <1>5 DEF HeldBy
<1>7. full => \E j \in Items : j[2] = a /\ j[3] = k /\ <<"chain", j>> \in ever'
    <2>. SUFFICES ASSUME full
                  PROVE  \E j \in Items : j[2] = a /\ j[3] = k /\ <<"chain", j>> \in ever'
        OBVIOUS
    <2>1. PICK j \in Items : <<a, k>> = <<j[2], j[3]>>
        BY DEF StoresOK
    <2>2. <<"chain", j>> \in Held
        BY <2>1, HeldIs
    <2>. QED  BY <2>1, <2>2 DEF HistoryOK
<1>8. /\ Excused(a) \subseteq Excused(a)'
      /\ a \in unlisted' => "near_cli_secure" \in Excused(a)'
    BY DEF Excused
<1>. QED  BY <1>1, <1>4, <1>5, <1>6, <1>7, <1>8 DEF RowOK

\* The pass over the index gives a row its sources anew, and changes nothing else.
LEMMA RefreshedKeeps ==
    ASSUME StoresOK, HistoryOK, SeenOK, pc # "idle",
           UNCHANGED <<asked, seen, ever, always, unlisted>>,
           NEW r, RowOK(r), NEW q, q = Refreshed(r)
    PROVE  /\ RowOK(q)'
           /\ q.account = r.account /\ q.key = r.key /\ q.full = r.full
<1>1. CASE Item(r.account, r.key) \notin seen.live
    <2>1. q = r
        BY <1>1 DEF Refreshed
    <2>. QED  BY <2>1, RowKept
<1>2. CASE Item(r.account, r.key) \in seen.live
    <2>. DEFINE i == Item(r.account, r.key)
                inCli == i \in cli
                S == SourcesOf(r.account, r.key, inCli)
    <2>1. inCli \in BOOLEAN
        OBVIOUS
    <2>2. /\ S \subseteq HeldBy(ever, i)
          /\ HeldBy(always, i) \subseteq S \cup Excused(r.account)
        BY <2>1, SourcesBetween
    <2>3. S \in SUBSET Sources
        BY <2>2 DEF HeldBy
    <2>4. q = [r EXCEPT !.sources = S]
        BY <1>2 DEF Refreshed
    <2>. HIDE DEF S
    <2>5. /\ q \in RowType /\ q.sources = S /\ q.account = r.account /\ q.key = r.key
          /\ q.full = r.full /\ q.wallet = r.wallet
        BY <2>3, <2>4 DEF RowOK, RowType
    <2>6. RowOK(q)
        BY <2>2, <2>5 DEF RowOK
    <2>. QED  BY <2>5, <2>6, RowKept
<1>. QED  BY <1>1, <1>2
-----------------------------------------------------------------------------
LEMMA InitInv == Init => IInv
<1>. SUFFICES ASSUME Init PROVE IInv
    OBVIOUS
<1>1. \A i \in Items : ~Live(i)
    BY DEF Init, Live
<1>2. StoresOK
    BY <1>1, DiscoveryAssumption DEF Init, StoresOK
<1>. QED  BY <1>2 DEF Init, IInv, HistoryOK, SeenOK, RowsOK, ListedOK, HasRow, Built, LoopOK,
                     SignsAsListed

\* A listing starts with the stores as they are.
LEMMA ListKeysInv == ASSUME IInv, ListKeys PROVE IInv'
<1>. USE DEF IInv, ListKeys
<1>1. Held' = Held /\ StoresOK'
    BY DEF stores, Held, Live, StoresOK
<1>2. HistoryOK'
    BY <1>1 DEF HistoryOK
<1>3. PICK n \in Networks, failed \in SUBSET {"accounts", "keychain", "settings"} :
          /\ asked' = n
          /\ \E read, again \in SUBSET FilesOf(n) :
                \/ \E a \in Accounts : seen' = Snapshot(n, read, failed, {a}, FALSE)
                \/ seen' = Snapshot(n, read, failed, DiscoveredAccounts(n, again, failed),
                                    failed = {} /\ again = FilesOf(n))
    OBVIOUS
<1>12. PICK read \in SUBSET FilesOf(n), again \in SUBSET FilesOf(n) :
          \/ \E a \in Accounts : seen' = Snapshot(n, read, failed, {a}, FALSE)
          \/ seen' = Snapshot(n, read, failed, DiscoveredAccounts(n, again, failed),
                              failed = {} /\ again = FilesOf(n))
    BY <1>3
<1>4. PICK accounts, complete :
          /\ seen' = Snapshot(n, read, failed, accounts, complete)
          /\ \/ \E a \in Accounts : accounts = {a} /\ complete = FALSE
             \/ /\ accounts = DiscoveredAccounts(n, again, failed)
                /\ complete = (failed = {} /\ again = FilesOf(n))
    <2>1. CASE \E a \in Accounts : seen' = Snapshot(n, read, failed, {a}, FALSE)
        BY <2>1
    <2>2. CASE seen' = Snapshot(n, read, failed, DiscoveredAccounts(n, again, failed),
                                failed = {} /\ again = FilesOf(n))
        BY <2>2
    <2>. QED  BY <1>12, <2>1, <2>2
<1>5. /\ seen'.accounts = accounts /\ seen'.complete = complete
      /\ seen'.files = read /\ (read # FilesOf(n) => "files" \in seen'.unread)
      /\ "settings" \in failed => "settings" \in seen'.unread
      /\ "settings" \notin failed =>
            /\ seen'.live = IndexedFor(n) /\ seen'.wallets = ledger
            /\ seen'.hardware = {i \in IndexedFor(n) : index[i].hardware}
      /\ seen'.hardware \subseteq {i \in IndexedFor(n) : index[i].hardware}
      /\ seen'.hardware # {} => seen'.wallets = ledger
    BY <1>4 DEF Snapshot
<1>6. accounts \subseteq Accounts
    <2>1. DiscoveredAccounts(n, again, failed) \subseteq Accounts
        BY DiscoveryAssumption
           DEF DiscoveredAccounts, KeychainAccounts, IndexedFor, StoresOK, FilesOf
    <2>. QED  BY <1>4, <2>1
<1>7. ASSUME NEW a \in Accounts, ListedFor(a)'
      PROVE  a \in accounts
    <2>. SUFFICES ASSUME a \notin accounts PROVE FALSE
        OBVIOUS
    <2>1. complete
        BY <1>5, <1>7 DEF ListedFor
    <2>2. /\ accounts = DiscoveredAccounts(n, again, failed)
          /\ failed = {} /\ again = FilesOf(n)
        BY <1>4, <2>1
    <2>3. older' = older
        BY DEF stores
    <2>4. \/ a \in Signers
          \/ \E i \in Items : /\ i[1] = n /\ i[2] = a
                              /\ i \in older \cup own \cup files \/ Live(i)
        BY <1>1, <1>3, <1>5, <1>7, <2>3, HeldIs DEF ListedFor
    <2>5. accounts = {i[2] : i \in FilesOf(n)} \cup Signers \cup KeychainAccounts(n)
                         \cup {i[2] : i \in IndexedFor(n)}
        BY <2>2 DEF DiscoveredAccounts
    <2>6. \A i \in Items : i[1] = n /\ i[2] = a =>
             /\ i \in older \cup own => a \in KeychainAccounts(n)
             /\ i \in files => i \in FilesOf(n)
             /\ Live(i) => i \in IndexedFor(n)
        BY DEF KeychainAccounts, IndexedFor, FilesOf
    <2>7. CASE a \in Signers
        BY <2>5, <2>7
    <2>8. CASE \E i \in Items : /\ i[1] = n /\ i[2] = a
                                /\ i \in older \cup own \cup files \/ Live(i)
        <3>1. PICK i \in Items : /\ i[1] = n /\ i[2] = a
                                 /\ i \in older \cup own \cup files \/ Live(i)
            BY <2>8
        <3>2. a \in KeychainAccounts(n) \/ i \in FilesOf(n) \cup IndexedFor(n)
            BY <2>6, <3>1
        <3>. QED  BY <2>5, <3>1, <3>2
    <2>. QED  BY <2>4, <2>7, <2>8
<1>8. SeenOK'
    <2>1. \A i \in seen'.files : <<"legacy_file", i>> \in ever'
        BY <1>5, HeldIs DEF FilesOf
    <2>2. \A i \in seen'.hardware : <<"hardware_wallet", i>> \in ever' /\ i \in seen'.wallets
        BY <1>5, HeldIs DEF IndexedFor, StoresOK
    <2>3. \A i \in Items : i[1] = n =>
              /\ <<"legacy_file", i>> \in always' /\ "files" \notin seen'.unread => i \in seen'.files
              /\ <<"hardware_wallet", i>> \in always' /\ "settings" \notin seen'.unread
                    => i \in seen'.hardware
              /\ <<"index", i>> \in always' /\ "settings" \notin seen'.unread => i \in seen'.live
        BY <1>5, HeldIs DEF IndexedFor, FilesOf
    <2>. QED  BY <1>3, <1>5, <1>7, <2>1, <2>2, <2>3 DEF SeenOK
<1>9. /\ todo' = accounts /\ pc' \in {"listed", "account"}
      /\ pc' = "listed" => todo' = {}
    BY <1>5
<1>10. LoopOK'
    BY <1>5, <1>6, <1>9 DEF LoopOK
<1>11. ListedOK'
    BY <1>5, <1>9 DEF ListedOK, Built
<1>. QED  BY <1>1, <1>2, <1>8, <1>10, <1>11 DEF RowsOK, SignsAsListed

\* The node answers for an account: its access keys get their rows.
LEMMA NodeAnswersRows ==
    ASSUME IInv, UNCHANGED <<asked, seen, ever, always>>, pc # "idle",
           NEW a \in Accounts, NodeAnswers(a)
    PROVE  /\ unlisted \subseteq unlisted' /\ unlisted' \subseteq unlisted \cup {a}
           /\ nodeUp' = nodeUp \cup {a}
           /\ rows \subseteq rows'
           /\ \A r \in rows' \ rows : r.account = a /\ RowOK(r)'
           /\ \A k \in OnChain(a) :
                 \E r \in rows' : r.account = a /\ r.key = k /\ r.full = (k \in FullAccess)
<1>. DEFINE many == Cardinality(OnChain(a)) > PrefetchOver
            inCli(k, enumerated) == Item(a, k) \in cli /\ (many => enumerated)
            NewOf(k, enumerated) == Row(a, k, SourcesOf(a, k, inCli(k, enumerated)), k \in FullAccess)
<1>1. PICK enumerated \in BOOLEAN :
          /\ rows' = rows \cup {NewOf(k, enumerated) : k \in OnChain(a)}
          /\ nodeUp' = nodeUp \cup {a}
          /\ unlisted' = IF many /\ ~enumerated THEN unlisted \cup {a} ELSE unlisted
    BY DEF NodeAnswers
<1>. HIDE DEF many
<1>2. unlisted \subseteq unlisted' /\ unlisted' \subseteq unlisted \cup {a}
    BY <1>1
<1>3. ASSUME NEW k \in OnChain(a), NEW r, r = NewOf(k, enumerated)
      PROVE  /\ r.account = a /\ r.key = k /\ r.full = (k \in FullAccess)
             /\ RowOK(r)'
    <2>. DEFINE c == inCli(k, enumerated)
                f == k \in FullAccess
    <2>1. c \in BOOLEAN /\ f \in BOOLEAN
        OBVIOUS
    <2>2. Item(a, k) \in cli => c \/ a \in unlisted'
        BY <1>1
    <2>3. c => Item(a, k) \in cli
        OBVIOUS
    <2>4. k \in Keys /\ <<a, k>> \in chain
        BY DEF OnChain
    <2>5. r = Row(a, k, SourcesOf(a, k, c), f) /\ (f => k \in FullAccess)
        BY <1>3
    <2>. HIDE DEF c, f
    <2>6. RowOK(r)'
        BY <1>2, <2>1, <2>2, <2>3, <2>4, <2>5, NewRow DEF IInv
    <2>7. r.account = a /\ r.key = k /\ r.full = f
        BY <2>5 DEF Row
    <2>. QED  BY <2>6, <2>7 DEF f
<1>. HIDE DEF NewOf
<1>4. \A r \in rows' \ rows : r.account = a /\ RowOK(r)'
    BY <1>1, <1>3
<1>5. ASSUME NEW k \in OnChain(a)
      PROVE  \E r \in rows' : r.account = a /\ r.key = k /\ r.full = (k \in FullAccess)
    <2>1. PICK r : r = NewOf(k, enumerated)
        OBVIOUS
    <2>2. r \in rows'
        BY <1>1, <2>1
    <2>. QED  BY <2>1, <2>2, <1>3
<1>. QED  BY <1>1, <1>2, <1>4, <1>5

\* It does not: the keys that near-cli's items name get theirs, if they could
\* be enumerated.
LEMMA NodeFailsRows ==
    ASSUME IInv, UNCHANGED <<asked, seen, ever, always>>, pc # "idle",
           NEW a \in Accounts, NodeFails(a)
    PROVE  /\ unlisted \subseteq unlisted' /\ unlisted' \subseteq unlisted \cup {a}
           /\ nodeUp' = nodeUp
           /\ rows \subseteq rows'
           /\ \A r \in rows' \ rows : r.account = a /\ RowOK(r)'
           /\ \A k \in KeysOf(a, cli) :
                 a \in unlisted' \/ \E r \in rows' : r.account = a /\ r.key = k
<1>. DEFINE NewOf(k) == Row(a, k, SourcesOf(a, k, TRUE), FALSE)
<1>1. PICK enumerated \in BOOLEAN :
          /\ rows' = rows \cup {NewOf(k) : k \in IF enumerated THEN KeysOf(a, cli) ELSE {}}
          /\ unlisted' = IF enumerated THEN unlisted ELSE unlisted \cup {a}
          /\ nodeUp' = nodeUp
    BY DEF NodeFails
<1>2. unlisted \subseteq unlisted' /\ unlisted' \subseteq unlisted \cup {a}
    BY <1>1
<1>3. ASSUME NEW k \in KeysOf(a, cli), NEW r, r = NewOf(k)
      PROVE  r.account = a /\ r.key = k /\ RowOK(r)'
    <2>1. k \in Keys /\ Item(a, k) \in cli
        BY DEF KeysOf
    <2>2. RowOK(r)'
        BY <1>2, <1>3, <2>1, NewRow DEF IInv
    <2>. QED  BY <1>3, <2>2 DEF Row
<1>. HIDE DEF NewOf
<1>4. \A r \in rows' \ rows : r.account = a /\ RowOK(r)'
    BY <1>1, <1>3
<1>5. ASSUME NEW k \in KeysOf(a, cli), a \notin unlisted'
      PROVE  \E r \in rows' : r.account = a /\ r.key = k
    <2>1. PICK r : r = NewOf(k)
        OBVIOUS
    <2>2. r \in rows'
        BY <1>1, <1>5, <2>1
    <2>. QED  BY <2>1, <2>2, <1>3
<1>. QED  BY <1>1, <1>2, <1>4, <1>5

LEMMA FetchAccountInv == ASSUME IInv, FetchAccount PROVE IInv'
<1>1. PICK a \in todo : account' = a /\ (NodeAnswers(a) \/ NodeFails(a))
    BY DEF FetchAccount
<1>2. /\ a \in Accounts /\ pc = "account" /\ pc' = "merge" /\ last' = last
      /\ UNCHANGED <<asked, seen, todo, older, ever, always>> /\ last = NoRow
      /\ a \in todo /\ todo \subseteq seen.accounts
    BY DEF FetchAccount, IInv, LoopOK, history, stores
<1>3. /\ unlisted \subseteq unlisted' /\ unlisted' \subseteq unlisted \cup {a}
      /\ nodeUp \subseteq nodeUp' /\ nodeUp' \subseteq nodeUp \cup {a}
      /\ rows \subseteq rows'
      /\ \A r \in rows' \ rows : r.account = a /\ RowOK(r)'
    BY <1>1, <1>2, NodeAnswersRows, NodeFailsRows
<1>4. Held' = Held /\ StoresOK'
    BY DEF IInv, FetchAccount, stores, Held, Live, StoresOK
<1>5. HistoryOK'
    BY <1>2, <1>4 DEF HistoryOK, IInv
<1>6. SeenOK'
    BY <1>2 DEF SeenOK, ListedFor, IInv
<1>7. RowsOK'
    <2>. SUFFICES ASSUME NEW r \in rows' PROVE RowOK(r)'
        BY DEF RowsOK
    <2>1. r \in rows => RowOK(r)
        BY <1>2 DEF RowsOK, IInv
    <2>. QED  BY <1>2, <1>3, <2>1, RowKept
<1>8. ASSUME NEW b \in Accounts, b # a
      PROVE  /\ Built(b)' <=> Built(b)
             /\ b \in nodeUp' <=> b \in nodeUp
             /\ b \in unlisted' <=> b \in unlisted
    BY <1>2, <1>3, <1>8 DEF Built
<1>9. \A i \in Items : i[2] \in Accounts /\ i[3] \in Keys
    BY DiscoveryAssumption
<1>10. ListedOK'
    <2>1. ASSUME NEW i \in Items, i[2] \in nodeUp', <<"chain", i>> \in always
          PROVE  \E r \in rows' :
                     r.account = i[2] /\ r.key = i[3] /\ r.full = (i[3] \in FullAccess)
        <3>1. CASE i[2] \in nodeUp
            BY <3>1, <2>1, <1>3 DEF ListedOK, IInv
        <3>2. CASE i[2] \notin nodeUp
            <4>1. i[2] = a /\ NodeAnswers(a)
                BY <3>2, <2>1, <1>1, <1>2, <1>3, NodeFailsRows
            <4>2. <<i[2], i[3]>> \in chain
                BY <2>1, HeldIs DEF IInv, HistoryOK
            <4>3. i[3] \in OnChain(a)
                BY <4>1, <4>2, <1>9 DEF OnChain
            <4>. QED  BY <4>1, <4>3, <1>2, NodeAnswersRows
        <3>. QED  BY <3>1, <3>2
    <2>2. ASSUME NEW i \in Items, i[1] = asked, Built(i[2])' \/ i[2] = a,
                 i[2] \notin nodeUp' \cup unlisted', <<"near_cli_secure", i>> \in always
          PROVE  \E r \in rows' : r.account = i[2] /\ r.key = i[3]
        <3>1. CASE i[2] = a
            <4>1. i \in cli
                BY <2>2, HeldIs DEF IInv, HistoryOK
            <4>2. i = Item(a, i[3])
                BY <3>1, <2>2, DiscoveryAssumption DEF Item
            <4>3. i[3] \in KeysOf(a, cli)
                BY <4>1, <4>2, <1>9 DEF KeysOf
            <4>4. NodeFails(a)
                BY <3>1, <2>2, <1>1, <1>2, NodeAnswersRows
            <4>. QED  BY <4>3, <4>4, <3>1, <2>2, <1>2, NodeFailsRows
        <3>2. CASE i[2] # a
            <4>1. HasRow(i[2], i[3])
                BY <3>2, <2>2, <1>8, <1>9 DEF ListedOK, IInv
            <4>. QED  BY <4>1, <1>3 DEF HasRow
        <3>. QED  BY <3>1, <3>2
    <2>3. ASSUME NEW i \in Items, i[1] = asked, Built(i[2])',
                 \/ <<"legacy_file", i>> \in always /\ "files" \notin seen.unread
                 \/ <<"index", i>> \in always /\ "settings" \notin seen.unread
          PROVE  \E r \in rows' : r.account = i[2] /\ r.key = i[3]
        <3>1. HasRow(i[2], i[3])
            BY <2>3, <1>2 DEF ListedOK, IInv, Built
        <3>. QED  BY <3>1, <1>3 DEF HasRow
    <2>. QED  BY <2>1, <2>2, <2>3, <1>1, <1>2 DEF ListedOK, HasRow
<1>11. LoopOK'
    BY <1>1, <1>2, <1>3 DEF LoopOK, IInv
<1>. QED  BY <1>2, <1>4, <1>5, <1>6, <1>7, <1>10, <1>11 DEF IInv, SignsAsListed

\* The pass over the index and the files: every row stays, with its sources
\* read anew, and every key of the files and the index has one.
LEMMA MergedRows ==
    ASSUME IInv, MergeAccount
    PROVE  /\ \A r \in rows : \E q \in rows' :
                 q.account = r.account /\ q.key = r.key /\ q.full = r.full
           /\ \A q \in rows' : /\ RowOK(q)'
                               /\ q.account = account \/ \E r \in rows : r.account = q.account
           /\ \A k \in KeysOf(account, seen.files \cup seen.live) :
                 \E q \in rows' : q.account = account /\ q.key = k
<1>. DEFINE there == {r.key : r \in {q \in rows : q.account = account}}
            inCli(k) == Item(account, k) \in cli
            NewOf(k) == Row(account, k, SourcesOf(account, k, inCli(k)), FALSE)
            Kept(r) == IF r.account = account THEN Refreshed(r) ELSE r
            missing == KeysOf(account, seen.files \cup seen.live) \ there
<1>1. /\ pc = "merge" /\ pc # "idle" /\ account \in Accounts
      /\ UNCHANGED <<asked, seen, ever, always, unlisted>>
    BY DEF IInv, LoopOK, MergeAccount, history
<1>2. rows' = {Kept(r) : r \in rows} \cup {NewOf(k) : k \in missing}
    BY DEF MergeAccount, Merged
<1>3. ASSUME NEW r \in rows, NEW q, q = Kept(r)
      PROVE  RowOK(q)' /\ q.account = r.account /\ q.key = r.key /\ q.full = r.full
    <2>0. RowOK(r)
        BY <1>1 DEF IInv, RowsOK
    <2>1. CASE r.account = account
        BY <2>0, <2>1, <1>1, <1>3, RefreshedKeeps DEF IInv
    <2>2. CASE r.account # account
        <3>1. q = r
            BY <1>3, <2>2
        <3>. QED  BY <3>1, <2>0, <1>1, RowKept
    <2>. QED  BY <2>1, <2>2
<1>4. ASSUME NEW k \in KeysOf(account, seen.files \cup seen.live), NEW q, q = NewOf(k)
      PROVE  q.account = account /\ q.key = k /\ RowOK(q)'
    <2>1. k \in Keys
        BY DEF KeysOf
    <2>. DEFINE c == inCli(k)
    <2>2. c \in BOOLEAN /\ (c <=> Item(account, k) \in cli)
        OBVIOUS
    <2>3. q = Row(account, k, SourcesOf(account, k, c), FALSE)
        BY <1>4
    <2>. HIDE DEF c
    <2>4. RowOK(q)'
        BY <2>1, <2>2, <2>3, <1>1, NewRow DEF IInv
    <2>. QED  BY <2>3, <2>4 DEF Row
<1>. HIDE DEF Kept, NewOf
<1>5. ASSUME NEW r \in rows
      PROVE  \E q \in rows' : q.account = r.account /\ q.key = r.key /\ q.full = r.full
    <2>1. PICK q : q = Kept(r)
        OBVIOUS
    <2>2. q \in rows'
        BY <1>2, <2>1
    <2>. QED  BY <2>1, <2>2, <1>3
<1>6. ASSUME NEW q \in rows'
      PROVE  RowOK(q)' /\ (q.account = account \/ \E r \in rows : r.account = q.account)
    <2>1. CASE \E r \in rows : q = Kept(r)
        BY <2>1, <1>3
    <2>2. CASE \E k \in missing : q = NewOf(k)
        BY <2>2, <1>4
    <2>. QED  BY <1>2, <2>1, <2>2
<1>7. ASSUME NEW k \in KeysOf(account, seen.files \cup seen.live)
      PROVE  \E q \in rows' : q.account = account /\ q.key = k
    <2>1. CASE k \in there
        <3>1. PICK r \in rows : r.account = account /\ r.key = k
            BY <2>1
        <3>. QED  BY <3>1, <1>5
    <2>2. CASE k \notin there
        <3>1. PICK q : q = NewOf(k)
            OBVIOUS
        <3>2. q \in rows'
            BY <1>2, <2>2, <3>1
        <3>. QED  BY <3>1, <3>2, <1>4
    <2>. QED  BY <2>1, <2>2
<1>. QED  BY <1>5, <1>6, <1>7

LEMMA MergeAccountInv == ASSUME IInv, MergeAccount PROVE IInv'
<1>1. /\ pc = "merge" /\ pc' \in {"listed", "account"} /\ account \in Accounts
      /\ UNCHANGED <<asked, seen, account, nodeUp, unlisted, older, ever, always>>
      /\ todo' = todo \ {account} /\ last' = last /\ last = NoRow
      /\ pc' = "listed" => todo' = {}
    BY DEF IInv, LoopOK, MergeAccount, history, stores
<1>2. Held' = Held /\ StoresOK'
    BY DEF IInv, MergeAccount, stores, Held, Live, StoresOK
<1>3. HistoryOK' /\ SeenOK'
    BY <1>1, <1>2 DEF HistoryOK, SeenOK, ListedFor, IInv
<1>4. RowsOK'
    BY MergedRows DEF RowsOK
<1>5. ASSUME NEW a, NEW k, HasRow(a, k)
      PROVE  \E q \in rows' : q.account = a /\ q.key = k
    BY <1>5, MergedRows DEF HasRow
<1>6. ASSUME NEW a, Built(a)'
      PROVE  Built(a) \/ a = account
    BY <1>6, <1>1 DEF Built
<1>7. \A i \in Items : i[2] \in Accounts /\ i[3] \in Keys /\ i = <<i[1], i[2], i[3]>>
    BY DiscoveryAssumption
<1>8. ListedOK'
    <2>1. ASSUME NEW i \in Items, i[2] \in nodeUp, <<"chain", i>> \in always
          PROVE  \E q \in rows' :
                     q.account = i[2] /\ q.key = i[3] /\ q.full = (i[3] \in FullAccess)
        <3>1. PICK r \in rows : /\ r.account = i[2] /\ r.key = i[3]
                                /\ r.full = (i[3] \in FullAccess)
            BY <2>1 DEF IInv, ListedOK
        <3>2. PICK q \in rows' : q.account = r.account /\ q.key = r.key /\ q.full = r.full
            BY <3>1, MergedRows
        <3>. QED  BY <3>1, <3>2
    <2>2. ASSUME NEW i \in Items, i[1] = asked, Built(i[2])',
                 i[2] \notin nodeUp \cup unlisted, <<"near_cli_secure", i>> \in always
          PROVE  \E r \in rows' : r.account = i[2] /\ r.key = i[3]
        <3>1. HasRow(i[2], i[3])
            BY <2>2, <1>1, <1>6 DEF IInv, ListedOK
        <3>. QED  BY <3>1, <1>5
    <2>3. ASSUME NEW i \in Items, i[1] = asked, Built(i[2])',
                 \/ <<"legacy_file", i>> \in always /\ "files" \notin seen.unread
                 \/ <<"index", i>> \in always /\ "settings" \notin seen.unread
          PROVE  \E r \in rows' : r.account = i[2] /\ r.key = i[3]
        <3>1. CASE i[2] # account
            <4>1. HasRow(i[2], i[3])
                BY <3>1, <2>3, <1>6 DEF IInv, ListedOK
            <4>. QED  BY <4>1, <1>5
        <3>2. CASE i[2] = account
            <4>1. i \in seen.files \cup seen.live
                BY <2>3, <1>1 DEF IInv, SeenOK
            <4>2. i[3] \in KeysOf(account, seen.files \cup seen.live)
                BY <4>1, <3>2, <2>3, <1>7 DEF KeysOf, Item
            <4>. QED  BY <4>2, <3>2, MergedRows
        <3>. QED  BY <3>1, <3>2
    <2>. QED  BY <2>1, <2>2, <2>3, <1>1 DEF ListedOK, HasRow
<1>9. LoopOK'
    BY <1>1 DEF LoopOK, IInv
<1>. QED  BY <1>1, <1>2, <1>3, <1>4, <1>8, <1>9 DEF IInv, SignsAsListed
-----------------------------------------------------------------------------
\* While the stores change, what the listing has stays true of them.
LEMMA ListingKept ==
    ASSUME IInv, UNCHANGED listing, older' = older, ever \subseteq ever', always' \subseteq always
    PROVE  SeenOK' /\ RowsOK' /\ ListedOK'
<1>1. UNCHANGED <<pc, asked, seen, todo, account, rows, nodeUp, unlisted>>
    BY DEF listing
<1>2. SeenOK'
    <2>1. \A a : ListedFor(a)' => ListedFor(a)
        BY <1>1 DEF ListedFor
    <2>. QED  BY <1>1, <2>1 DEF IInv, SeenOK
<1>3. RowsOK'
    <2>. SUFFICES ASSUME pc # "idle", NEW r \in rows PROVE RowOK(r)'
        BY <1>1 DEF RowsOK
    <2>1. RowOK(r)
        BY DEF IInv, RowsOK
    <2>. QED  BY <1>1, <2>1, RowKept
<1>4. ListedOK'
    <2>1. \A a : Built(a)' <=> Built(a)
        BY <1>1 DEF Built
    <2>2. \A a, k : HasRow(a, k)' <=> HasRow(a, k)
        BY <1>1 DEF HasRow
    <2>3. ASSUME NEW i \in Items, i[2] \in nodeUp', <<"chain", i>> \in always'
          PROVE  \E r \in rows' :
                     r.account = i[2] /\ r.key = i[3] /\ r.full = (i[3] \in FullAccess)
        BY <2>3, <1>1 DEF IInv, ListedOK
    <2>. QED  BY <1>1, <2>1, <2>2, <2>3 DEF IInv, ListedOK
<1>. QED  BY <1>2, <1>3, <1>4

LEMMA UpsertedIs ==
    ASSUME StoresOK, NEW i \in Items, NEW hardware \in BOOLEAN
    PROVE  /\ Upserted(i, hardware) \in [Items -> {NoRecord} \cup [hardware : BOOLEAN, old : BOOLEAN]]
           /\ Upserted(i, hardware)[i].hardware = (hardware \/ (Live(i) /\ index[i].hardware))
           /\ \A j \in Items : j # i =>
                 Upserted(i, hardware)[j] = IF Live(j) THEN index[j] ELSE NoRecord
<1>. DEFINE h == hardware \/ (Live(i) /\ index[i].hardware)
            new == [hardware |-> h, old |-> FALSE]
            At(j) == CASE j = i -> new
                       [] j # i -> IF Live(j) THEN index[j] ELSE NoRecord
<1>1. h \in BOOLEAN
    BY Zenon
<1>. HIDE DEF h
<1>2. new \in [hardware : BOOLEAN, old : BOOLEAN] /\ new.hardware = h
    BY <1>1
<1>. HIDE DEF new
<1>3. At(i) = new
    BY Zenon
<1>4. \A j \in Items : j # i => At(j) = IF Live(j) THEN index[j] ELSE NoRecord
    BY Zenon
<1>5. Upserted(i, hardware) = [j \in Items |-> At(j)]
    BY Zenon DEF Upserted, new, h
<1>. HIDE DEF At
<1>6. \A j \in Items : At(j) \in {NoRecord} \cup [hardware : BOOLEAN, old : BOOLEAN]
    BY <1>2, <1>3, <1>4 DEF StoresOK
<1>. QED  BY <1>2, <1>3, <1>4, <1>5, <1>6 DEF h

LEMMA ChangeInv == ASSUME IInv, Change PROVE IInv'
<1>1. PICK i \in Items : ImportKey(i) \/ ConnectLedger(i) \/ RecordAges(i) \/ OutsideChange(i)
    BY DEF Change
<1>2. /\ UNCHANGED listing /\ last' = NoRow
      /\ ever' = ever \cup Held' /\ always' = always \cap Held'
    BY DEF Change
<1>3. UNCHANGED <<pc, asked, seen, todo, account, rows, nodeUp, unlisted, older>>
    BY <1>1, <1>2 DEF listing, ImportKey, ConnectLedger, RecordAges, OutsideChange
<1>4. StoresOK'
    <2>. DEFINE Record == {NoRecord} \cup [hardware : BOOLEAN, old : BOOLEAN]
    <2>1. CASE ImportKey(i) /\ index' = Upserted(i, FALSE)
        <3>1. /\ own' = own \cup {i} /\ UNCHANGED <<chain, older, cli, files, ledger>>
            BY <2>1 DEF ImportKey
        <3>2. /\ index' \in [Items -> Record]
              /\ index'[i].hardware = (Live(i) /\ index[i].hardware)
              /\ \A j \in Items : j # i => index'[j] = IF Live(j) THEN index[j] ELSE NoRecord
            BY <2>1, UpsertedIs DEF IInv
        <3>. QED  BY <3>1, <3>2 DEF IInv, StoresOK, Live
    <2>2. CASE ConnectLedger(i)
        <3>1. /\ ledger' = ledger \cup {i} /\ UNCHANGED <<chain, own, older, cli, files>>
              /\ index' = Upserted(i, TRUE)
            BY <2>2 DEF ConnectLedger
        <3>2. /\ index' \in [Items -> Record]
              /\ \A j \in Items : j # i => index'[j] = IF Live(j) THEN index[j] ELSE NoRecord
            BY <3>1, UpsertedIs DEF IInv
        <3>. QED  BY <3>1, <3>2 DEF IInv, StoresOK, Live
    <2>3. CASE RecordAges(i)
        <3>1. /\ Live(i) /\ index' = [index EXCEPT ![i].old = TRUE]
              /\ UNCHANGED <<chain, own, older, cli, files, ledger>>
            BY <2>3 DEF RecordAges
        <3>2. /\ index' \in [Items -> Record]
              /\ \A j \in Items : index'[j] = index[j] \/ index'[j].old
            BY <3>1 DEF IInv, StoresOK, Live
        <3>. QED  BY <3>1, <3>2 DEF IInv, StoresOK, Live
    <2>4. CASE ImportKey(i) /\ index' = index
        BY <2>4 DEF ImportKey, IInv, StoresOK, Live
    <2>5. CASE OutsideChange(i)
        BY <2>5, DiscoveryAssumption DEF OutsideChange, Toggled, IInv, StoresOK, Live
    <2>. QED  BY <1>1, <2>1, <2>2, <2>3, <2>4, <2>5 DEF ImportKey
<1>5. HistoryOK'
    BY <1>2 DEF HistoryOK
<1>6. SeenOK' /\ RowsOK' /\ ListedOK'
    BY <1>2, <1>3, ListingKept
<1>7. LoopOK'
    BY <1>2, <1>3 DEF IInv, LoopOK
<1>. QED  BY <1>2, <1>4, <1>5, <1>6, <1>7 DEF IInv, SignsAsListed
-----------------------------------------------------------------------------
\* Which source is first: nearxd's Keychain, then near-cli's, then the files.
LEMMA FirstOfIs ==
    ASSUME NEW willing \in SUBSET Software
    PROVE  /\ willing = {} => FirstOf(willing) = "none"
           /\ "nearxd_keychain" \in willing => FirstOf(willing) = "nearxd_keychain"
           /\ "nearxd_keychain" \notin willing /\ "near_cli_secure" \in willing
              => FirstOf(willing) = "near_cli_secure"
           /\ willing \cap {"nearxd_keychain", "near_cli_secure"} = {} /\ willing # {}
              => FirstOf(willing) = "legacy_file" /\ "legacy_file" \in willing
<1>. DEFINE Is(n) == /\ n \in 1..3 /\ Order[n] \in willing
                     /\ \A m \in 1..(n - 1) : Order[m] \notin willing
            first == CHOOSE n \in 1..3 : Order[n] \in willing
                                         /\ \A m \in 1..(n - 1) : Order[m] \notin willing
<1>1. /\ Order[1] = "nearxd_keychain" /\ Order[2] = "near_cli_secure"
      /\ Order[3] = "legacy_file"
    BY DEF Order
<1>2. \A s \in willing : s \in {"nearxd_keychain", "near_cli_secure", "legacy_file"}
    BY DEF Software, Sources
<1>3. ASSUME NEW n \in 1..3, Is(n)
      PROVE  first = n
    <2>1. Is(first)
        BY <1>3
    <2>2. ~ first < n
        BY <1>3, <2>1
    <2>3. ~ n < first
        BY <1>3, <2>1
    <2>. QED  BY <1>3, <2>1, <2>2, <2>3
<1>4. willing # {} => FirstOf(willing) = Order[first]
    BY DEF FirstOf
<1>. HIDE DEF first
<1>5. CASE "nearxd_keychain" \in willing
    <2>1. Is(1)
        BY <1>1, <1>5
    <2>. QED  BY <2>1, <1>1, <1>3, <1>4, <1>5
<1>6. CASE "nearxd_keychain" \notin willing /\ "near_cli_secure" \in willing
    <2>1. Is(2)
        BY <1>1, <1>6
    <2>. QED  BY <2>1, <1>1, <1>3, <1>4, <1>6
<1>7. CASE willing \cap {"nearxd_keychain", "near_cli_secure"} = {} /\ willing # {}
    <2>1. "legacy_file" \in willing
        BY <1>2, <1>7
    <2>2. Is(3)
        BY <1>1, <1>7, <2>1
    <2>. QED  BY <2>1, <2>2, <1>1, <1>3, <1>4, <1>7
<1>8. CASE willing = {}
    BY <1>8 DEF FirstOf
<1>. QED  BY <1>5, <1>6, <1>7, <1>8

LEMMA FirstOfIn ==
    ASSUME NEW willing \in SUBSET Software, willing # {}
    PROVE  FirstOf(willing) \in willing
BY FirstOfIs

\* The two places that rank software sources agree on their order.
LEMMA PreferredIsFirst ==
    ASSUME NEW S \in SUBSET Software, S # {}
    PROVE  Preferred(S) = FirstOf(S)
<1>1. "hardware_wallet" \notin S
    BY DEF Software
<1>2. CASE "nearxd_keychain" \in S
    <2>1. /\ S # {} /\ S # {"hardware_wallet"}
          /\ S \cap {"nearxd_keychain", "near_cli_secure"} # {}
        BY <1>1, <1>2
    <2>2. Preferred(S) = "nearxd_keychain"
        BY <1>2, <2>1, Zenon DEF Preferred
    <2>. QED  BY <1>2, <2>2, FirstOfIs
<1>3. CASE "nearxd_keychain" \notin S /\ "near_cli_secure" \in S
    <2>1. /\ S # {} /\ S # {"hardware_wallet"}
          /\ S \cap {"nearxd_keychain", "near_cli_secure"} # {}
        BY <1>1, <1>3
    <2>2. Preferred(S) = "near_cli_secure"
        BY <1>3, <2>1, Zenon DEF Preferred
    <2>. QED  BY <1>3, <2>2, FirstOfIs
<1>4. CASE S \cap {"nearxd_keychain", "near_cli_secure"} = {}
    <2>1. FirstOf(S) = "legacy_file" /\ "legacy_file" \in S
        BY <1>4, FirstOfIs
    <2>2. Preferred(S) = "legacy_file"
        BY <1>1, <1>4, <2>1, Zenon DEF Preferred
    <2>. QED  BY <2>1, <2>2
<1>. QED  BY <1>2, <1>3, <1>4

\* What a source can give is what it holds, and nearxd's own store the older
\* items too.
LEMMA GivesIs ==
    ASSUME NEW s \in Software, NEW i
    PROVE  Gives(s, i) <=> <<s, i>> \in Held \/ (s = "nearxd_keychain" /\ i \in older)
<1>1. CASE s = "nearxd_keychain"
    <2>1. Gives(s, i) <=> i \in own \cup older
        BY <1>1, Zenon DEF Gives
    <2>. QED  BY <1>1, <2>1, HeldIs
<1>2. CASE s = "near_cli_secure"
    <2>1. s # "nearxd_keychain" /\ s # "legacy_file"
        BY <1>2
    <2>2. Gives(s, i) <=> i \in cli
        BY <1>2, <2>1, Zenon DEF Gives
    <2>. QED  BY <1>2, <2>2, HeldIs
<1>3. CASE s = "legacy_file"
    <2>1. s # "nearxd_keychain" /\ s # "near_cli_secure"
        BY <1>3
    <2>2. Gives(s, i) <=> i \in files
        BY <1>3, <2>1, Zenon DEF Gives
    <2>. QED  BY <1>3, <2>2, HeldIs
<1>. QED  BY <1>1, <1>2, <1>3 DEF Software, Sources

\* When nothing changed since the listing began and all was read, a row's sources are those that
\* hold its key.
LEMMA CleanRow ==
    ASSUME IInv, pc # "idle", ever = always, NEW r \in rows, Excused(r.account) = {}
    PROVE  /\ ever = Held /\ always = Held
           /\ r \in RowType
           /\ r.sources = HeldBy(Held, Item(r.account, r.key))
           /\ r.wallet = WalletOf(r.account, r.key)
           /\ r.full => r.key \in FullAccess /\ <<r.account, r.key>> \in chain
<1>1. ever = Held /\ always = Held
    BY DEF IInv, HistoryOK
<1>2. RowOK(r)
    BY DEF IInv, RowsOK
<1>3. r.sources = HeldBy(Held, Item(r.account, r.key))
    BY <1>1, <1>2 DEF RowOK
<1>4. r.full => r.key \in FullAccess /\ <<r.account, r.key>> \in chain
    <2>. SUFFICES ASSUME r.full
                  PROVE  r.key \in FullAccess /\ <<r.account, r.key>> \in chain
        OBVIOUS
    <2>1. PICK j \in Items : /\ j[2] = r.account /\ j[3] = r.key
                             /\ <<"chain", j>> \in ever
        BY <1>2 DEF RowOK
    <2>2. <<j[2], j[3]>> \in chain
        BY <1>1, <2>1, HeldIs
    <2>. QED  BY <1>2, <2>1, <2>2 DEF RowOK
<1>. QED  BY <1>1, <1>2, <1>3, <1>4 DEF RowOK

\* Signing changes nothing but the Keychain item that a copy of the older one makes.
LEMMA SignedKeeps ==
    ASSUME IInv, pc \in {"idle", "listed"},
           NEW r, NEW a, NEW k, NEW source, NEW refused, Signed(r, a, k, source, refused)
    PROVE  /\ StoresOK' /\ HistoryOK' /\ SeenOK' /\ RowsOK' /\ ListedOK' /\ LoopOK'
           /\ last' = [row |-> r, account |-> a, key |-> k, source |-> source,
                       clean |-> ~refused /\ ever = always]
           /\ UNCHANGED <<pc, asked, seen, rows, nodeUp, unlisted, older>>
<1>1. /\ last' = [row |-> r, account |-> a, key |-> k, source |-> source,
                  clean |-> ~refused /\ ever = always]
      /\ UNCHANGED <<chain, older, cli, files, index, ledger>> /\ UNCHANGED listing
    BY DEF Signed
<1>2. UNCHANGED <<pc, asked, seen, todo, account, rows, nodeUp, unlisted>>
    BY <1>1 DEF listing
<1>3. \/ UNCHANGED <<own, ever, always>>
      \/ /\ own' = own \cup {Item(a, k)} /\ Item(a, k) \in older
         /\ ever' = ever \cup Held' /\ always' = always \cap Held'
    BY DEF Signed
<1>4. ever \subseteq ever' /\ always' \subseteq always
    BY <1>3
<1>5. StoresOK'
    BY <1>1, <1>3 DEF IInv, StoresOK, Live
<1>6. HistoryOK'
    <2>1. CASE UNCHANGED <<own, ever, always>>
        <3>1. Held' = Held
            BY <1>1, <2>1 DEF Held, Live
        <3>. QED  BY <2>1, <3>1 DEF IInv, HistoryOK
    <2>2. CASE ever' = ever \cup Held' /\ always' = always \cap Held'
        BY <2>2 DEF HistoryOK
    <2>. QED  BY <1>3, <2>1, <2>2
<1>7. SeenOK' /\ RowsOK' /\ ListedOK'
    BY <1>1, <1>4, ListingKept
<1>8. LoopOK'
    BY <1>2 DEF IInv, LoopOK
<1>. QED  BY <1>1, <1>2, <1>5, <1>6, <1>7, <1>8

\* A listed key: from its wallet, or from the first source that holds it.
LEMMA SignListedInv == ASSUME IInv, SignListed PROVE IInv'
<1>1. PICK r \in rows, refused \in SUBSET Software :
          Signed(r, r.account, r.key,
                 IF r.wallet THEN WalletSigns(Item(r.account, r.key))
                 ELSE FirstOf({s \in Software \ refused : Gives(s, Item(r.account, r.key))}),
                 refused # {})
    BY DEF SignListed
<1>. DEFINE i == Item(r.account, r.key)
            source == IF r.wallet THEN WalletSigns(i)
                      ELSE FirstOf({s \in Software \ refused : Gives(s, i)})
<1>2. /\ StoresOK' /\ HistoryOK' /\ SeenOK' /\ RowsOK' /\ ListedOK' /\ LoopOK'
      /\ last' = [row |-> r, account |-> r.account, key |-> r.key, source |-> source,
                  clean |-> ~(refused # {}) /\ ever = always]
      /\ UNCHANGED <<pc, asked, seen, rows, nodeUp, unlisted, older>>
      /\ pc = "listed"
    BY <1>1, SignedKeeps DEF SignListed
<1>. DEFINE clean == ~(refused # {}) /\ ever = always
<1>. HIDE DEF source, clean
<1>3. /\ last'.row = r /\ last'.account = r.account /\ last'.key = r.key
      /\ last'.source = source /\ last'.clean = clean
    BY <1>2 DEF clean
<1>4. ASSUME clean, Excused(r.account) = {}
      PROVE  /\ "hardware_wallet" \in r.sources => source = "hardware_wallet"
             /\ ~r.wallet /\ r.sources # {} =>
                   source = Preferred(r.sources)
                   \/ (source = "nearxd_keychain" /\ i \in older)
             /\ r # NoRow
    <2>0. refused = {} /\ ever = always
        BY <1>4 DEF clean
    <2>1. /\ always = Held /\ r \in RowType
          /\ r.sources = HeldBy(Held, i) /\ r.wallet = WalletOf(r.account, r.key)
        BY <1>2, <1>4, <2>0, CleanRow
    <2>2. ASSUME "hardware_wallet" \in r.sources
          PROVE  r.wallet /\ source = "hardware_wallet"
        <3>1. <<"hardware_wallet", i>> \in Held
            BY <2>1, <2>2 DEF HeldBy
        <3>2. i \in Items /\ i \in ledger
            BY <3>1, HeldIs DEF IInv, StoresOK
        <3>3. i[1] = asked
            BY DEF Item
        <3>4. i \in seen.wallets /\ asked \in Networks
            BY <1>2, <1>4, <2>1, <3>1, <3>2, <3>3 DEF IInv, SeenOK, Excused
        <3>5. r.wallet
            BY <2>1, <3>4 DEF WalletOf, Item
        <3>. QED  BY <3>2, <3>5 DEF source, WalletSigns
    <2>3. ASSUME ~r.wallet, r.sources # {}, i \notin older
          PROVE  source = Preferred(r.sources)
        <3>1. r.sources \in SUBSET Software
            BY <2>1, <2>2, <2>3 DEF RowType, Software
        <3>2. {s \in Software \ refused : Gives(s, i)} = r.sources
            BY <2>0, <2>1, <2>3, <3>1, GivesIs DEF HeldBy, Software
        <3>. QED  BY <2>3, <3>1, <3>2, PreferredIsFirst DEF source
    <2>4. ASSUME ~r.wallet, i \in older
          PROVE  source = "nearxd_keychain"
        <3>. DEFINE willing == {s \in Software \ refused : Gives(s, i)}
        <3>1. "nearxd_keychain" \in willing
            BY <2>0, <2>4, GivesIs DEF Software, Sources
        <3>. QED  BY <2>4, <3>1, FirstOfIs DEF source
    <2>5. r # NoRow
        BY <2>1, DiscoveryAssumption DEF RowType
    <2>. QED  BY <2>2, <2>3, <2>4, <2>5
<1>5. i' = i /\ Excused(r.account)' = Excused(r.account)
    BY <1>2 DEF Item, Excused
<1>6. SignsAsListed'
    <2>. SUFFICES ASSUME clean, Excused(r.account) = {}
                  PROVE  /\ "hardware_wallet" \in r.sources => source = "hardware_wallet"
                         /\ ~r.wallet /\ r.sources # {} =>
                               source = Preferred(r.sources)
                               \/ (source = "nearxd_keychain" /\ i \in older)
                         /\ r # NoRow
        BY <1>2, <1>3, <1>5 DEF SignsAsListed
    <2>. QED  BY <1>4
<1>. QED  BY <1>2, <1>6 DEF IInv

\* The candidates that a source gives, when the node answered.
GiversOf(a, s) ==
    IF s = "legacy_file" /\ OnChain(a) = {} THEN KeysOf(a, files)
    ELSE {k \in OnChain(a) : Gives(s, Item(a, k))}

\* Who names no key, when the node answered and nothing changed: the key is
\* listed with the source that signs, and with full access if that source has
\* such a key.
LEMMA AnyIsListed ==
    ASSUME IInv, pc = "listed", ever = always,
           NEW a \in nodeUp, a \in Accounts, Excused(a) = {}, KeysOf(a, older) = {},
           NEW source \in Software, NEW key \in GiversOf(a, source),
           OnChain(a) = {} \/ key \in Pick(GiversOf(a, source))
    PROVE  \E q \in {p \in rows : p.account = a /\ source \in p.sources} :
              q.key = key /\ (q.full \/ \A p \in {r \in rows : r.account = a /\ source \in r.sources} :
                                           ~p.full)
<1>. DEFINE listed == {p \in rows : p.account = a /\ source \in p.sources}
            givers == GiversOf(a, source)
<1>1. ever = Held /\ always = Held
    BY DEF IInv, HistoryOK
<1>2. \A k \in Keys : Item(a, k) \notin older
    BY DEF KeysOf
<1>3. \A r \in rows : r.account = a =>
          /\ r.key \in Keys /\ r.sources = HeldBy(Held, Item(a, r.key))
          /\ r.full => r.key \in FullAccess /\ r.key \in OnChain(a)
    <2>. SUFFICES ASSUME NEW r \in rows, r.account = a
                  PROVE  /\ r.key \in Keys /\ r.sources = HeldBy(Held, Item(a, r.key))
                         /\ r.full => r.key \in FullAccess /\ r.key \in OnChain(a)
        OBVIOUS
    <2>1. /\ r \in RowType /\ r.sources = HeldBy(Held, Item(r.account, r.key))
          /\ r.full => r.key \in FullAccess /\ <<r.account, r.key>> \in chain
        BY CleanRow
    <2>. QED  BY <2>1 DEF RowType, OnChain
<1>4. key \in givers
    OBVIOUS
<1>5. CASE source = "legacy_file" /\ OnChain(a) = {}
    <2>1. key \in Keys /\ Item(a, key) \in files
        BY <1>4, <1>5 DEF GiversOf, KeysOf
    <2>. DEFINE i == Item(a, key)
    <2>2. i \in Items /\ <<"legacy_file", i>> \in Held
        BY <2>1, HeldIs DEF IInv, StoresOK
    <2>3. i[1] = asked /\ i[2] = a /\ i[3] = key
        BY DEF Item
    <2>4. Built(i[2]) /\ "files" \notin seen.unread
        BY <2>3 DEF Built, Excused, IInv, LoopOK
    <2>5. HasRow(i[2], i[3])
        BY <1>1, <2>2, <2>3, <2>4 DEF IInv, ListedOK
    <2>6. PICK q \in rows : q.account = a /\ q.key = key
        BY <2>3, <2>5 DEF HasRow
    <2>7. source \in q.sources
        BY <1>3, <1>5, <2>2, <2>6 DEF HeldBy, Software
    <2>8. \A p \in listed : ~p.full
        BY <1>3, <1>5
    <2>. QED  BY <2>6, <2>7, <2>8
<1>6. CASE ~(source = "legacy_file" /\ OnChain(a) = {})
    <2>1. givers = {k \in OnChain(a) : Gives(source, Item(a, k))}
        BY <1>6 DEF GiversOf
    <2>2. \A k \in OnChain(a) : k \in givers <=> <<source, Item(a, k)>> \in Held
        BY <1>2, <2>1, GivesIs DEF OnChain
    <2>3. key \in OnChain(a)
        BY <1>4, <2>1
    <2>4. PICK j \in Items : <<a, key>> = <<j[2], j[3]>>
        BY <2>3 DEF OnChain, IInv, StoresOK
    <2>5. <<"chain", j>> \in Held
        BY <2>3, <2>4, HeldIs DEF OnChain
    <2>6. PICK q \in rows : q.account = a /\ q.key = key /\ q.full = (key \in FullAccess)
        BY <1>1, <2>4, <2>5 DEF IInv, ListedOK
    <2>7. source \in q.sources
        BY <1>3, <1>4, <2>2, <2>3, <2>6 DEF HeldBy, Software
    <2>8. ASSUME NEW p \in listed, p.full
          PROVE  key \in FullAccess
        <3>1. /\ p.key \in FullAccess /\ p.key \in OnChain(a)
              /\ <<source, Item(a, p.key)>> \in Held
            BY <1>3, <2>8 DEF HeldBy
        <3>2. p.key \in givers \cap FullAccess
            BY <2>2, <3>1
        <3>. QED  BY <2>3, <3>2 DEF Pick
    <2>. QED  BY <2>6, <2>7, <2>8
<1>. QED  BY <1>5, <1>6

LEMMA SignAnyInv == ASSUME IInv, SignAny PROVE IInv'
<1>. DEFINE candidates(a, answers, enumerated) ==
                IF answers THEN OnChain(a) ELSE IF enumerated THEN KeysOf(a, cli) ELSE {}
            givers(a, C, s) == IF s = "legacy_file" /\ C = {} THEN KeysOf(a, files)
                               ELSE {k \in C : Gives(s, Item(a, k))}
            first(a, C, s, k) == /\ KeysOf(a, older) = {}
                                 /\ s = FirstOf({q \in Software : givers(a, C, q) # {}})
                                 /\ C = {} \/ k \in Pick(givers(a, C, s))
<1>1. /\ pc \in {"idle", "listed"}
      /\ \E a \in Accounts, answers \in BOOLEAN, enumerated \in BOOLEAN :
            \/ \E k \in KeysOf(a, older) : Signed(NoRow, a, k, "nearxd_keychain", ~answers)
            \/ \E s \in Software : \E k \in givers(a, candidates(a, answers, enumerated), s) :
                  Signed(NoRow, a, k, s,
                         ~ (answers /\ first(a, candidates(a, answers, enumerated), s, k)))
    BY DEF SignAny
<1>2. PICK a \in Accounts, s \in Software, k \in Keys, unclean \in BOOLEAN :
          /\ Signed(NoRow, a, k, s, unclean)
          /\ \/ k \in KeysOf(a, older)
             \/ ~unclean => /\ KeysOf(a, older) = {}
                            /\ k \in givers(a, OnChain(a), s)
                            /\ OnChain(a) = {} \/ k \in Pick(givers(a, OnChain(a), s))
    <2>1. PICK a \in Accounts, answers \in BOOLEAN, enumerated \in BOOLEAN :
            \/ \E k \in KeysOf(a, older) : Signed(NoRow, a, k, "nearxd_keychain", ~answers)
            \/ \E s \in Software : \E k \in givers(a, candidates(a, answers, enumerated), s) :
                  Signed(NoRow, a, k, s,
                         ~ (answers /\ first(a, candidates(a, answers, enumerated), s, k)))
        BY <1>1
    <2>. DEFINE C == candidates(a, answers, enumerated)
    <2>2. C \subseteq Keys /\ (answers => C = OnChain(a))
        BY DEF OnChain, KeysOf
    <2>3. CASE \E k \in KeysOf(a, older) : Signed(NoRow, a, k, "nearxd_keychain", ~answers)
        <3>1. PICK k \in KeysOf(a, older) : Signed(NoRow, a, k, "nearxd_keychain", ~answers)
            BY <2>3
        <3>2. "nearxd_keychain" \in Software /\ (~answers) \in BOOLEAN /\ k \in Keys
            BY DEF Software, Sources, KeysOf
        <3>. QED  BY <3>1, <3>2, Zenon
    <2>4. CASE \E s \in Software : \E k \in givers(a, C, s) :
                  Signed(NoRow, a, k, s, ~ (answers /\ first(a, C, s, k)))
        <3>0. PICK s \in Software : \E k \in givers(a, C, s) :
                  Signed(NoRow, a, k, s, ~ (answers /\ first(a, C, s, k)))
            BY <2>4
        <3>1. PICK k \in givers(a, C, s) :
                  Signed(NoRow, a, k, s, ~ (answers /\ first(a, C, s, k)))
            BY <3>0
        <3>2. k \in Keys
            BY <2>2 DEF KeysOf
        <3>3. ASSUME answers, first(a, C, s, k)
              PROVE  /\ KeysOf(a, older) = {}
                     /\ k \in givers(a, OnChain(a), s)
                     /\ OnChain(a) = {} \/ k \in Pick(givers(a, OnChain(a), s))
            BY <2>2, <3>3
        <3>. DEFINE unclean == ~ (answers /\ first(a, C, s, k))
        <3>4. unclean \in BOOLEAN
            BY Zenon
        <3>. HIDE DEF first, C, givers
        <3>5. ~unclean => answers /\ first(a, C, s, k)
            BY Zenon
        <3>6. Signed(NoRow, a, k, s, unclean)
            BY <3>1
        <3>. HIDE DEF unclean
        <3>. QED  BY <3>2, <3>3, <3>4, <3>5, <3>6, Zenon
    <2>. QED  BY <2>1, <2>3, <2>4
<1>. HIDE DEF first, candidates
<1>3. /\ StoresOK' /\ HistoryOK' /\ SeenOK' /\ RowsOK' /\ ListedOK' /\ LoopOK'
      /\ last' = [row |-> NoRow, account |-> a, key |-> k, source |-> s,
                  clean |-> ~unclean /\ ever = always]
      /\ UNCHANGED <<pc, asked, seen, rows, nodeUp, unlisted, older>>
    BY <1>1, <1>2, SignedKeeps
<1>. DEFINE clean == ~unclean /\ ever = always
            listed == {q \in rows : q.account = a /\ s \in q.sources}
<1>4. clean <=> ~unclean /\ ever = always
    BY Zenon
<1>. HIDE DEF clean
<1>5. /\ last'.row = NoRow /\ last'.account = a /\ last'.key = k
      /\ last'.source = s /\ last'.clean = clean
    BY <1>3 DEF clean
<1>6. ASSUME pc = "listed", clean, Excused(a) = {}, a \in nodeUp, Item(a, k) \notin older
      PROVE  \E q \in listed : q.key = k /\ (q.full \/ \A p \in listed : ~p.full)
    <2>1. /\ ever = always /\ KeysOf(a, older) = {}
          /\ k \in givers(a, OnChain(a), s)
          /\ OnChain(a) = {} \/ k \in Pick(givers(a, OnChain(a), s))
        BY <1>2, <1>4, <1>6 DEF KeysOf
    <2>2. givers(a, OnChain(a), s) = GiversOf(a, s)
        BY DEF GiversOf
    <2>. HIDE DEF givers, listed
    <2>3. \E q \in {p \in rows : p.account = a /\ s \in p.sources} :
             q.key = k /\ (q.full \/ \A p \in {r \in rows : r.account = a /\ s \in r.sources} :
                                        ~p.full)
        BY <1>6, <2>1, <2>2, AnyIsListed
    <2>. QED  BY <2>3 DEF listed
<1>7. Item(a, k)' = Item(a, k) /\ Excused(a)' = Excused(a)
    BY <1>3 DEF Item, Excused
<1>8. SignsAsListed'
    <2>. SUFFICES ASSUME pc = "listed", clean, Excused(a) = {}, a \in nodeUp, Item(a, k) \notin older
                  PROVE  \E q \in listed : q.key = k /\ (q.full \/ \A p \in listed : ~p.full)
        BY <1>3, <1>5, <1>7 DEF SignsAsListed
    <2>. QED  BY <1>6
<1>. QED  BY <1>3, <1>8 DEF IInv
-----------------------------------------------------------------------------
LEMMA StepInv == ASSUME IInv, [Next]_vars PROVE IInv'
<1>1. CASE Next
    BY <1>1, ListKeysInv, FetchAccountInv, MergeAccountInv, SignListedInv, SignAnyInv, ChangeInv
       DEF Next
<1>2. CASE UNCHANGED vars
    <2>1. /\ UNCHANGED <<stores, last, ever, always>> /\ UNCHANGED listing
          /\ UNCHANGED <<pc, asked, seen, todo, account, rows, nodeUp, unlisted>>
          /\ UNCHANGED <<chain, own, older, cli, files, index, ledger>>
        BY <1>2 DEF vars, stores, history, listing
    <2>2. Held' = Held /\ StoresOK'
        BY <2>1 DEF Held, Live, StoresOK, IInv
    <2>3. SeenOK' /\ RowsOK' /\ ListedOK'
        BY <2>1, ListingKept
    <2>4. HistoryOK' /\ LoopOK' /\ SignsAsListed'
        BY <2>1, <2>2 DEF IInv, HistoryOK, LoopOK, SignsAsListed, Item, Excused
    <2>. QED  BY <2>2, <2>3, <2>4 DEF IInv
<1>. QED  BY <1>1, <1>2

\* However the stores change while a listing runs, its rows stay between what
\* held a key all the time, but for what could not be read, and what held it at
\* some time (build_signing_keys).
THEOREM InvariantHolds == Spec => []IInv
BY InitInv, StepInv, PTL DEF Spec

\* A source that is listed for a key held it at some time since the listing
\* began, and one that held it all the time is listed unless reading it failed
\* (build_signing_keys).
THEOREM ListedSourcesTrue == Spec => []SourcesAreTrue
<1>1. IInv => SourcesAreTrue
    BY DEF IInv, RowsOK, RowOK, SourcesAreTrue
<1>. QED  BY <1>1, InvariantHolds, PTL

\* No key of an account that the listing is for is missing, if the files, the
\* index, a node that answered or an enumerated near-cli store had it all the
\* time and could be read (build_signing_keys and discover_signing_accounts).
THEOREM NothingMissing == Spec => []NoKeyMissing
<1>1. ASSUME IInv PROVE NoKeyMissing
    <2>. SUFFICES ASSUME pc = "listed", NEW i \in Items, i[1] = asked, ListedFor(i[2]),
                         \/ <<"legacy_file", i>> \in always /\ "files" \notin seen.unread
                         \/ <<"index", i>> \in always /\ "settings" \notin seen.unread
                         \/ i[2] \in nodeUp /\ <<"chain", i>> \in always
                         \/ i[2] \notin nodeUp \cup unlisted /\ <<"near_cli_secure", i>> \in always
                  PROVE  \E r \in rows : Item(r.account, r.key) = i
        BY DEF NoKeyMissing
    <2>1. i = <<asked, i[2], i[3]>> /\ i[2] \in Accounts
        BY DiscoveryAssumption
    <2>2. Built(i[2])
        BY <1>1, <2>1 DEF IInv, SeenOK, LoopOK, Built
    <2>3. HasRow(i[2], i[3])
        BY <1>1, <2>2 DEF IInv, ListedOK, HasRow
    <2>. QED  BY <2>1, <2>3 DEF HasRow, Item
<1>. QED  BY <1>1, InvariantHolds, PTL

\* When nothing changed since the listing began, what was listed is what signs
\* (resolve_signing_credential against build_signing_keys).
THEOREM ListedSigns == Spec => []SignsAsListed
<1>1. IInv => SignsAsListed
    BY DEF IInv
<1>. QED  BY <1>1, InvariantHolds, PTL
=============================================================================
