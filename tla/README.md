# TLA+ for nearx

Specifications, model-checking configurations and proofs kept beside the nearx
source. They concern what the daemon `nearxd` does when requests of several
clients meet, fail half-way, or straddle a restart, and what the block explorer
shows while blocks, answers and keys arrive in any order, which page a deep link opens, and
what a hardware wallet signs. Paths below are those of the
repository, without the leading `src/` of this tree.

## 1. Inventory

nearx is one Rust crate (`src/`, a library and the binaries `nearx`, `nearxd`,
`nearx-proxy`) with helper crates, a Tauri desktop shell, a React front end and
a browser extension with a native messaging host.

| Part | Files | State it keeps | Operations | What is hard about it |
|---|---|---|---|---|
| nearxd transport | `bin/nearxd/socket.rs`, `nearx-broker-ipc` | none; one thread per connection | one JSON line in, one out | requests of two connections interleave anywhere between two locks; answers get lost |
| sign intents | `bin/nearxd/broker.rs` | `BrokerState.sign_intents`: a map behind a mutex | create, approve, consume; a prune before each | mutex held during a prompt of up to 60 s; clock read before waiting; remove before check |
| settings document | `bin/nearxd/settings.rs`, `broker.rs` | one JSON file, `settings_lock` | labels, key index, watched accounts, preferences, hardware keys, whole document | read-modify-write by threads; one writer without the lock; shared temporary path; a kill or full disk during the write |
| credentials, Keychain items | `bin/nearxd/signing.rs`, `credentials.rs`, `keychain.rs` | Keychain items; their protection as noted in the settings index | import, repair, read with backfill, choice of source | delete-then-add; unprotected fallback; item and index change at different times |
| FastNEAR token | `bin/nearxd/token.rs`, `broker.rs` | session copy, Keychain item or file, environment | set, clear, resolve | two stores with a fallback; the file is written in place |
| sign_transaction | `broker.rs`, `signing.rs` | none of its own | waterfall of credential sources, presence gate, signature | which credential signs |
| hardware wallet | `bin/nearxd/hardware_wallet.rs` | device (app, chunk buffer); records in the settings | connect, sign | several threads on one device without a lock; chunks left over; a swapped device; a signature nobody verifies |
| key discovery | `bin/nearxd/signing.rs`, `credentials.rs`, `rpc.rs` | none, reads everything | list accounts, list keys, resolve a credential | four sources and the node disagree, and change while they are read |
| explorer state | `app.rs`, `archival_fetch.rs` | block window, cache, selection, filter, live pause, backwards list | push block, navigate, select, filter, tick | a selection that ages out, blocks twice and out of order, answers that never come |
| block sources | `source_rpc.rs`, `source_ws.rs`, `rpc_utils.rs` | last height; a set of chunk tasks | poll with bounded catch-up; subscribe, a task per height | gaps, lagging nodes, skipped heights, tasks that overtake each other, a full task set |
| history and marks | `history.rs`, `marks.rs`, `bin/nearx.rs` | SQLite behind a worker; marks in memory | persist, search, mark, pin, jump, delete | write-through whose outcome nobody reads; death of the worker; indices into lists that change |
| filter, search queries | `filter.rs`, `history.rs` | none | compile, match | NULL columns, last-of-several tokens |
| deep links | `router.rs`, `tauri-workspace/.../main.rs`, `native-host`, `web/src/App.tsx`, `web/src/tauri` | plugin's current link, pending links, subscription, last route | open, canonicalize, deliver, show | two parsers; two openers; nearxd and sidecar come and go; a gap between reading and subscribing |
| web client and hooks | `web/src/api`, `web/src/hooks` | cache, requests in flight, pages | get, bypass, next page, reset | answers that belong to an earlier key |
| plugins | `nearx-plugin-core`, `plugins/*` | registry | register, dispatch | sequential |
| rendering, CORS proxy, archive | `ui*.rs`, `bin/nearx-proxy`, `archive` | - | - | layout, stateless relay, unbuilt code |

Interactions. A client (terminal UI, desktop shell, browser extension through the
native host) opens a Unix socket to nearxd and sends one request at a time; the
thread of the connection calls `Broker::handle_request`. The handlers share
`BrokerState` (token session, token store, sign intents, settings lock), the
settings file and the Keychain. `sign_transaction` reads the settings index and
the credentials, or has the Ledger sign; import, repair and Ledger connection write
both. The desktop shell starts a nearxd of its own when none runs. The explorer side
is a single event loop that a block source, an archival fetcher and the history
worker feed through channels.

What makes each part correct:

- *Sign intents*: a payload leaves the daemon at most once, only after an
  approval, after a prompt when the intent asks for one, and before its deadline;
  refused, expired or restarted intents never come back; a failed prompt does not
  block everybody else.
- *Settings*: a request takes effect at one instant if and only if it is answered
  as saved; a reader never sees half a document; nothing another request did is
  lost.
- *Credentials*: an overwritten item is there again afterwards; the index says
  "biometric" only after a successful biometric write.
- *Token*: what is answered as persisted is what a restarted daemon finds; what is
  answered as cleared is gone (neither is so with the auto backend, section 4).
- *Hardware wallet*: the device signs exactly the request's transaction, at the path
  whose key the record names, and a record binds a key to an account that has it.
- *Key discovery*: what is listed of a key was true while the listing ran, no key is
  missing that a source it could read had, and what was listed as the source is what signs.
- *Explorer*: bounded, ordered windows, a selection that stays on the block it
  names until the user moves it, a backwards list of ancestors of that block.
- *Block sources*: each height once and in order; a gap means a failed fetch; every
  height is reached; an announced height is never swallowed; a block has the
  transactions of every chunk that was fetched.
- *History and marks*: memory and database agree once the worker is idle; a search
  sees what was received before it; no key hangs.
- *Deep links*: what is opened means what was asked for, once; what is shown is the
  page of the link (not for every link, section 4); a link that waits is read or replaced
  by a later one.
- *Web client*: what is shown belongs to the current key.

`PROJECT.json` lists the hazards with the source line where each bites and the
properties that cover it.

## 2. Modules

| Module | Models | Composition |
|---|---|---|
| `IntentLifecycle` | what nearxd promises about intents: phases unborn, pending, approved, released, dropped | abstract |
| `SignIntents` | threads, mutex, clock, prompt, map | implements `IntentLifecycle` (`ImplementsLifecycle`) |
| `SettingsDocument` | the document and what each request does to it (`Apply`) | pure operators |
| `AtomicSettings` | every request takes effect at one instant iff "saved" | abstract, on `SettingsDocument` |
| `SettingsStore` | lock, temporary file, descriptors, failures, restarts | implements `AtomicSettings` (`ImplementsAtomic`) |
| `Connections` | the threads of nearxd: place, request and answer of each | - |
| `KeychainCredentials` | one key: its item, its index record, the requests on both | EXTENDS `Connections`; uses that settings saves are atomic, as `SettingsStore` shows |
| `TokenStore` | session copy, file, Keychain, auto backend | EXTENDS `Connections` |
| `Ledger` | threads, the device with its app and chunk buffer, the records | uses that settings saves are atomic |
| `KeyDiscovery` | listing and signing with many keys, four sources and a node, other requests in between | a storing step is one step, as `KeychainCredentials` takes it apart |
| `TxFilter` | what a filter lets through | pure operators, used by `Explorer` |
| `NearChain` | the heights at which NEAR has a block | - |
| `Explorer` | the App's blocks, selection and archive requests | EXTENDS `TxFilter` and `NearChain` |
| `BlockFeed` | `run_rpc`, `run_ws` and the block fetch they share | EXTENDS `NearChain`; the feed of `Explorer`, which allows any order of blocks and bare heights |
| `HistoryDb` | the tables and statements of the history, as functions of a database value | pure operators |
| `JumpMarks` | the terminal loop's history part, the marks in memory, the worker | EXTENDS `HistoryDb` |
| `Router` | parsing and writing of links, and the front end's own map to a page | pure operators |
| `DesktopLinks` | native host, nearxd, shell, plugin and front end | EXTENDS `Router` |
| `MC*` | instances for TLC | - |
| `SignIntentsProofs`, `SettingsStoreProofs`, `LedgerProofs`, `KeyDiscoveryProofs`, `JumpMarksProofs`, `DesktopLinksProofs` | theorems about the module in the name (section 5) | EXTENDS that module and `TLAPS`; `DesktopLinksProofs` also proves about `Router`, `JumpMarksProofs` about `HistoryDb` |
| `CredentialProofs` | theorems about `KeychainCredentials` and `TokenStore` | EXTENDS both |
| `BlockPathProofs` | theorems about `Explorer` and `BlockFeed` | EXTENDS both |

Modules whose theorems share a proof module also share their common constants and
variables through a small module, and the names of the second one carry a prefix
(`TokenInit`, `FeedSpec`); each is still a specification of its own.

`SignIntents`, `SettingsStore`, `KeychainCredentials` and `TokenStore` have the same shape.
`pc[c]` is where the thread of connection `c` is, `req[c]` its request, `answer[c]` (or
`outcome[c]`) what it is about to write. A step is the code between two points where another
thread, the clock or a kill can get in between: taking a mutex, a file operation, a Keychain
call, a prompt. `Receive` is `serve_connection` reading a line, `Reply` writing the response
*or failing to*: after a lost answer the client may send the same request again, on any
connection, so retries and duplicates are among the behaviours. `Restart` is a kill at any
step, followed by a new daemon with empty memory. Variables marked *history* record what
happened and are never read by a guard of the code's steps.

### SignIntents

`Cleanup` is `cleanup_expired_intents`: it prunes with the clock value read in
`Receive`, before the wait for the mutex. `StampCreate`/`Insert` are
`create_sign_intent`: the deadline is computed before the mutex is asked for.
`ApproveRefused`, `ApproveDirect`, `OpenPrompt`, `PromptPassed`, `PromptFailed`
are `approve_sign_intent`; the mutex is a variable (`holder`) only because
`OpenPrompt` keeps it over a step - every other critical section is one step.
`ConsumeRefused`/`Consume` are `consume_sign_intent`, which removes the entry
before it looks at it. Payload, origin and account are data that no handler reads;
the challenge is a Boolean of the request.

### SettingsStore

`Load` takes `settings_lock`, reads the file and edits the document in memory;
`set_signing_settings` (`Raw`) does neither. `Open`, `Write`, `Publish` are the
three calls of `write_signing_settings_file`. Because all writers use one
temporary path, `fd[c]` follows an open file through a rename: `"tmp"`, `"main"`
or `"gone"`. A write over bytes that another writer left can leave a torn file
(`Overlaid`). `SettingsDocument!Apply` has one case per kind of request; records
carry the year they were last seen, because pruning is by a year. A file that
cannot be parsed, or holds no object, counts as no document in the requests that
read it.

### KeychainCredentials

`StoreCheck`, `StoreDelete`, `StoreAdd`, `StoreAddFails` are
`store_near_credential_keychain` with its three callers (import, backfill of an
item named after the account, repair). `ImportState` is the path of an import
that skipped an existing item and reports `settings_before`. `Save` is the index
update; an import without `save_settings` leaves it out. `CheckProtection` is
`sign_transaction`'s test of an explicit `nearxd_keychain`. The Keychain and its
entitlement error (-34018) are external; the delete may fail unnoticed, and the
unprotected write also takes over where no access control object can be made.

### TokenStore

`SetSession` ... `WriteFile`, `ClearSession` ... `ClearFile`, `ResolveSession` ...
`ResolveFile`: one step per store touched, as in the code, with the backend a restart may
change. A write of the file that fails may have truncated it only. `disturbed` records that
another mutation ran during a request; the properties speak of undisturbed requests, as no
two stores can be changed at once.

### Explorer

App runs on one thread, so each handler is one action: `LiveBlock`, `LiveStub` and
`ArchiveAnswers` are `on_event` with `push_block` inside, `Tick` is `on_tick`, the rest are
the keys and clicks of the blocks pane. `blocks`, `cache` (the rows and the LRU order, two
collections as in the code), `sel`, `follow`, `paused`, `loading`, `backAnchor`, `backSlots`
are App's fields; `requests` are what the archival task has not answered: a request is
answered or, without a word to App, fails - the oldest first by the native task, any by the
browser's. A row is a height and whether it is a block or the bare height a WebSocket source
sends when its fetch failed; one filter is on or off, and which blocks pass it is
`TxFilter`'s business. The feed may send each height once in any order, which covers the RPC
source (increasing, with gaps) and the WebSocket source (a task per height). The main loop
handles one input, the queued events and a tick per round; the model allows every order of
them. A deep link is applied before anything else happens. The fullscreen flag is left out:
it only disables the navigation keys until it is cleared. `held` is history: was the
selected block there when it was selected?

### BlockFeed

One source runs, chosen by `conf`. `LatestAnswers`, `Round`, `BlockAnswers`,
`BlockFails`, `Send`, `Sleep` are the loop of `run_rpc`; `Retry` is `rpc_post` trying
again. A lagging node may answer any height up to the tip. `Spawn`, `ChunkEnds`,
`JoinWhenFull`, `JoinRest` are the native build's chunk tasks, `tasks` their `JoinSet`;
`WasmChunk` fetches one after the other. `WsBlock`, `WsFetched`, `WsFetchFails` are
the reader and its task per height; `WsClose` ends the reader for good, as nothing
opens the socket again.

### HistoryDb and JumpMarks

A database value is blocks with their transactions and a set of marks; each SQL
statement is an operator on it, NULL included. The loop sends messages to the worker
(`queue`) and waits for every answer but that of a block (`wait`). `WorkerFailsRead`
and the second disjunct of `WorkerWrites` are statements that fail; `WorkerPersists`
may end the worker, `HangUp` is the closed channel that a waiting key then finds.
`Restart` is a new start after a quit or a kill: only `db` survives. `received`, the
blocks in the order in which they came (on top of what a restart found in the database),
and `failed` are history.

### Router and DesktopLinks

A link is a scheme, the slashes behind it, segments and query pairs; percent-encoding,
letter case and the spelling of a block are functions between tokens. `ParseDeepLink`
is the router, `MapToPage` the front end's parser, which sees the link through `URL`.
In `DesktopLinks`, `HostAsks` ... `HostNext` are the native host with the broker's
"open_deep_link" in between, `StandaloneFlips` and `SidecarFlips` who listens,
`SetupReadsCurrent`, `SetupSpawns`, `SetupDrains` the shell's setup, `FrontLoads`,
`FrontReadsCurrent`, `FrontListens`, `EffectRunsAgain` the front end. The host goes by
the words of an error: it opens the link itself when nearxd cannot be reached and also
when nearxd's own opener was not found (second disjunct of `BrokerOpens`). A link that
arrives is delivered to the plugin; its fate is recorded in `arrivals` (history). The
events the shell emits reach nobody: no listener of "nearx://open" exists in the front
end.

### Ledger

`AskApp`, `QuitApp`, `OpenApp` are `ledger_open_near_app`, a transport each; `GetKey`
and `Bind` finish a connection, `OpenToSign`, `SendChunk`, `SendLastChunk` a
signature, whose transport stays open over its chunks. The device keeps a buffer of
chunks; the version command empties it, but its error is only logged, and then the
chunks may follow those of an earlier request. Such a request is marked (`mixed`), and
`PayloadWellFormed` is about the others: those that found or made the buffer empty. The
transport is exclusive (macOS opens HID devices so) to nearxd's threads; where it is not,
`PayloadWellFormed` does not hold, because two threads' chunks mix and no lock is held
around the device. Other programs that talk to the device, and the network of a record,
are left out. `Crash`, `UserStarts` and `PlugIn`
are what happens around it. `seed` names the device that a record was made with, which
the code does not store.

### KeyDiscovery

`ListKeys` reads settings and files, for one account or all that it finds, and takes what
it cannot read for empty (`unread`): a credential file, a directory, with it all the
files, the settings. `FetchAccount` is one account's node query with the
probes that follow, `MergeAccount` the pass over index and files; then `SignListed` is
the signing page with a listed row, `SignAny` a client that names no key. `Change` is
any other request, near-cli or the chain, between two of these steps. `ever` and
`always` are history: what was held at some time, or all the time, since the listing
began.

## 3. Runs

| Run | Instance | Shows |
|---|---|---|
| `sign_intents` | 2 connections, 2 intents, clock 0..1, a requested lifetime of 9 clamped to 1 | `AtMostOnce`, `ReleasedWasAuthorised`, `ReleasedFresh`, `PromptedIntentStays`, `ImplementsLifecycle`; a thread that is never done waits for prompts of others (`WaitsOnlyForPrompts`) |
| `settings` | 2 connections, every kind of request, 2 years | `WholeFile`; `ImplementsAtomic` (refinement of `AtomicSettings`) as long as `set_signing_settings` runs alone; `OneLockedWriter`; who hangs waits for the lock (`WaitsOnlyForLock`) |
| `settings_raw` | the same, `set_signing_settings` beside a locked writer | **violated** `StoredAsAnswered`: a document answered "stored" is not the stored one |
| `keychain` | 2 connections, 8 requests, with and without the entitlement | `BiometryWasVerified`, `ItemComesBack` |
| `tokens` | 2 connections, 2 tokens, 3 backends | `StoredIsPersisted`, `ClearedIsGone` |
| `explorer` | 4 blocks, heights 0..4, window 3, cache 3, contexts 1, 2 inputs, 3 requests waiting | `WindowOrdered`, `CacheMatchesOrder`, `FollowsOrLocked`, `BackChainUnbroken`, `SelectionSurvives` |
| `feed` | 4 blocks over 5 heights, 2 heights a round, 3 chunks of which 2 at a time, 1 retry, both sources, native and wasm | `SentAscending`, `GapsHadFailures`, `CatchesUp`, `AnnouncedIsTold` |
| `chunk_loss` | the same, native polling | **violated** `NoChunkLost`: a block is sent without the transactions of a chunk that was fetched |
| `history` | 2 labels, 1 context, 3 blocks (a height twice, a transaction at two heights), 5 inputs, 1 restart | cursor and labels stay valid (`TypeOK`), `MarksMirrored`, `OverlayCurrent`, `KeyAnswered`, `SearchIsCurrent` |
| `links` | 6 links (alias, escaped, rejected, undecodable, session, and one with the block in the path, shown as home), 2 arrivals, 1 start or stop of a nearxd | `OpenedAsAsked`, `AnswerIsTrue`, `ShownIsAsked`, `WaitingIsRead`, no page without its argument (`TypeOK`) |
| `ledger` | 2 threads, 2 devices with 2 paths, transactions of 1 and 3 chunks, 4 requests, 2 mishaps | `PayloadWellFormed`, `RecordIsOwned`, `SignatureVerifies` |
| `discovery` | 2 accounts listed one after the other, 4 keys on 2 networks, 4 sources, 1 change by others or failed reading | `SourcesAreTrue`, `NoKeyMissing`, `SignsAsListed` |

Operators commented *Faulty variant* are no part of the specification, but plausible
mistakes that each property is tried against (`PROJECT.json` says which): with
the variant in place of the operator that follows, TLC finds the property violated in
the same run.

Bounds and why they are enough to meet the hazards. Two connections: every hazard of the
daemon is between two requests (a lock holder or prompt and one other, a retry and its
original). Two intents: one can be pruned, consumed or approved while a thread is busy with
the other. Clock 0..1 with a lifetime of 1: an intent born at 0 expires before, during or
after a wait or a prompt, one born at 1 does not; that longer lifetimes and clocks change
nothing is left to the proofs. Two tokens: a stale token differs from a new one. One key,
one label, one account in the settings: merging is per key, and the lost update is between
sections of one document. `MaxYear` 2: a record can be a year behind. In the explorer, four
blocks are more than the window and the cache hold, one height is skipped, one block can be
further ahead than `FrontWindow`, and two inputs select, move away or resume in between;
`MaxRequests` bounds the archive's queue and delays what would ask for more. In the feed,
the chain is longer than two rounds, a round can begin with the skipped height, and one
chunk has to wait for another. In `history` the labels run out (a third mark replaces the
oldest), one block replaces another of its height with fewer transactions, a third takes a
transaction of a lower height over, and five inputs are a mark, its pin, the list, a delete
and one more, or two blocks and a search. Two links: the second replaces, overtakes or
follows the first. In the Ledger run, a signature needs a connection before it, so four
requests are two of each, and the longer transaction has chunks to interrupt. In
`discovery`, a network shares a key with another one, an older item belongs to one of two
keys of an account, one account is named by accounts.json and the other by files, items or
the index only, and one change adds, removes or hides something before or after it was read.
Symmetry is over connections, ids and tokens, which no handler compares or orders; runs with
a liveness property use none. Deadlock is checked in the daemon's first four modules and in
`Explorer`; in the other runs the bounds on inputs and events let the system come to rest.

Fairness. In `SignIntents` and `SettingsStore` it is weak fairness of each thread's
`Handle`: the operating system runs a thread that can run, and the presence adapter
ends a prompt after 60 seconds. `std::sync::Mutex` promises no order, so strong
fairness is not assumed and the liveness properties say what is left without it: a
thread that is never done is one that keeps losing the mutex to others. `BlockFeed` has
weak fairness of the loop and of each task (requests have a timeout, retries are
bounded), and strong fairness of an answer to the same request, that is, an endpoint
does not refuse one block for ever; `CatchesUp` also needs a block among every
`MaxCatchup` heights, and says so (`GapsBelowCatchup`). `JumpMarks` has weak fairness of
the worker thread and of the closed channel's wake-up; `DesktopLinks` of the shell's
setup and of the front end's effects, none of nearxd, which may never answer, nor of
anybody who opens a link. The other modules state safety only, and assume no fairness.

## 4. What the runs found

1. **Transactions of fetched chunks are dropped** (`chunk_loss`). When more chunks are
   to be fetched than `POLL_CHUNK_CONCURRENCY` allows, `fetch_block_with_txs` waits for
   a task with `let _ = set.join_next().await;` and drops the chunk it returns. A block
   with more chunks than that setting is shown without part of its transactions.
2. **`set_signing_settings` takes no lock** (`settings_raw`) and shares the
   temporary path: it can publish another writer's document or a torn file, or be
   undone, and answer `"stored": true`.

Modelled as the code has it, and seen in the models without a run of its own:

- *A persisted token may not be the one in use*. With the auto backend the file takes a
  token the Keychain refused (token.rs:83), the answer says `"persisted": true`, and after a
  restart the Keychain's older token is read first (`Shadowed` in `StoredIsPersisted`).
- *A cleared token may come back*. `macos_keychain_delete_generic` drops the error of the
  delete (keychain.rs:404), so that the auto backend never gets to clear its fallback file,
  although it means to (token.rs:98-109), and the answer is `"cleared": true` whatever is
  left in Keychain and file. `ClearedIsGone` speaks of the store with the file backend only.
- *Links that the documents name are shown as home*. The router accepts them, but the front
  end's own parser (deeplink.ts:27) reads no `nearx://tx/<block>/<hash>`, which
  `DEEP_LINK_URI_SPEC.md` (197) maps to the page of the transaction, and no contract or
  access-key link, which `QA_PLAYBOOK.md` (68-75) wants "routed correctly"; the spec's "no
  silent fallback to unrelated route" (259) does not hold of these. `ShownIsAsked`
  therefore says that nothing but home or the right page is shown, and home only for them,
  for a scheme `web+...`, for other slashes than two and for words in upper case.
- *A label cannot be cleared*: `upsert_signing_key_index` (settings.rs:516) keeps the
  old label when the new one is `None`, which is also how "clear" is written; the
  request is answered as saved and the editor says "Label cleared."
- *The index decides, not the item* (broker.rs:1301): after an import that overwrote the
  item without saving settings, or a repair that ended in
  `ERR_KEYCHAIN_PROTECTION_FAILED`, the index still calls the item biometric and an
  explicit `nearxd_keychain` signs with it.
- *A kill while the token file is written* (token.rs:186) leaves it empty or cut, and so
  does a write that fails and is answered as failed: the token before it is gone.
- *Chunks left in the Ledger* (hardware_wallet.rs:350): after a failed version command,
  which is only logged, a payload can begin with another request's chunks. The device
  shows what it decoded, and a mixture does not decode to another transaction.
- *A block link loses its lock* (app.rs:2128): `push_block` drops a selection whose
  block is neither in the window nor in the cache, which a block link's is until the
  archive answers; the next block of any kind is locked instead.
- *Action and method filters match no block* (app.rs:452, 602): the JSON handed to the
  filter has no actions (`Listed`; a TODO in the code says so).
- In auto-follow mode a filter can keep an old block on view; a live block more than 50
  ahead then pauses live updates although nobody is pinned (app.rs:2013). `loading_block`
  is not reset by a failed fetch. A historical block that a full window pops at once is
  asked for again by the tick. The cache keeps a bare height when the full block arrives.
- *A round of skipped heights repeats for ever* (source_rpc.rs:63): only a fetched block
  moves `last_height`. `CatchesUp` has the premise that rules it out; NEAR does not
  usually skip that many heights in a row.
- *The socket is not opened again* after a close (source_ws.rs:48).
- *A search is not what Enter does* after the query was edited while hits are listed: it
  opens the selected old hit (nearx.rs:326). The loop persists transactions without
  signer, receiver and actions (nearx.rs:191), so that a search for these finds nothing.
- *Links*: a link that a running nearxd rejects passes as a strict v1 link, because any
  error counts as "not running" (tauri main.rs:198), and a cold start canonicalizes
  before the sidecar runs (718-722); both only feed an event nobody listens to. A link
  that cannot be decoded ends the subscription when it is the current one, and links
  between `getCurrent` and `onOpenUrl` are missed (`"threw"`, `"missed"` in `arrivals`).
- *Discovery*: one nested directory that cannot be read empties the list of credential
  files (signing.rs:235), and with the node down their keys are missing without an error;
  the network of a wallet's record is not looked at when keys are listed
  (signing.rs:275); without the node, a key that only the nearxd Keychain holds and the
  index does not is not listed; the node asked is one, whatever network was requested
  (rpc.rs:21); a wallet's record that is a year old counts for nothing although the wallet
  still signs.

Met while reading, without a model: a mark takes its transaction from the whole block by an
index into the filtered list (`current_context`, app.rs:2244), so that under a filter it
names another one than the selected. A block without matching transactions, and a block that
arrives after a link selected it, leave the details of an earlier transaction on view, as
only the selecting refreshes them (app.rs:1315). `docs/NEARXD.md` gives the default
resolution of `sign_transaction` as Keychain, near-cli store, failure (564-568) where the
code also tries the credential files, and an auto-import on signing (574) that the code does
not have; `get_signing_settings` no longer reports `"source": "keychain"`.

## 5. What is proved

Every component that is modelled has theorems, for every value of the constants that its
assumptions allow: any number of connections, requests, keys, links or blocks. All safety
invariants and action properties of the runs are among them, and both refinements.
Each proof has the same outline. `IInv` is an inductive invariant, named part by
part; lemmas show that the initial states satisfy it and that every step keeps it, with
one step or lemma per action and, below it, one per part of `IInv` the action can
disturb; `InvariantHolds` (or `InductiveInvariant`) is
`Spec => []IInv`, and the theorems after it draw the properties of the runs from it.
TLC has checked every `IInv` on the instance of the run as well. Theorems named
below state the property in parentheses. No liveness is assumed: they hold of `Spec`
whatever the scheduling.

**`SignIntentsProofs`** - `TypeCorrect`, `ReleasedOnce` (`AtMostOnce`),
`ReleasedAuthorised` (`ReleasedWasAuthorised`), `PromptStable` (`PromptedIntentStays`),
`ReleaseIsFresh` (the action property `ReleasedFresh`), and `Refinement`
(`ImplementsLifecycle`): the handlers implement `IntentLifecycle`.
None of the invariants is inductive alone. `IInv` adds `EntriesOK` - an entry in
the map was born, was never released, still has the deadline and presence flag it
was born with, and if it is approved somebody endorsed it and, where presence is
required, the user witnessed it; `HistoryOK` - only born ids have a birth record
or a release; `ThreadsOK` - a thread is only where its kind of request leads, and
the mutex is kept over a step by a thread in a prompt only. `AtMostOnce` needs
`EntriesOK` (an entry that is there has release count 0) and `Consume` removing
the entry; `PromptedIntentStays` needs `ThreadsOK` and is itself what makes
`PromptPassed` type-correct (the entry is still there after the prompt). The
refinement has one step per action, with `DropStep` for the actions that lose intents
(prune, refused consume, restart) and `PhaseCases` to compute phases.

**`SettingsStoreProofs`** - `LockedWriterIsOne` (`OneLockedWriter`), `FileIsWhole`
(`WholeFile`) and `Refinement` (`ImplementsAtomic`): lock, shared temporary file, rename,
failures and restarts together are a document on which each request takes effect at
one instant, exactly if it is answered as saved. `WholeFile` follows from no property
of the main file alone: `OwnFile` says that the temporary file is the writer's own,
empty before its write and its document after it, which needs `Locked` (a
read-modify-write has the lock) and `Alone` (without `overlap`, `set_signing_settings`,
which has no lock, runs beside nobody). The refinement also needs `UpToDate`: what a
thread is about to publish is still what its request makes of the stored document, in a
year up to the present one. Both theorems are about runs without `overlap`; the run
`settings_raw` shows what happens with it.

**`CredentialProofs`**, the token (`TokenInv`) - `StoredPersists` and `ClearedGoes`, the
action properties `StoredIsPersisted` (under auto with the exception
of an older token in the Keychain) and
`ClearedIsGone` (the session everywhere, the store with the file backend).
`Exclusive`: two mutations at the same time both know of it; hence `Undisturbed`: one that
knows of none finds the session as it left it and its descriptor on the linked, empty file.

**`CredentialProofs`**, the key (`IInv`) - `BiometryIsVerified` (`BiometryWasVerified`) and
`ItemIsBack` (`ItemComesBack`). The index can be written long after the Keychain was, from
an update a thread carries or from a look at the index it took at its start: `ClaimsOK` says
that these, too, call a key biometric only after a biometric write.

**`LedgerProofs`** - `RecordsOwned` (`RecordIsOwned`), `SignaturesVerify`
(`SignatureVerifies`), and `PayloadsWhole`, which has `Exclusive` as a hypothesis:
`PayloadWellFormed`, about requests that found or made the buffer empty, holds where a
second transport cannot be opened, as on macOS. The first two need no such hypothesis: a
payload that decodes ends with the chunk just sent (`DecodedIsOwn`), so it is that thread's
transaction, whoever sent the rest. `ThreadOK` says what a thread knows of the key it
carries - connect has just read it from the device, sign has it from a record that some
device was read for; `TransportOK` that the NEAR app holds exactly the chunks that the one
open transport sent, unless its version command failed and left others in front (`mixed`).

**`KeyDiscoveryProofs`** - `ListedSourcesTrue` (`SourcesAreTrue`), `NothingMissing`
(`NoKeyMissing`), `ListedSigns` (`SignsAsListed`). A listing reads its sources one after the
other while they change, so no part of it is a view of one moment. `SeenOK` and `RowOK`
therefore put what the snapshot and each row say between `always` (held since the listing
began) and `ever` (held at some time since); `ListedOK` says which keys the accounts reached
so far have rows for, source by source, with what could not be read left out (`unread`,
`unlisted`); `NewRow`, `MergedRows` and `NodeAnswersRows` are the lemmas about the three
ways a row comes about. For `SignsAsListed`, where nothing changed, the bounds meet, and
`PreferredIsFirst` relates the row's preferred source to the order in which the waterfall
tries them.

**`BlockPathProofs`**, the sources (`FeedInv`) - `SentInOrder` (`SentAscending`) and
`GapsAreFailures` (`GapsHadFailures`), both about the polling loop, and `FewChunksAreKept`:
with `Len(Chunks) < Concurrency` no chunk that was fetched is lost, the bound at which the
defect of `chunk_loss` begins. `SentOrdered` needs the bounds of every sent height, since
the next one could otherwise repeat an old one; `RoundPlace` says that a round has asked for
every height between the last one sent and the one it is at, from which `GapsFailed` follows
when it sends. `Chunky` counts the chunks of the block in hand.

**`BlockPathProofs`**, the explorer (`IInv`) - `WindowIsOrdered` (`WindowOrdered`),
`CacheAndOrderAgree` (`CacheMatchesOrder`), `FollowingOrLocked` (`FollowsOrLocked`),
`AncestorsUnbroken` (`BackChainUnbroken`) and `SelectionStays`, the action property
`SelectionSurvives`. The window alone cannot keep a selected block, as it is trimmed:
`HeldIsCached` says that a block which was there when it was selected is in the cache. That
no step of the feed, the archive or the clock evicts it again is `StepKeeps`: with a held
selection these leave selection and cache alone, as a pushed block touches the cache only
when the explorer locks on to it by itself, and then nothing was selected. When a key
selects a block, it is cached with its context, and is then near the end of the order
(`TouchedOK`), so that evicting from the front down to `MaxCached` cannot reach it
(`EvictOK`): the order is at least as long as the contexts on both sides, which is what
`MaxCached >= 2 * CacheContext + 1` in the assumption is for. `NothingYet` says that a deep
link, the only input that selects a block not on hand, comes before any block.
`BackChainUnbroken` needs no strengthening, but that an available block is the row of its
height (`BlockFound`).

**`JumpMarksProofs`** - `TypesHold` (`TypeOK`), `MarksAgree` (`MarksMirrored`),
`OverlayIsCurrent` (`OverlayCurrent`) and `SearchesAreCurrent`, the action property
`SearchIsCurrent`. `IInv` has two halves. `MarksInv`: before the message whose answer a key
awaits the queue has blocks only (`QueueOK`), and that message is the one the key sent
(`AskOK`); a label has one row (`DbOK`); hence the marks in memory are, while a statement on
them is under way, what the database will have once it has run (`Mirror`) - the lemmas about
`Put`, `Remove` and `SetPinned` in memory and in SQL. `SearchInv`: for some `k` the
rows are what the first `k` blocks received come to (`Known`), and the later ones are the
messages at the front of the queue, in order (`StoredTo`). `Known` takes from each block
what no later one made `Outdated`, by coming with the same height or the same
transaction; `KnownGrows` and `RowsGrow` say that one more block changes it as the two SQL
statements change the table, so that a transaction that moves to another height is lost
to neither side. A search is served after every block before it in the channel, when `k`
is all of them.

**`DesktopLinksProofs`** - about the parsers, for links of any length: `RoundTrip`, the
canonical URI of every link the router accepts parses to the same route, and the lemma
`MappedAgrees`, the front end's own parser makes of a link the router accepts the page of
its route or home, and of a link it can read (`Plain`), to a page it has (`Has`), that page.
About the path: `TypeCorrect` (no page without its argument, whatever arrives or was saved),
`OpensWhatWasAsked` (`OpenedAsAsked`, from `RoundTrip`), `AnswersAreTrue` (`AnswerIsTrue`)
and `LinksShowTheirPage` (the action property `ShownIsAsked`, from `MappedAgrees`).
`HostPart` has `OpenedOnce`: the host gets to its own opener only when nearxd was not
reached or failed to open the link; `LinkPart` says that the plugin's current link is the
last arrival and only that one can be waiting, so that what the front end reads is the link
whose fate it settles.

Assumptions, all named in the module that declares the constants and evaluated by TLC
in every run. Most say that a value which stands for "none" is no value
(`NoConn`, `NoRequest`, `NoRow`, `NoFile`; answers are not tokens) or give ranges
that `Config` clamps to. Those about data:

- `RouterAssumption`: a text that is percent-encoded and decoded is the same text;
  identifiers, words and block references decode to themselves, since they have no character
  that is escaped; writing a block reference twice changes nothing; only the empty token
  decodes to nothing, and identifiers and block references are not empty, as their
  validators reject that. `RawLink` has no empty segment because the router filters those.
- `JsAssumption`: a token that Rust cannot decode makes `decodeURIComponent` throw, which
  may throw for more, but never for a plain identifier.
- `LinksAssumption`: a page that the user goes to and that takes an argument has one.
- `LedgerAssumption`: different seeds and paths have different keys, and an implicit account
  is named by its key, so that it is no named account.
- `DiscoveryAssumption`: there is at most one older Keychain item for a network and
  account, because it is named after these two.
- `ExplorerAssumption`: the cache holds at least a block with its context on both sides
  (300 against 2 * 50 + 1 in `app.rs` and `constants.rs`); the set filter is not empty.
- `MarksAssumption`: the automatic labels are distinct; a block has finitely many
  transactions.
- `SignIntents`: `1 <= MinTtl <= MaxTtl`; lifetimes are naturals.

Induction. What a loop or a sort computes is stated by its result where it can be
(`Evict` cuts a prefix off, `List` and `Search` are a sequence in the order of the code).
`Touched`, a recursive function, and the theorems that count need an induction over a
number, which is by hand, from a smallest counterexample: `LeastExists`, `SetInduction` and
`Recursion` in `BlockPathProofs`. That a finite set has a sorted enumeration at all is
`SortingExists` in `JumpMarksProofs`.

What the proofs changed. The choice of the preferred source (`Preferred`) had two
overlapping cases, one of which TLC always picked; the guard now says which comes first,
as the code's `if`s do. `LinkPart` had to say which arrival can wait, `RawLink` that no
segment is empty. In the explorer and the marks, operators of the community modules that
are defined by recursion (`SelectSeq`, `SortSeq`, `@@`) gave way to definitions by index,
which TLC evaluates to the same values: `Touch`, `Touched`, `Shown`, `List`, `Without`
and `Search`. `MarksAssumption` had to say that the words `after` may hold are no labels.

What stays with TLC: every liveness property (`WaitsOnlyForPrompts`, `WaitsOnlyForLock`,
`CatchesUp`, `AnnouncedIsTold`, `WaitingIsRead`, `KeyAnswered`). They need fairness and
ENABLED, which this prover does not handle. `TxFilter` and the query parser of
`HistoryDb` are used in the proofs without a theorem of their own: which transactions pass
matters to none of the properties above.

## 6. What is not modelled, and why

- Parsing of characters, formatting, cryptography: action parser, signatures, JSON
  framing, the splitting of queries and links into tokens. No state; the repository's
  unit tests cover them.
- In the settings: validation of parameters before the lock (an early error
  without effect), the `near_credentials` section and hardware metadata of a
  record, loss of power (no fsync in the code, so the file system decides), a
  second daemon on the same file, which removes the socket of the first.
- In the credentials: several keys in one request, platforms without Keychain
  protections.
- In the hardware wallet: `list_hardware_wallets` and `hardware_wallet_status`, which
  only read, and the adapters that are compiled out.
- In key discovery: the listing of accounts, an exhaustive read that says which source
  hints at an account; access-key permissions beyond full access or not; nonces.
- In the explorer: the transactions and details panes, which the native build fills from
  the block on view (the task that fetches details, whose late answer is shown whatever is
  selected by then, app.rs:2036, is started by the archived browser build only); layout
  state; a build without an archive.
- In the desktop path: the shell's other commands, each a relay to nearxd; window
  plumbing; the crate's library half (`lib.rs`, `deeplink.rs`), which `main.rs` does not
  call.
- Web client and hooks: planned. Pages: views of answers, but for how the signing page
  picks its source (`SignListed`).
- Rendering, CORS proxy, plugins, archive: no state of their own, sequential, or unbuilt.

## 7. Plan

In order of importance:

1. The transactions and details panes, with the context that a mark takes from them;
   `BlockFeed` composed with `Explorer` in place of its free feed.
2. `ApiCache` and `InfiniteScroll` - joined requests, time to live, bypass,
   answers for an earlier key.
3. A second daemon beside `SettingsStore`; plugin registry last.
