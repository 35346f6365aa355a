----------------------------- MODULE BlockFeed ------------------------------
(***************************************************************************)
(* The two sources of blocks: the polling loop run_rpc (src/source_rpc.rs) *)
(* and the WebSocket reader run_ws (src/source_ws.rs), with the block fetch*)
(* they share (src/rpc_utils.rs).  One of them runs, chosen at start-up.   *)
(*                                                                         *)
(* The loop is sequential, but the chunks of a block are fetched by up to  *)
(* POLL_CHUNK_CONCURRENCY tasks on a native build; on wasm one by one.     *)
(* The reader spawns a task for every height it is told of.                *)
(***************************************************************************)
EXTENDS SequencesExt, NearChain

CONSTANTS
    Chunks,         \* the chunks of a block, in its order
    MaxCatchup,     \* poll_max_catchup
    Concurrency,    \* poll_chunk_concurrency
    MaxRetries,     \* the 2 of "attempt < 2" in rpc_post
    Confs           \* the configurations to start with

Conf == [source : {"rpc"}, native : BOOLEAN] \cup [source : {"ws"}, fetchBlocks : BOOLEAN]

ASSUME FeedAssumption ==
    /\ Chain # {} /\ 0 \notin Chain
    /\ MaxCatchup \in 1..100 /\ Concurrency \in 1..16       \* Config's ranges
    /\ MaxRetries \in Nat
    /\ Confs \subseteq Conf

VARIABLES
    conf,
    tip,          \* the height of the final block
    lastHeight,   \* last_height
    startHeight,  \* history: the height the loop started from
    pc,           \* where the loop is
    height,       \* the height it fetches
    endHeight,    \* the last height of this round
    attempt,      \* of the request that is under way
    spawned,      \* how many chunks have been asked for
    tasks,        \* the JoinSet: chunk -> "running", "ok" or "err"
    txs,          \* the chunks whose transactions the row has
    got,          \* history: the chunks of this block that were fetched
    sent,         \* the heights sent as NewBlock, in order
    failed,       \* history: the heights the loop failed to fetch
    told,         \* what the reader made of each announced height
    open          \* is the WebSocket open?

loop == <<lastHeight, startHeight, pc, height, endHeight, attempt>>
row  == <<spawned, tasks, txs, got>>
ws   == <<told, open>>
feedVars == <<conf, tip, loop, row, sent, failed, ws>>

Tip == CHOOSE t \in Chain : \A c \in Chain : c <= t
Empty == [c \in {} |-> "ok"]

FeedInit ==
    /\ conf \in Confs
    /\ tip = CHOOSE t \in Chain : \A c \in Chain : t <= c
    /\ lastHeight = 0 /\ startHeight = 0
    /\ pc = IF conf.source = "rpc" THEN "latest" ELSE "off"
    /\ height = 0 /\ endHeight = 0 /\ attempt = 0
    /\ spawned = 0 /\ tasks = Empty /\ txs = {} /\ got = {}
    /\ sent = <<>> /\ failed = {}
    /\ told = [c \in Chain |-> "none"]
    /\ open = (conf.source = "ws")

\* The chain produces its next block.
Produce ==
    /\ tip < Tip
    /\ tip' = CHOOSE t \in Chain : t > tip /\ \A c \in Chain : c > tip => t <= c
    /\ UNCHANGED <<conf, loop, row, sent, failed, ws>>
-----------------------------------------------------------------------------
\* A transient status: rpc_post tries again, up to MaxRetries times.
Retry ==
    /\ pc \in {"latest", "block"}
    /\ attempt < MaxRetries
    /\ attempt' = attempt + 1
    /\ UNCHANGED <<conf, tip, lastHeight, startHeight, pc, height, endHeight, row, sent, failed,
                   ws>>

Min2(a, b) == IF a <= b THEN a ELSE b

\* Faulty variant: the round starts at the last height instead of after it.
RoundAgain(latest) ==
    LET from == IF lastHeight = 0 THEN latest ELSE lastHeight
    IN  /\ lastHeight' = from
        /\ startHeight' = IF lastHeight = 0 THEN latest ELSE startHeight
        /\ attempt' = 0
        /\ \/ /\ latest > from
              /\ pc' = "block" /\ height' = from /\ endHeight' = Min2(from + MaxCatchup, latest)
           \/ /\ latest <= from
              /\ pc' = "sleep" /\ UNCHANGED <<height, endHeight>>

\* Faulty variant: a round that is behind by more than it may fetch starts
\* with the newest heights.
RoundNewest(latest) ==
    LET from == IF lastHeight = 0 THEN latest ELSE lastHeight
    IN  /\ lastHeight' = from
        /\ startHeight' = IF lastHeight = 0 THEN latest ELSE startHeight
        /\ attempt' = 0
        /\ \/ /\ latest > from
              /\ pc' = "block" /\ endHeight' = latest
              /\ height' = IF latest - from > MaxCatchup THEN latest - MaxCatchup + 1 ELSE from + 1
           \/ /\ latest <= from
              /\ pc' = "sleep" /\ UNCHANGED <<height, endHeight>>

\* Faulty variant: a round is one height short.
RoundShort(latest) ==
    LET from == IF lastHeight = 0 THEN latest ELSE lastHeight
    IN  /\ lastHeight' = from
        /\ startHeight' = IF lastHeight = 0 THEN latest ELSE startHeight
        /\ attempt' = 0
        /\ \/ /\ latest > from
              /\ pc' = "block" /\ height' = from + 1
              /\ endHeight' = Min2(from + MaxCatchup - 1, latest)
           \/ /\ latest <= from
              /\ pc' = "sleep" /\ UNCHANGED <<height, endHeight>>

\* What the loop does with the height of the latest block: the first one it
\* hears of is where it starts, and is not fetched itself.
Round(latest) ==
    LET from == IF lastHeight = 0 THEN latest ELSE lastHeight
    IN  /\ lastHeight' = from
        /\ startHeight' = IF lastHeight = 0 THEN latest ELSE startHeight
        /\ attempt' = 0
        /\ \/ /\ latest > from
              /\ pc' = "block" /\ height' = from + 1 /\ endHeight' = Min2(from + MaxCatchup, latest)
           \/ /\ latest <= from
              /\ pc' = "sleep" /\ UNCHANGED <<height, endHeight>>

\* get_latest_block: nodes behind one endpoint may lag, and a payload without
\* a height reads as 0.
LatestAnswers(latest) ==
    /\ pc = "latest"
    /\ latest <= tip
    /\ Round(latest)
    /\ UNCHANGED <<conf, tip, row, sent, failed, ws>>

LatestFails ==
    /\ pc = "latest"
    /\ pc' = "sleep" /\ attempt' = 0
    /\ UNCHANGED <<conf, tip, lastHeight, startHeight, height, endHeight, row, sent, failed, ws>>

Sleep ==
    /\ pc = "sleep"
    /\ pc' = "latest"
    /\ UNCHANGED <<conf, tip, lastHeight, startHeight, height, endHeight, attempt, row, sent,
                   failed, ws>>
-----------------------------------------------------------------------------
NextHeight ==
    \/ height < endHeight /\ pc' = "block" /\ height' = height + 1
    \/ height >= endHeight /\ pc' = "sleep" /\ height' = height

\* get_block_by_height finds the block.
BlockAnswers(b) ==
    /\ pc = "block" /\ height = b
    /\ height \in Chain /\ height <= tip
    /\ pc' = "chunks" /\ attempt' = 0
    /\ spawned' = 0 /\ tasks' = Empty /\ txs' = {} /\ got' = {}
    /\ UNCHANGED <<conf, tip, lastHeight, startHeight, height, endHeight, sent, failed, ws>>

\* It fails: the height is passed over in this round.
BlockFails ==
    /\ pc = "block"
    /\ failed' = failed \cup {height}
    /\ attempt' = 0
    /\ NextHeight
    /\ UNCHANGED <<conf, tip, lastHeight, startHeight, endHeight, row, sent, ws>>

\* set.len() < chunk_concurrency, which every pass of the spawning loop but a
\* full one leaves behind.
SpawnAllowed == Cardinality(DOMAIN tasks) < Concurrency

Spawn ==
    /\ pc = "chunks" /\ conf.native
    /\ spawned < Len(Chunks)
    /\ SpawnAllowed
    /\ spawned' = spawned + 1
    /\ tasks' = [c \in DOMAIN tasks \cup {Chunks[spawned + 1]} |->
                  IF c \in DOMAIN tasks THEN tasks[c] ELSE "running"]
    /\ UNCHANGED <<conf, tip, loop, txs, got, sent, failed, ws>>

\* A chunk task ends, with the chunk or with an error.
ChunkEnds ==
    /\ pc = "chunks"
    /\ \E c \in DOMAIN tasks, o \in {"ok", "err"} :
          /\ tasks[c] = "running"
          /\ tasks' = [tasks EXCEPT ![c] = o]
          /\ got' = IF o = "ok" THEN got \cup {c} ELSE got
    /\ UNCHANGED <<conf, tip, loop, spawned, txs, sent, failed, ws>>

Without(c) == [d \in DOMAIN tasks \ {c} |-> tasks[d]]

\* The set is full: join_next waits for one task, whose result is dropped.
JoinWhenFull ==
    /\ pc = "chunks" /\ conf.native
    /\ Cardinality(DOMAIN tasks) >= Concurrency
    /\ \E c \in DOMAIN tasks : tasks[c] # "running" /\ tasks' = Without(c)
    /\ UNCHANGED <<conf, tip, loop, spawned, txs, got, sent, failed, ws>>

\* All are spawned: the results of the ones still in the set are taken.
JoinRest ==
    /\ pc = "chunks" /\ conf.native
    /\ spawned = Len(Chunks)
    /\ Cardinality(DOMAIN tasks) < Concurrency
    /\ \E c \in DOMAIN tasks :
          /\ tasks[c] # "running"
          /\ tasks' = Without(c)
          /\ txs' = IF tasks[c] = "ok" THEN txs \cup {c} ELSE txs
    /\ UNCHANGED <<conf, tip, loop, spawned, got, sent, failed, ws>>

\* wasm: the next chunk, with its transactions or with a warning.
WasmChunk ==
    /\ pc = "chunks" /\ ~conf.native
    /\ spawned < Len(Chunks)
    /\ spawned' = spawned + 1
    /\ \E o \in BOOLEAN :
          LET new == IF o THEN {Chunks[spawned + 1]} ELSE {}
          IN  txs' = txs \cup new /\ got' = got \cup new
    /\ UNCHANGED <<conf, tip, loop, tasks, sent, failed, ws>>

\* The row is complete: NewBlock is sent and the height remembered.
Send ==
    /\ pc = "chunks"
    /\ spawned = Len(Chunks) /\ tasks = Empty
    /\ sent' = Append(sent, height)
    /\ lastHeight' = height
    /\ NextHeight
    /\ UNCHANGED <<conf, tip, startHeight, endHeight, attempt, row, failed, ws>>
-----------------------------------------------------------------------------
Tell(b, what) == told' = [told EXCEPT ![b] = what]

\* The socket announces a block: a task is spawned for it, or the bare
\* notification is passed on.
WsBlock(b) ==
    /\ open /\ b <= tip /\ told[b] = "none"
    /\ Tell(b, IF conf.fetchBlocks THEN "fetching" ELSE "bare")
    /\ UNCHANGED <<conf, tip, loop, row, sent, failed, open>>

\* The task has the block; tasks overtake each other.
WsFetched(b) ==
    /\ told[b] = "fetching"
    /\ Tell(b, "block")
    /\ sent' = Append(sent, b)
    /\ UNCHANGED <<conf, tip, loop, row, failed, open>>

\* Faulty variant: a block that cannot be fetched is forgotten.
WsFetchFailsQuietly(b) ==
    /\ told[b] = "fetching"
    /\ Tell(b, "none")
    /\ UNCHANGED <<conf, tip, loop, row, sent, failed, open>>

\* It could not be fetched: the height is passed on without its block.
WsFetchFails(b) ==
    /\ told[b] = "fetching"
    /\ Tell(b, "bare")
    /\ UNCHANGED <<conf, tip, loop, row, sent, failed, open>>

\* A close or a read error ends run_ws, and nothing opens it again; the tasks
\* it has spawned go on.
WsClose ==
    /\ open
    /\ open' = FALSE
    /\ UNCHANGED <<conf, tip, loop, row, sent, failed, told>>

FeedNext ==
    \/ Produce
    \/ Retry \/ (\E l \in Chain \cup {0} : LatestAnswers(l)) \/ LatestFails \/ Sleep
    \/ (\E b \in Chain : BlockAnswers(b)) \/ BlockFails
    \/ Spawn \/ ChunkEnds \/ JoinWhenFull \/ JoinRest \/ WasmChunk \/ Send
    \/ \E b \in Chain : WsBlock(b) \/ WsFetched(b) \/ WsFetchFails(b)
    \/ WsClose

\* Every step of the loop and of the tasks is taken in the end: a request has
\* a timeout, and a retry is bounded.
StepFairness ==
    /\ WF_feedVars(Retry \/ (\E l \in Chain \cup {0} : LatestAnswers(l)) \/ LatestFails
               \/ Sleep \/ (\E b \in Chain : BlockAnswers(b)) \/ BlockFails
               \/ Spawn \/ JoinWhenFull \/ JoinRest \/ WasmChunk \/ Send)
    /\ WF_feedVars(ChunkEnds)
    /\ \A b \in Chain : WF_feedVars(WsFetched(b) \/ WsFetchFails(b))

\* The endpoint does not refuse the same request for ever.
EndpointFairness ==
    /\ SF_feedVars(LatestAnswers(tip))
    /\ \A b \in Chain : SF_feedVars(BlockAnswers(b))

FeedSpec == FeedInit /\ [][FeedNext]_feedVars /\ StepFairness /\ EndpointFairness
-----------------------------------------------------------------------------
\* The polling loop never sends a block twice nor an older one after a newer
\* one, whatever lagging node answers, and what it remembers is what it sent
\* last.
SentAscending ==
    conf.source = "rpc" =>
        /\ \A i, j \in DOMAIN sent : i < j => sent[i] < sent[j]
        /\ lastHeight = IF sent = <<>> THEN startHeight ELSE sent[Len(sent)]

\* A block the loop has gone past without sending it is one it asked for and
\* did not get: catching up in rounds leaves out nothing by itself.
GapsHadFailures ==
    conf.source = "rpc" =>
        \A b \in Chain : startHeight < b /\ b < lastHeight /\ b \notin ToSet(sent) => b \in failed

\* However long the endpoint was down and however far it is behind, the loop
\* gets to every height of the chain.  This takes a block among every
\* MaxCatchup heights: with more of them skipped in a row than a round looks
\* at, no fetch of the round can succeed and the next one is the same.
GapsBelowCatchup ==
    \A b \in Chain : b < Tip => \E c \in Chain : b < c /\ c <= b + MaxCatchup

CatchesUp ==
    GapsBelowCatchup =>
        \A b \in Chain : (conf.source = "rpc" /\ tip >= b) ~> (lastHeight >= b)

\* Every height the socket announced reaches the explorer as a block or as a
\* bare notification, also when the fetch fails or the socket has closed.
AnnouncedIsTold ==
    \A b \in Chain : (told[b] = "fetching") ~> (told[b] \in {"block", "bare"})

\* POLL_CHUNK_CONCURRENCY (.env.example) trades speed for load and nothing
\* else: a block that is sent has the transactions of every chunk that was
\* fetched.
NoChunkLost ==
    [][sent' # sent /\ conf.source = "rpc" => txs = got]_feedVars
=============================================================================
