------------------------------ MODULE Explorer ------------------------------
(***************************************************************************)
(* The block explorer's App (src/app.rs): the rolling window of blocks,    *)
(* the cache of blocks that must survive it, the selection, the filter,    *)
(* the pausing of live updates and the backwards fill, with the archival   *)
(* fetch task (src/archival_fetch.rs) and the live feed that send it       *)
(* events.                                                                 *)
(*                                                                         *)
(* App runs on one thread, so every handler is one action; what interleaves*)
(* is the live feed, the answers of the archive, the ticks and the user.   *)
(* The keys act on the blocks pane; transactions and details are left out, *)
(* and so is the fullscreen flag: it disables the navigation keys until it *)
(* is cleared, which the user always can and which changes nothing here.   *)
(* An archive is configured (archival_fetch_tx is Some).                   *)
(***************************************************************************)
EXTENDS SequencesExt, TxFilter, NearChain

CONSTANTS
    None,
    KeepBlocks,         \* keep_blocks
    FrontWindow,        \* FRONT_WINDOW
    BackTarget,         \* back_slots_target
    CacheContext,       \* CACHE_CONTEXT_BLOCKS
    ArchivalContext,    \* ARCHIVAL_CONTEXT_BLOCKS
    MaxCached,          \* MAX_TOTAL_CACHED
    PageRows,           \* the rows the right arrow moves by
    Txs,                \* the transactions of each block: [hash, signer, receiver]
    FilterQuery,        \* the filter that may be set, as TxFilter has it
    Stubs,              \* can the feed send a height without its block (WS)?
    Browser,            \* is the archival task the browser's?
    Routes,             \* the heights a deep link at start-up may ask for
    MaxInputs,          \* bound: user inputs
    MaxRequests         \* bound: heights waiting for the archive

ASSUME ExplorerAssumption ==
    /\ None \notin Nat
    /\ {KeepBlocks, BackTarget, PageRows} \subseteq Nat \ {0}
    /\ {FrontWindow, CacheContext, ArchivalContext} \subseteq Nat
    /\ MaxCached \in Nat /\ MaxCached >= 2 * CacheContext + 1
    /\ Stubs \in BOOLEAN /\ Browser \in BOOLEAN
    /\ DOMAIN Txs = Chain /\ ~IsEmpty(CompileFilter(FilterQuery))
    /\ Routes \subseteq Nat
    /\ MaxInputs \in Nat /\ MaxRequests \in Nat

VARIABLES
    blocks,     \* the window, newest first
    cache,      \* cached_blocks as rows, cached_block_order as order
    sel,        \* sel_block_height
    follow,     \* follow_blocks_latest
    paused,     \* live_updates_paused
    filter,     \* is a filter set?
    loading,    \* loading_block
    requests,   \* the heights the archival task has not answered, oldest first
    backAnchor, \* back_anchor_height
    backSlots,  \* the heights of back_slots
    fed,        \* the heights the live feed has sent
    inputs,     \* the number of user inputs so far
    held        \* history: was the selected block there when it was selected?

list == <<blocks, cache>>
focus == <<sel, follow, held>>
archive == <<loading, requests>>
back == <<backAnchor, backSlots>>
vars == <<list, focus, paused, filter, archive, back, fed, inputs>>

\* A stub is the row of a height whose block could not be fetched: it has
\* neither transactions nor a previous block.
BlockRow(h, full) == [height |-> h, full |-> full]

Lower(h) == {x \in Chain : x < h}
HasPrev(b) == b.full /\ Lower(b.height) # {}

PrevHeight(b) == Max(Lower(b.height))

-----------------------------------------------------------------------------
(* The window and the cache *)

InWindow(w, h) == \E i \in DOMAIN w : w[i].height = h

IndexOf(w, h) == SelectInSeq(w, LAMBDA b : b.height = h)

Available(w, c, h) == InWindow(w, h) \/ h \in DOMAIN c.rows

IsBlockAvailable(h) == Available(blocks, cache, h)

BlockByHeight(h) ==
    IF InWindow(blocks, h) THEN blocks[IndexOf(blocks, h)] ELSE cache.rows[h]

\* count_matching_txs is not 0: a stub has no transactions.
Matching == {h \in Chain : \E t \in Txs[h] : TxMatchesFilter(Listed(t), CompileFilter(FilterQuery))}

PassesFilter(b) == b.full /\ b.height \in Matching

\* The block on view: the selected one, else the newest that passes the filter.
CurrentBlocks ==
    IF sel # None
    THEN {BlockByHeight(h) : h \in {x \in {sel} : IsBlockAvailable(x)}}
    ELSE LET i == SelectInSeq(blocks, LAMBDA b : ~filter \/ PassesFilter(b))
         IN  {blocks[j] : j \in {i} \ {0}}

\* Where a block goes: before the first lower one, at the front if it is newest.
InsertPosition(w, h) ==
    LET i == SelectInSeq(w, LAMBDA b : b.height < h)
        newest == w = <<>> \/ h >= w[1].height
    IN  IF newest THEN 1 ELSE IF i = 0 THEN Len(w) + 1 ELSE i

Trim(w) == SubSeq(w, 1, IF Len(w) > KeepBlocks THEN KeepBlocks ELSE Len(w))

\* Faulty variant: a block that is not the newest goes to the end.
InsertedAtEnd(w, b) ==
    Trim(IF w = <<>> \/ b.height >= w[1].height THEN <<b>> \o w ELSE Append(w, b))

Inserted(w, b) == Trim(InsertAt(w, InsertPosition(w, b.height), b))

\* The height moves to the end of the order, which lists it at most once; a row
\* that is cached already stays as it is.
Touch(c, b) ==
    [order |-> Append(RemoveFirst(c.order, b.height), b.height),
     rows  |-> [h \in DOMAIN c.rows \cup {b.height} |->
                   IF h \in DOMAIN c.rows THEN c.rows[h] ELSE b]]

\* The cache after the first, the second, ... of these rows of the window.
Touched(c, rows) ==
    LET after[n \in 0 .. Len(rows)] == IF n = 0 THEN c ELSE Touch(after[n - 1], rows[n])
    IN  after[Len(rows)]

\* Faulty variant: only the order is shortened.
EvictOrderOnly(c) ==
    LET over == IF Len(c.order) > MaxCached THEN Len(c.order) - MaxCached ELSE 0
    IN  [c EXCEPT !.order = SubSeq(c.order, over + 1, Len(c.order))]

Evict(c) ==
    LET over == IF Len(c.order) > MaxCached THEN Len(c.order) - MaxCached ELSE 0
    IN  [order |-> SubSeq(c.order, over + 1, Len(c.order)),
         rows  |-> Restrict(c.rows, DOMAIN c.rows \ ToSet(SubSeq(c.order, 1, over)))]

CacheBlockWithContext(w, c, center) ==
    LET i == IndexOf(w, center)
        first == IF i > CacheContext THEN i - CacheContext ELSE 1
        last == Min({i + CacheContext, Len(w)})
    IN  IF i = 0 THEN c ELSE Evict(Touched(c, SubSeq(w, first, last)))

-----------------------------------------------------------------------------
(* Requests to the archive *)

\* request_archival_block for each of hs in turn: loading_block only remembers
\* the last height asked for.
RequestArchivalBlocks(ld, queue, hs) ==
    LET asked == IF hs # <<>> /\ hs[1] = ld THEN Tail(hs) ELSE hs
    IN  /\ Len(queue) + Len(asked) <= MaxRequests
        /\ requests' = queue \o asked
        /\ loading' = IF hs = <<>> THEN ld ELSE Last(hs)

Missing(w, c, hs) == SetToSortSeq({h \in hs : ~Available(w, c, h)}, LAMBDA x, y : x < y)

Behind(h) == IF h > ArchivalContext THEN h - ArchivalContext ELSE 0

Around(center, ahead) == ((Behind(center) .. center) \cup (center .. ahead)) \ {center}

EnsureBlockWindow(w, c, center, ahead, ld, queue) ==
    /\ RequestArchivalBlocks(ld, queue, Missing(w, c, Around(center, ahead)))
    /\ cache' = CacheBlockWithContext(w, c, center)

\* No block above the newest known one is asked for.
KnownAhead(w, center) ==
    Min({center + ArchivalContext, IF w = <<>> THEN center ELSE w[1].height})

\* Faulty variant: the blocks on hand are not put in the cache.
EnsureWithoutCache(w, c, center, ld, queue) ==
    /\ RequestArchivalBlocks(ld, queue, Missing(w, c, Around(center, KnownAhead(w, center))))
    /\ cache' = c

EnsureBlockWindowByChain(w, c, center, ld, queue) ==
    EnsureBlockWindow(w, c, center, KnownAhead(w, center), ld, queue)

-----------------------------------------------------------------------------
Init ==
    /\ blocks = <<>>
    /\ cache = [order |-> <<>>, rows |-> <<>>]
    /\ sel = None /\ follow = TRUE /\ held = FALSE
    /\ paused = FALSE
    /\ filter \in BOOLEAN       \* default_filter
    /\ loading = None /\ requests = <<>>
    /\ backAnchor = None /\ backSlots = <<>>
    /\ fed = {} /\ inputs = 0

Lock(w, h) ==
    /\ sel' = h
    /\ follow' = FALSE
    /\ held' = Available(w, cache, h)

\* Faulty variant: following is resumed with the selection kept.
ResumeOnly ==
    /\ follow' = TRUE
    /\ UNCHANGED <<sel, held>>

Unlock ==
    /\ sel' = None
    /\ follow' = TRUE
    /\ held' = FALSE

\* push_block: the block goes into the window; then the selection follows.
AutoLock(w, b, ld, queue) ==
    /\ follow /\ sel = None
    /\ ~filter \/ PassesFilter(w[1])
    /\ Lock(w, b.height)
    /\ EnsureBlockWindowByChain(w, cache, b.height, ld, queue)

KeepFocus(w) ==
    /\ IF follow THEN sel # None \/ (filter /\ ~PassesFilter(w[1]))
                 ELSE sel = None \/ Available(w, cache, sel)
    /\ UNCHANGED focus

FallBack(w) ==
    /\ ~follow /\ sel # None /\ ~Available(w, cache, sel)
    /\ Unlock

PushBlock(b, ld, queue) ==
    LET w == Inserted(blocks, b)
    IN  /\ blocks' = w
        /\ \/ AutoLock(w, b, ld, queue)
           \/ /\ KeepFocus(w) \/ FallBack(w)
              /\ loading' = ld /\ requests' = queue
              /\ UNCHANGED cache

\* on_event(NewBlock): a block too far ahead of the one on view pauses live
\* updates, and while they are paused any block ahead of it is dropped.
DropBlock(ld, queue) ==
    /\ paused' = TRUE
    /\ loading' = ld /\ requests' = queue
    /\ UNCHANGED <<list, focus>>

OnNewBlock(b, queue) ==
    LET ld == IF loading = b.height THEN None ELSE loading
        far == IF paused THEN 0 ELSE FrontWindow
        ahead == \E a \in CurrentBlocks : b.height > a.height + far
    IN  \/ ahead /\ DropBlock(ld, queue)
        \/ ~ahead /\ PushBlock(b, ld, queue) /\ UNCHANGED paused

-----------------------------------------------------------------------------
(* The live feed and the archival task *)

LiveBlock(h) ==
    /\ h \notin fed
    /\ fed' = fed \cup {h}
    /\ OnNewBlock(BlockRow(h, TRUE), requests)
    /\ UNCHANGED <<filter, back, inputs>>

\* on_event(FromWs(Block)): the block could not be fetched.
LiveStub(h) ==
    /\ Stubs /\ h \notin fed
    /\ fed' = fed \cup {h}
    /\ PushBlock(BlockRow(h, FALSE), loading, requests)
    /\ UNCHANGED <<paused, filter, back, inputs>>

\* The native task serves one request after the other; the browser's starts them
\* all at once.
Answered(i) == i \in DOMAIN requests /\ (Browser \/ i = 1)

ArchiveAnswers(i) ==
    /\ Answered(i) /\ requests[i] \in Chain
    /\ OnNewBlock(BlockRow(requests[i], TRUE), RemoveAt(requests, i))
    /\ UNCHANGED <<filter, back, fed, inputs>>

\* The task logs the error; nobody tells App.
ArchiveFails(i) ==
    /\ Answered(i)
    /\ requests' = RemoveAt(requests, i)
    /\ UNCHANGED <<list, focus, paused, filter, loading, back, fed, inputs>>

-----------------------------------------------------------------------------
(* The tick: maybe_step_backchain *)

ClearBack == backAnchor' = None /\ backSlots' = <<>>

\* Faulty variant: the slots of the block seen before are kept.
AnchoredAnywhere(cur) ==
    IF backSlots # <<>> THEN backSlots
    ELSE IF HasPrev(cur) THEN <<PrevHeight(cur)>> ELSE <<>>

\* The slots, reset to the parent when another block is on view.
Anchored(cur) ==
    IF backAnchor = cur.height THEN backSlots
    ELSE IF HasPrev(cur) THEN <<PrevHeight(cur)>> ELSE <<>>

Extended(cur, slots) ==
    LET deepest == IF slots = <<>> THEN cur ELSE BlockByHeight(Last(slots))
    IN  IF HasPrev(deepest) /\ ~Contains(slots, PrevHeight(deepest))
        THEN Append(slots, PrevHeight(deepest)) ELSE slots

\* One request or one more ancestor a second: the rest of the time it is throttled.
StepBackchain(cur, throttled) ==
    LET slots == Anchored(cur)
        absent == SelectInSeq(slots, LAMBDA h : ~IsBlockAvailable(h))
        moved == backAnchor # cur.height
        done == throttled \/ Len(slots) >= BackTarget
    IN  /\ throttled => ~moved
        /\ backAnchor' = cur.height
        /\ \/ done /\ backSlots' = slots /\ UNCHANGED archive
           \/ ~done /\ absent # 0 /\ backSlots' = slots
              /\ RequestArchivalBlocks(loading, requests, <<slots[absent]>>)
           \/ ~done /\ absent = 0 /\ backSlots' = Extended(cur, slots) /\ UNCHANGED archive

Tick ==
    /\ \/ CurrentBlocks = {} /\ ClearBack /\ UNCHANGED archive
       \/ \E cur \in CurrentBlocks, throttled \in BOOLEAN : StepBackchain(cur, throttled)
    /\ UNCHANGED <<list, focus, paused, filter, fed, inputs>>

-----------------------------------------------------------------------------
(* The user *)

\* The heights of the window's rows that pass the filter.
Shown ==
    LET heights[n \in 0 .. Len(blocks)] ==
            IF n = 0 THEN <<>>
            ELSE IF ~filter \/ PassesFilter(blocks[n])
                 THEN Append(heights[n - 1], blocks[n].height) ELSE heights[n - 1]
    IN  heights[Len(blocks)]

\* get_navigation_list: the window through the filter, with the selected block
\* where it belongs when only the cache has it.  All of it is available.
NavigationList ==
    LET heights == Shown
        after == SelectInSeq(heights, LAMBDA h : h < sel)
    IN  IF sel = None \/ InWindow(blocks, sel) \/ sel \notin DOMAIN cache.rows
        THEN heights
        ELSE InsertAt(heights, IF after = 0 THEN Len(heights) + 1 ELSE after, sel)

Input == inputs < MaxInputs /\ inputs' = inputs + 1 /\ UNCHANGED <<fed, filter>>

\* Lock to a block and cache it, with and without asking for what lies around it.
View(h) ==
    /\ Lock(blocks, h)
    /\ cache' = CacheBlockWithContext(blocks, cache, h)
    /\ UNCHANGED <<blocks, paused, archive, back>>

Visit(c, h) ==
    /\ Lock(blocks, h)
    /\ EnsureBlockWindowByChain(blocks, c, h, loading, requests)
    /\ UNCHANGED <<blocks, paused, back>>

ViewAndVisit(h) == Visit(CacheBlockWithContext(blocks, cache, h), h)

Up ==
    LET nav == NavigationList
        i == SelectInSeq(nav, LAMBDA h : h = sel)
    IN  /\ Input /\ nav # <<>>
        /\ \/ i = 0 /\ View(nav[1])
           \/ i > 1 /\ ViewAndVisit(nav[i - 1])

Down ==
    LET nav == NavigationList
        i == SelectInSeq(nav, LAMBDA h : h = sel)
    IN  /\ Input /\ nav # <<>>
        /\ \/ i = 0 /\ sel # None /\ View(nav[1])
           \/ i = 0 /\ sel = None /\ View(nav[Min({2, Len(nav)})])
           \/ i # 0 /\ i < Len(nav) /\ ViewAndVisit(nav[i + 1])

Right ==
    LET nav == NavigationList
        from == IF sel # None THEN sel ELSE nav[1]
        i == SelectInSeq(nav, LAMBDA h : h = from)
        j == Min({i + PageRows, Len(nav)})
    IN  /\ Input /\ nav # <<>>
        /\ i # 0 /\ j # i
        /\ Visit(cache, nav[j])

\* "Go to current": resume the live stream.
Left ==
    /\ Input /\ blocks # <<>>
    /\ Unlock
    /\ paused' = FALSE
    /\ ClearBack
    /\ UNCHANGED <<list, archive>>

SelectBlockRow(i) ==
    /\ Input /\ i \in DOMAIN NavigationList
    /\ ViewAndVisit(NavigationList[i])

JumpToMark(h) ==
    /\ Input /\ InWindow(blocks, h)
    /\ Visit(cache, h)

\* apply_filter, clear_filter and set_filter_query leave the selection alone.
SetFilter ==
    /\ inputs < MaxInputs /\ inputs' = inputs + 1
    /\ filter' = ~filter
    /\ UNCHANGED <<list, focus, paused, archive, back, fed>>

\* Entering fullscreen from the blocks pane asks for the heights on both sides,
\* those that do not exist yet included.
EnterFullscreen ==
    /\ Input
    /\ \E b \in CurrentBlocks :
         EnsureBlockWindow(blocks, cache, b.height, b.height + ArchivalContext,
                           loading, requests)
    /\ UNCHANGED <<blocks, focus, paused, back>>

\* A deep link on the command line is applied before anything arrives: a block
\* clears the filter, a transaction (with the block as a hint) sets it.
ApplyRoute(h) ==
    /\ inputs = 0 /\ MaxInputs > 0 /\ inputs' = 1
    /\ fed = {}
    /\ filter' \in BOOLEAN
    /\ Lock(blocks, h)
    /\ RequestArchivalBlocks(loading, requests, <<h>>)
    /\ UNCHANGED <<list, paused, back, fed>>

UserInput ==
    \/ Up
    \/ Down
    \/ Left
    \/ Right
    \/ \E i \in 1 .. KeepBlocks + 1 : SelectBlockRow(i)
    \/ \E h \in Chain : JumpToMark(h)
    \/ SetFilter
    \/ EnterFullscreen
    \/ \E h \in Routes : ApplyRoute(h)

Next ==
    \/ \E h \in Chain : LiveBlock(h)
    \/ \E h \in Chain : LiveStub(h)
    \/ \E i \in 1 .. MaxRequests : ArchiveAnswers(i)
    \/ \E i \in 1 .. MaxRequests : ArchiveFails(i)
    \/ Tick
    \/ UserInput

Spec == Init /\ [][Next]_vars

-----------------------------------------------------------------------------
\* Blocks come from the live feed and from the archive in any order and may come
\* twice: the window still lists them newest first and never outgrows keep_blocks
\* (push_block).
WindowOrdered ==
    /\ Len(blocks) <= KeepBlocks
    /\ \A i, j \in DOMAIN blocks : i < j => blocks[i].height >= blocks[j].height

\* However often blocks are viewed, cached_block_order lists exactly the cached
\* heights, each once: eviction neither leaks a block nor drops one it still lists
\* (cache_block_with_context).
CacheMatchesOrder ==
    /\ ToSet(cache.order) = DOMAIN cache.rows
    /\ Cardinality(ToSet(cache.order)) = Len(cache.order)
    /\ Len(cache.order) <= MaxCached

\* A block is selected exactly when auto-follow is off, so that no handler can leave
\* the explorer following with a selection, or following nothing (push_block, left,
\* the navigation keys).
FollowsOrLocked == follow <=> sel = None

\* A block that was there when it was selected stays selected and stays on view until
\* the user does something, whatever arrives and ages out meanwhile ("maintain locked
\* block height", push_block; cached_blocks).
SelectionSurvives ==
    [][held /\ inputs' = inputs => sel' = sel /\ Available(blocks', cache', sel)]_vars

\* The backwards list is an unbroken line of ancestors of the block it is anchored at,
\* never longer than its target, however the block on view changes between ticks
\* (maybe_step_backchain).
BackChainUnbroken ==
    /\ backSlots # <<>> => backAnchor # None
    /\ Len(backSlots) <= BackTarget
    /\ \A i \in DOMAIN backSlots :
         LET child == IF i = 1 THEN backAnchor ELSE backSlots[i - 1]
         IN  Lower(child) # {} /\ backSlots[i] = Max(Lower(child))
=============================================================================
