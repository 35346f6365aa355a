----------------------------- MODULE JumpMarks ------------------------------
(***************************************************************************)
(* The terminal explorer's history: the loop of src/bin/nearx.rs that      *)
(* persists the blocks it receives and handles the keys for search and     *)
(* jump marks, JumpMarks (src/marks.rs) with its copy of the marks in      *)
(* memory, and the worker that owns the database (src/history.rs).         *)
(*                                                                         *)
(* The loop sends the worker messages over an unbounded channel.  It does  *)
(* not wait after a block, and waits after everything else.  An error of   *)
(* one statement ends the worker when it persists a block, and is dropped  *)
(* when it writes a mark.                                                  *)
(***************************************************************************)
EXTENDS HistoryDb

CONSTANTS
    LABELS,         \* the labels for automatic marks, in order
    Contexts,       \* the contexts a mark can be set in: [pane, height, tx]
    Blocks,         \* the blocks the sources may send: [height, txs]
    Queries,        \* the queries the user may type, as sequences of tokens
    MaxClock,       \* bound: milliseconds that pass
    MaxInputs,      \* bound: keys pressed and blocks received
    MaxQueue,       \* bound: messages waiting for the worker
    MaxStarts       \* bound: times the explorer is started

ASSUME MarksAssumption ==
    /\ LABELS \in Seq(ToSet(LABELS)) /\ LABELS # <<>> /\ IsInjective(LABELS)
    /\ {Null, "reopen"} \cap ToSet(LABELS) = {} /\ Null # "reopen"
    /\ \A c \in Contexts : c.pane \in 0..2 /\ c.height \in Nat \cup {Null}
    /\ \A b \in Blocks : b.height \in Nat /\ IsFiniteSet(b.txs)
    /\ {MaxClock, MaxInputs, MaxQueue, MaxStarts} \subseteq Nat /\ MaxStarts # 0

VARIABLES
    db,
    worker,     \* "starting", "running" or "ended"
    queue,      \* the messages it has not taken
    wait,       \* the operation whose answer the loop awaits, or "none"
    after,      \* what a key does after that: pin a label, "reopen", or Null
    mode,       \* input_mode, "load" before the loop and "quit" after it
    marks,      \* JumpMarks.marks
    cursor,     \* JumpMarks.cursor
    overlay,    \* app.marks_list
    overlaySel, \* app.marks_selection
    query,      \* app.search_query
    results,    \* app.search_results
    resultSel,  \* app.search_selection
    clock, inputs, starts,
    received,   \* history: the blocks received, in order, after those found at the start
    failed      \* history: did a statement on the marks fail in this session?

user  == <<marks, cursor>>
lists == <<overlay, overlaySel, query, results, resultSel>>
hist  == <<received, failed>>
meta  == <<clock, inputs, starts>>
vars  == <<db, worker, queue, wait, after, mode, user, lists, meta, hist>>

\* main, before its loop: the worker is started and asked for the marks.
Start ==
    /\ worker' = "starting" /\ queue' = <<[op |-> "list"]>>
    /\ wait' = "list" /\ after' = Null /\ mode' = "load"
    /\ marks' = <<>> /\ cursor' = 0
    /\ overlay' = <<>> /\ overlaySel' = 0
    /\ query' = <<>> /\ results' = <<>> /\ resultSel' = 0

Init ==
    /\ db = EmptyDb
    /\ worker = "starting" /\ queue = <<[op |-> "list"]>>
    /\ wait = "list" /\ after = Null /\ mode = "load"
    /\ marks = <<>> /\ cursor = 0
    /\ overlay = <<>> /\ overlaySel = 0
    /\ query = <<>> /\ results = <<>> /\ resultSel = 0
    /\ clock = 0 /\ inputs = 0 /\ starts = 1
    /\ received = <<{}>> /\ failed = FALSE

\* A message to the worker; the channel of a worker that has ended drops it.
Tell(m) == queue' = IF worker = "ended" THEN queue ELSE Append(queue, m)

Ask(m) == Tell(m) /\ wait' = m.op
-----------------------------------------------------------------------------
\* JumpMarks.list: newest first, marks of the same time in their order.
Before(ms, i, j) == ms[i].when > ms[j].when \/ (ms[i].when = ms[j].when /\ i < j)

List(ms) ==
    LET order == CHOOSE p \in SetToSeqs(DOMAIN ms) :
                     \A i, j \in DOMAIN p : i < j => Before(ms, p[i], p[j])
    IN  [k \in DOMAIN ms |-> ms[order[k]]]

Labelled(l) == {i \in DOMAIN marks : marks[i].label = l}

\* next_auto_label: the first free label, else that of the first oldest mark.
NextAutoLabel ==
    LET free == {i \in DOMAIN LABELS : Labelled(LABELS[i]) = {}}
    IN  IF free # {} THEN LABELS[CHOOSE i \in free : \A j \in free : i <= j]
        ELSE marks[CHOOSE i \in DOMAIN marks :
                      \A j \in DOMAIN marks : \/ marks[i].when < marks[j].when
                                              \/ marks[i].when = marks[j].when /\ i <= j].label

\* find_by_context: by the transaction when there is one, else by height and
\* pane, else by the pane alone; the first such mark.
SameContext(m, c) ==
    \/ c.tx # Null /\ m.tx = c.tx
    \/ c.tx = Null /\ m.tx = Null /\ m.pane = c.pane /\ m.height = c.height

Pin(l, p) ==
    marks' = [i \in DOMAIN marks |->
                 IF i \in Labelled(l) THEN [marks[i] EXCEPT !.pinned = p] ELSE marks[i]]

\* Faulty variant: a mark that is replaced is written through as unpinned.
AddOrReplaceUnpinned(l, c) ==
    LET m == [label |-> l, pane |-> c.pane, height |-> c.height, tx |-> c.tx, when |-> clock,
              pinned |-> \E i \in Labelled(l) : marks[i].pinned]
    IN  /\ marks' = IF Labelled(l) = {} THEN Append(marks, m)
                    ELSE [i \in DOMAIN marks |-> IF i \in Labelled(l) THEN m ELSE marks[i]]
        /\ cursor' = 0
        /\ Ask([op |-> "put", mark |-> [m EXCEPT !.pinned = FALSE]])

\* add_or_replace: a mark replaced under its label stays pinned or unpinned.
AddOrReplace(l, c) ==
    LET m == [label |-> l, pane |-> c.pane, height |-> c.height, tx |-> c.tx, when |-> clock,
              pinned |-> \E i \in Labelled(l) : marks[i].pinned]
    IN  /\ marks' = IF Labelled(l) = {} THEN Append(marks, m)
                    ELSE [i \in DOMAIN marks |-> IF i \in Labelled(l) THEN m ELSE marks[i]]
        /\ cursor' = 0
        /\ Ask([op |-> "put", mark |-> m])

\* retain: no two marks share a label (TypeOK), so one mark goes at most.
Without(l) ==
    IF Labelled(l) = {} THEN marks ELSE RemoveAt(marks, CHOOSE i \in Labelled(l) : TRUE)

\* Faulty variant: the cursor stays where it is.
RemoveByLabelKeepsCursor(l) ==
    /\ marks' = Without(l)
    /\ UNCHANGED cursor
    /\ Ask([op |-> "del", label |-> l])

\* remove_by_label
RemoveByLabel(l) ==
    LET left == Without(l)
    IN  /\ marks' = left
        /\ cursor' = IF cursor >= Len(left) /\ cursor > 0 THEN Len(left) - 1 ELSE cursor
        /\ Ask([op |-> "del", label |-> l])
-----------------------------------------------------------------------------
\* The loop goes on after an answer about the marks: Ctrl+P pins the mark it
\* has just added, 'd' shows the list again.
Continue(rest) ==
    \/ /\ after = Null
       /\ wait' = "none" /\ queue' = rest
       /\ UNCHANGED <<after, mode, user, lists>>
    \/ /\ after = "reopen"
       /\ wait' = "none" /\ queue' = rest
       /\ after' = Null /\ mode' = "marks"
       /\ overlay' = List(marks) /\ overlaySel' = 0
       /\ UNCHANGED <<user, query, results, resultSel>>
    \/ /\ after \in ToSet(LABELS)
       /\ Pin(after, TRUE)
       /\ wait' = "pin" /\ after' = Null
       /\ queue' = IF worker = "ended" THEN rest
                   ELSE Append(rest, [op |-> "pin", label |-> after, pinned |-> TRUE])
       /\ UNCHANGED <<mode, cursor, lists>>

\* The answer to the other calls: found is what the worker sends, or the
\* empty default when it has ended or its statement has failed.
CloseSearch == mode' = "normal" /\ query' = <<>> /\ results' = <<>> /\ resultSel' = 0

Listed(ms) ==
    /\ marks' = ms /\ mode' = "normal"
    /\ UNCHANGED <<cursor, lists>>

Found(hits) ==
    /\ results' = hits /\ resultSel' = 0
    /\ UNCHANGED <<mode, user, overlay, overlaySel, query>>

Opened(raw) ==
    \/ raw # Null /\ CloseSearch /\ UNCHANGED <<user, overlay, overlaySel>>
    \/ raw = Null /\ UNCHANGED <<mode, user, lists>>
-----------------------------------------------------------------------------
\* The worker.  Opening the database or preparing a statement may fail.
WorkerStarts ==
    /\ worker = "starting"
    /\ \/ worker' = "running" /\ UNCHANGED queue
       \/ worker' = "ended" /\ queue' = <<>>
    /\ UNCHANGED <<db, wait, after, mode, user, lists, meta, hist>>

Serves(op) == worker = "running" /\ queue # <<>> /\ Head(queue).op = op

\* An error while it persists a block ends it, with all that is queued.
WorkerPersists ==
    /\ Serves("persist")
    /\ \/ /\ db' = Persist(db, Head(queue).block)
          /\ queue' = Tail(queue) /\ UNCHANGED worker
       \/ worker' = "ended" /\ queue' = <<>> /\ UNCHANGED db
    /\ UNCHANGED <<wait, after, mode, user, lists, meta, hist>>

WorkerWrites ==
    /\ Serves("put") \/ Serves("del") \/ Serves("pin")
    /\ LET m == Head(queue)
       IN  \/ /\ db' = CASE m.op = "put" -> PutMark(db, m.mark)
                         [] m.op = "del" -> DelMark(db, m.label)
                         [] m.op = "pin" -> SetPinned(db, m.label, m.pinned)
              /\ UNCHANGED failed
           \/ failed' = TRUE /\ UNCHANGED db
    /\ Continue(Tail(queue))
    /\ UNCHANGED <<worker, meta, received>>

WorkerLists ==
    /\ Serves("list")
    /\ \/ (\E ms \in ListMarks(db) : Listed(ms)) /\ UNCHANGED failed
       \/ Listed(<<>>) /\ failed' = TRUE
    /\ wait' = "none" /\ queue' = Tail(queue)
    /\ UNCHANGED <<db, worker, after, meta, received>>

WorkerSearches ==
    /\ Serves("search")
    /\ Found(Search(db, Head(queue).query))
    /\ wait' = "none" /\ queue' = Tail(queue)
    /\ UNCHANGED <<db, worker, after, meta, hist>>

WorkerGets ==
    /\ Serves("get")
    /\ Opened(RawOf(db, Head(queue).hash))
    /\ wait' = "none" /\ queue' = Tail(queue)
    /\ UNCHANGED <<db, worker, after, meta, hist>>

\* A read fails: it is answered like an empty database.
WorkerFailsRead ==
    /\ \/ Serves("search") /\ Found(<<>>)
       \/ Serves("get") /\ Opened(Null)
    /\ wait' = "none" /\ queue' = Tail(queue)
    /\ UNCHANGED <<db, worker, after, meta, hist>>

\* Faulty variant: only the calls a worker left unanswered end with it.
HangUpReads ==
    /\ worker = "ended" /\ wait \in {"list", "search", "get"}
    /\ wait' = "none"
    /\ \/ wait = "list" /\ Listed(<<>>)
       \/ wait = "search" /\ Found(<<>>)
       \/ wait = "get" /\ Opened(Null)
    /\ UNCHANGED <<db, worker, queue, after, meta, hist>>

\* The worker has ended: whoever waits for it gets the default.
HangUp ==
    /\ worker = "ended" /\ wait # "none"
    /\ \/ wait \in {"put", "del", "pin"} /\ Continue(queue)
       \/ wait = "list" /\ Listed(<<>>) /\ wait' = "none" /\ UNCHANGED <<queue, after>>
       \/ wait = "search" /\ Found(<<>>) /\ wait' = "none" /\ UNCHANGED <<queue, after>>
       \/ wait = "get" /\ Opened(Null) /\ wait' = "none" /\ UNCHANGED <<queue, after>>
    /\ UNCHANGED <<db, worker, meta, hist>>
-----------------------------------------------------------------------------
\* The loop takes a block from the sources.
Receive(b) ==
    /\ wait = "none" /\ mode \in {"normal", "search", "marks"}
    /\ inputs < MaxInputs /\ inputs' = inputs + 1
    /\ Len(queue) < MaxQueue
    /\ Tell([op |-> "persist", block |-> b])
    /\ received' = Append(received, {b})
    /\ UNCHANGED <<db, worker, wait, after, mode, user, lists, clock, starts, failed>>

Tick ==
    /\ clock < MaxClock
    /\ clock' = clock + 1
    /\ UNCHANGED <<db, worker, queue, wait, after, mode, user, lists, inputs, starts, hist>>

Key(in) ==
    /\ wait = "none" /\ mode = in
    /\ inputs < MaxInputs /\ inputs' = inputs + 1
    /\ UNCHANGED <<db, worker, clock, starts, hist>>

\* 'm'
KeyMark(c) ==
    /\ Key("normal")
    /\ AddOrReplace(NextAutoLabel, c)
    /\ UNCHANGED <<after, mode, lists>>

\* Ctrl+P
KeyPin(c) ==
    /\ Key("normal")
    /\ LET same == {i \in DOMAIN marks : SameContext(marks[i], c)}
           m    == marks[CHOOSE i \in same : \A j \in same : i <= j]
       IN  \/ /\ same # {}
              /\ Pin(m.label, ~m.pinned)
              /\ Ask([op |-> "pin", label |-> m.label, pinned |-> ~m.pinned])
              /\ UNCHANGED <<after, cursor>>
           \/ /\ same = {}
              /\ AddOrReplace(NextAutoLabel, c)
              /\ after' = NextAutoLabel
    /\ UNCHANGED <<mode, lists>>

\* ']' and '[': the next and the previous mark of the list.
KeyJump ==
    /\ Key("normal")
    /\ marks # <<>>
    /\ \/ cursor' = (cursor + 1) % Len(marks)
       \/ cursor' = IF cursor = 0 THEN Len(marks) - 1 ELSE cursor - 1
    /\ UNCHANGED <<queue, wait, after, mode, marks, lists>>

\* 'M'
KeyOpenMarks ==
    /\ Key("normal")
    /\ mode' = "marks" /\ overlay' = List(marks) /\ overlaySel' = 0
    /\ UNCHANGED <<queue, wait, after, user, query, results, resultSel>>

\* 'd' in the list; Enter and Esc close it.
KeyDelete ==
    /\ Key("marks")
    /\ overlaySel < Len(overlay)
    /\ RemoveByLabel(overlay[overlaySel + 1].label)
    /\ after' = "reopen"
    /\ UNCHANGED <<mode, lists>>

\* Faulty variant: down goes one past the end.
KeyMarksMovePast ==
    /\ Key("marks")
    /\ \/ overlaySel > 0 /\ overlaySel' = overlaySel - 1
       \/ overlaySel < Len(overlay) /\ overlaySel' = overlaySel + 1
    /\ UNCHANGED <<queue, wait, after, mode, user, overlay, query, results, resultSel>>

KeyMarksMove ==
    /\ Key("marks")
    /\ \/ overlaySel > 0 /\ overlaySel' = overlaySel - 1
       \/ overlaySel + 1 < Len(overlay) /\ overlaySel' = overlaySel + 1
    /\ UNCHANGED <<queue, wait, after, mode, user, overlay, query, results, resultSel>>

KeyCloseMarks ==
    /\ Key("marks")
    /\ mode' = "normal" /\ overlay' = <<>> /\ overlaySel' = 0
    /\ UNCHANGED <<queue, wait, after, user, query, results, resultSel>>
-----------------------------------------------------------------------------
\* Ctrl+F, and the characters of the query.
KeySearch ==
    /\ Key("normal")
    /\ mode' = "search" /\ query' = <<>> /\ results' = <<>> /\ resultSel' = 0
    /\ UNCHANGED <<queue, wait, after, user, overlay, overlaySel>>

KeyType(q) ==
    /\ Key("search")
    /\ query' = q
    /\ UNCHANGED <<queue, wait, after, mode, user, overlay, overlaySel, results, resultSel>>

\* Enter: opens the selected hit as long as there are hits, also when the query
\* has been edited since; searches when there are none.
KeyEnter ==
    /\ Key("search")
    /\ \/ resultSel < Len(results) /\ Ask([op |-> "get", hash |-> results[resultSel + 1].hash])
       \/ resultSel >= Len(results) /\ Ask([op |-> "search", query |-> query])
    /\ UNCHANGED <<after, mode, user, lists>>

KeySearchMove ==
    /\ Key("search")
    /\ \/ resultSel > 0 /\ resultSel' = resultSel - 1
       \/ resultSel + 1 < Len(results) /\ resultSel' = resultSel + 1
    /\ UNCHANGED <<queue, wait, after, mode, user, overlay, overlaySel, query, results>>

KeyCloseSearch ==
    /\ Key("search")
    /\ CloseSearch
    /\ UNCHANGED <<queue, wait, after, user, overlay, overlaySel>>
-----------------------------------------------------------------------------
\* 'q': the loop ends, the channel closes, and the worker handles what is left.
Quit ==
    /\ wait = "none" /\ mode = "normal"
    /\ mode' = "quit"
    /\ UNCHANGED <<db, worker, queue, wait, after, user, lists, meta, hist>>

\* The explorer is started again: after it has quit, or killed at any point.
\* Only what is in the database survives.
Restart ==
    /\ starts < MaxStarts /\ starts' = starts + 1
    /\ Start
    /\ received' = <<{[height |-> h, txs |-> db.blocks[h]] : h \in DOMAIN db.blocks}>>
    /\ failed' = FALSE
    /\ UNCHANGED <<db, clock, inputs>>

Next ==
    \/ WorkerStarts \/ WorkerPersists \/ WorkerWrites \/ WorkerLists
    \/ WorkerSearches \/ WorkerGets \/ WorkerFailsRead \/ HangUp
    \/ \E b \in Blocks : Receive(b)
    \/ Tick
    \/ \E c \in Contexts : KeyMark(c) \/ KeyPin(c)
    \/ KeyJump \/ KeyOpenMarks \/ KeyDelete \/ KeyMarksMove \/ KeyCloseMarks
    \/ KeySearch \/ (\E q \in Queries : KeyType(q)) \/ KeyEnter \/ KeySearchMove \/ KeyCloseSearch
    \/ Quit \/ Restart

\* The worker thread runs, and a closed channel wakes who waits on it.
Fairness ==
    /\ WF_vars(WorkerStarts \/ WorkerPersists \/ WorkerWrites \/ WorkerLists
               \/ WorkerSearches \/ WorkerGets \/ WorkerFailsRead)
    /\ WF_vars(HangUp)

Spec == Init /\ [][Next]_vars /\ Fairness
-----------------------------------------------------------------------------
Mark == [label : ToSet(LABELS), pane : 0..2, height : Nat \cup {Null},
         tx : {c.tx : c \in Contexts} \cup {Null}, when : 0..MaxClock, pinned : BOOLEAN]

\* The types of the variables.  The index into the list that '[' and ']' move
\* (a panic past its end) is always that of a mark, and no two marks share a
\* label, whatever is added, replaced, deleted and loaded.
TypeOK ==
    /\ db.marks \subseteq Mark
    /\ worker \in {"starting", "running", "ended"}
    /\ wait \in {"none", "list", "search", "get", "put", "del", "pin"}
    /\ after \in ToSet(LABELS) \cup {Null, "reopen"}
    /\ mode \in {"load", "normal", "search", "marks", "quit"}
    /\ marks \in Seq(Mark) /\ overlay \in Seq(Mark)
    /\ query \in Queries \cup {<<>>}
    /\ clock \in 0..MaxClock /\ inputs \in 0..MaxInputs /\ starts \in 1..MaxStarts
    /\ failed \in BOOLEAN
    /\ cursor = 0 \/ cursor < Len(marks)
    /\ \A i, j \in DOMAIN marks : marks[i].label = marks[j].label => i = j

\* While the worker runs and no statement has failed, the marks in memory and
\* in the database agree between two keys: a restart loads what was seen.
MarksMirrored ==
    worker = "running" /\ wait = "none" /\ ~failed => ToSet(marks) = db.marks

\* The list of marks on screen is the current one, and its selection is in it.
OverlayCurrent ==
    mode = "marks" /\ wait = "none" =>
        /\ ToSet(overlay) = ToSet(marks)
        /\ overlaySel = 0 \/ overlaySel < Len(overlay)

\* What the i-th block of a log says of a transaction no longer holds after the
\* n-th: its height was received again, or the transaction at any height.
Outdated(log, i, n, height, hash) ==
    \E j \in i + 1 .. n : \E c \in log[j] :
        c.height = height \/ hash \in {t.hash : t \in c.txs}

Known(log, n) ==
    UNION {UNION {{[height |-> b.height, tx |-> t] :
                      t \in {u \in b.txs : ~ Outdated(log, i, n, b.height, u.hash)}}
                  : b \in log[i]}
           : i \in 1 .. n}

\* What a search finds is what the blocks received before it hold, each height
\* with what was received for it last and each transaction where it was received
\* last: the newest first, cut at the limit.
SearchIsCurrent ==
    [][WorkerSearches =>
        LET q     == ParseQuery(query)
            found == {[height |-> r.height, hash |-> r.tx.hash] :
                         r \in {k \in Known(received, Len(received)) :
                                   Matches(k.height, k.tx, q)}}
        IN  /\ ToSet(results') \subseteq found
            /\ Len(results') = (IF Cardinality(found) < HitLimit THEN Cardinality(found)
                                                                  ELSE HitLimit)
            /\ \A i \in DOMAIN results', x \in found \ ToSet(results') :
                  results'[i].height >= x.height]_vars

\* No key hangs the explorer, also when the worker has ended.
KeyAnswered == (wait # "none") ~> (wait = "none")
=============================================================================
