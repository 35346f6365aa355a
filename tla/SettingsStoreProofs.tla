------------------------- MODULE SettingsStoreProofs -------------------------
(***************************************************************************)
(* Proofs about SettingsStore for every set of connections, documents and  *)
(* requests, and every calendar.                                           *)
(***************************************************************************)
EXTENDS SettingsStore, TLAPS

Locations == {"idle", "load", "open", "write", "publish", "reply"}
Content   == Json \cup {NoFile, Empty, Torn}

TypeOK ==
    /\ mainFile \in Content
    /\ tmpFile \in Content
    /\ lock \in Conns \cup {NoConn}
    /\ pc \in [Conns -> Locations]
    /\ req \in [Conns -> Requests \cup {NoRequest}]
    /\ work \in [Conns -> Json \cup {NoDoc}]
    /\ fd \in [Conns -> {"none", "tmp", "main", "gone"}]
    /\ outcome \in [Conns -> {"none", "saved", "failed"}]
    /\ year \in Nat \ {0}
    /\ overlap \in BOOLEAN

\* A thread has a request until it has answered, an outcome from then on, a
\* document in between, and a descriptor only while it writes.
ThreadOK(c) ==
    /\ pc[c] = "idle" <=> req[c] = NoRequest
    /\ pc[c] = "reply" <=> outcome[c] # "none"
    /\ Writing(c) => work[c] \in Json
    /\ fd[c] # "none" => pc[c] = "write"

\* A thread in a read-modify-write has the settings lock.
Locked(c) == Writing(c) /\ ~Raw(c) => lock = c

\* Without overlap a set_signing_settings is alone among the handlers.
Alone(c) == ~overlap /\ Raw(c) => \A d \in Conns \ {c} : ~(Busy(c) /\ Busy(d))

\* Without overlap the temporary file is the thread's own: truncated before
\* its write, holding its document after it.
OwnFile(c) ==
    /\ pc[c] = "write" => fd[c] = "tmp" /\ tmpFile = Empty
    /\ pc[c] = "publish" => tmpFile = work[c]

\* Without overlap the document a thread is about to publish is still what its
\* request makes of the stored one.
UpToDate(c) ==
    Writing(c) => \E y \in 1..year : work[c] = Apply(req[c], mainFile, y)

\* The inductive invariant.
IInv ==
    /\ TypeOK
    /\ \A c \in Conns : ThreadOK(c)
    /\ \A c \in Conns : Locked(c)
    /\ \A c \in Conns : Alone(c)
    /\ ~overlap => \A c \in Conns : OwnFile(c)
    /\ ~overlap => \A c \in Conns : UpToDate(c)
    /\ WholeFile
-----------------------------------------------------------------------------
(***************************************************************************)
(* The operators of SettingsDocument.                                      *)
(***************************************************************************)

\* Upserting keys into a document yields a document.
LEMMA UpsertType ==
    ASSUME NEW d \in Doc, NEW ks \in SUBSET Keys, NEW l \in Labels \cup {NoLabel},
           NEW y \in Nat
    PROVE  UpsertKeys(d, ks, l, y) \in Doc
<1>1. ASSUME NEW k \in Keys PROVE Kept(d, k, y) \in Record \cup {Absent}
  BY DEF Kept, Doc
<1>2. ASSUME NEW k \in Keys PROVE Merged(Kept(d, k, y), l, y) \in Record
  BY <1>1 DEF Merged, Record
<1>3. CASE ks = {}
  BY <1>3 DEF UpsertKeys
<1>4. CASE ks # {}
  <2> DEFINE f == [k \in Keys |-> IF k \in ks THEN Merged(Kept(d, k, y), l, y)
                                              ELSE Kept(d, k, y)]
  <2>1. f \in [Keys -> Record \cup {Absent}]
    BY <1>1, <1>2
  <2>2. UpsertKeys(d, ks, l, y) = [d EXCEPT !.keys = f]
    BY <1>4 DEF UpsertKeys
  <2> HIDE DEF f
  <2>3. QED
    BY <2>1, <2>2 DEF Doc
<1>5. QED
  BY <1>3, <1>4

\* A read-modify-write starts from a document, whatever the file holds.
LEMMA ObjectType == \A d : Object(d) \in Doc
BY DEF Object, EmptyDoc, Doc

\* Whatever the file holds, a request stores a JSON value.
LEMMA ApplyType ==
    ASSUME NEW o \in Requests, NEW d, NEW y \in Nat
    PROVE  Apply(o, d, y) \in Json
<1> DEFINE D == Object(d)
<1>0. o \in Op /\ D \in Doc
  BY DocAssumption, ObjectType
<1> HIDE DEF D
<1>1. CASE o \in [kind : {"label"}, key : Keys, label : Labels \cup {NoLabel}]
  <2>1. UpsertKeys(D, {o.key}, o.label, y) \in Doc
    BY <1>0, <1>1, UpsertType
  <2>2. QED
    BY <2>1, <1>1 DEF Apply, Json, D
<1>2. CASE o \in [kind : {"index"}, keys : SUBSET Keys]
  <2>1. UpsertKeys(D, o.keys, NoLabel, y) \in Doc
    BY <1>0, <1>2, UpsertType
  <2>2. QED
    BY <2>1, <1>2 DEF Apply, Json, D
<1>3. CASE o \in [kind : {"connect"}, key : Keys]
  <2>1. WithWallet(D, o.key) \in Doc
    BY <1>0, <1>3 DEF WithWallet, Doc
  <2>2. UpsertKeys(WithWallet(D, o.key), {o.key}, NoLabel, y) \in Doc
    BY <2>1, <1>3, UpsertType
  <2>3. QED
    BY <2>2, <1>3 DEF Apply, Json, D
<1>4. CASE o \in [kind : {"watch", "unwatch"}, account : Accounts]
  <2>1. WithEntry(D, o.account) \in Doc /\ WithoutEntry(D, o.account) \in Doc
    BY <1>0, <1>4 DEF WithEntry, WithoutEntry, Doc
  <2>2. QED
    BY <2>1, <1>4 DEF Apply, Json, D
<1>5. CASE o \in [kind : {"prefs"}, prefs : Prefs]
  <2>1. WithPreferences(D, o.prefs) \in Doc
    BY <1>0, <1>5 DEF WithPreferences, Doc
  <2>2. QED
    BY <2>1, <1>5 DEF Apply, Json, D
<1>6. CASE o \in [kind : {"raw"}, doc : RawDocs]
  BY <1>6, DocAssumption DEF Apply, Json
<1>7. QED
  BY <1>0, <1>1, <1>2, <1>3, <1>4, <1>5, <1>6 DEF Op
-----------------------------------------------------------------------------
(***************************************************************************)
(* The inductive invariant.                                                *)
(***************************************************************************)

\* The initial state satisfies the inductive invariant.
LEMMA InitInv == Init => IInv
BY StoreAssumption, DocAssumption
   DEF Init, IInv, TypeOK, Content, Locations, ThreadOK, Locked, Alone, OwnFile, UpToDate,
       WholeFile, Writing, Raw, Busy

\* Without overlap at most one thread writes: two writers that both hold the
\* settings lock are one, and a set_signing_settings has no other beside it.
LEMMA OneWriter ==
    ASSUME IInv, ~overlap, NEW c \in Conns, NEW d \in Conns, Writing(c), Writing(d)
    PROVE  c = d
BY DEF IInv, Alone, Locked, Writing, Busy

USE StoreAssumption, DocAssumption

\* Every step keeps the inductive invariant: one case per action, and one step
\* per part of the invariant.
LEMMA StepInv == IInv /\ [Next]_vars => IInv'
<1> SUFFICES ASSUME IInv, [Next]_vars PROVE IInv'
  OBVIOUS
<1> USE DEF IInv, TypeOK, Content, Locations, Goto, Writing, Raw, Busy
<1>0. \A c, d \in Conns : ~overlap /\ Writing(c) /\ Writing(d) => c = d
  BY OneWriter
<1>1. ASSUME NEW c \in Conns, Receive(c) PROVE IInv'
  <2>1. TypeOK'
    BY <1>1 DEF Receive
  <2>2. (\A d \in Conns : ThreadOK(d))'
    BY <1>1 DEF Receive, ThreadOK
  <2>3. (\A d \in Conns : Locked(d))'
    BY <1>1 DEF Receive, ThreadOK, Locked
  <2>4. (\A d \in Conns : Alone(d))'
    BY <1>1 DEF Receive, ThreadOK, Alone
  <2>5. (~overlap => \A d \in Conns : OwnFile(d))'
    BY <1>1, <1>0 DEF Receive, ThreadOK, OwnFile, Locked
  <2>6. (~overlap => \A d \in Conns : UpToDate(d))'
    BY <1>1, <1>0 DEF Receive, ThreadOK, UpToDate, Locked, OwnFile
  <2>7. WholeFile'
    BY <1>1, <1>0 DEF Receive, ThreadOK, OwnFile, WholeFile
  <2>8. QED
    BY <2>1, <2>2, <2>3, <2>4, <2>5, <2>6, <2>7
<1>2. ASSUME NEW c \in Conns, Load(c) PROVE IInv'
  <2>1. TypeOK'
    <3>1. req[c] \in Requests
      BY <1>2 DEF Load, ThreadOK
    <3>2. Apply(req[c], mainFile, year) \in Json
      BY <3>1, ApplyType
    <3>3. QED
      BY <1>2, <3>2 DEF Load
  <2>2. (\A d \in Conns : ThreadOK(d))'
    BY <1>2, ApplyType DEF Load, ThreadOK
  <2>3. (\A d \in Conns : Locked(d))'
    BY <1>2 DEF Load, ThreadOK, Locked
  <2>4. (\A d \in Conns : Alone(d))'
    BY <1>2 DEF Load, ThreadOK, Alone
  <2>5. (~overlap => \A d \in Conns : OwnFile(d))'
    BY <1>2, <1>0 DEF Load, ThreadOK, OwnFile, Locked
  <2>6. (~overlap => \A d \in Conns : UpToDate(d))'
    BY <1>2, <1>0 DEF Load, ThreadOK, UpToDate, Locked, OwnFile
  <2>7. WholeFile'
    BY <1>2, <1>0 DEF Load, ThreadOK, OwnFile, WholeFile
  <2>8. QED
    BY <2>1, <2>2, <2>3, <2>4, <2>5, <2>6, <2>7
<1>3. ASSUME NEW c \in Conns, Open(c) PROVE IInv'
  <2>1. TypeOK'
    BY <1>3 DEF Open
  <2>2. (\A d \in Conns : ThreadOK(d))'
    BY <1>3 DEF Open, ThreadOK
  <2>3. (\A d \in Conns : Locked(d))'
    BY <1>3 DEF Open, ThreadOK, Locked
  <2>4. (\A d \in Conns : Alone(d))'
    BY <1>3 DEF Open, ThreadOK, Alone
  <2>5. (~overlap => \A d \in Conns : OwnFile(d))'
    BY <1>3, <1>0 DEF Open, ThreadOK, OwnFile, Locked
  <2>6. (~overlap => \A d \in Conns : UpToDate(d))'
    BY <1>3, <1>0 DEF Open, ThreadOK, UpToDate, Locked, OwnFile
  <2>7. WholeFile'
    BY <1>3, <1>0 DEF Open, ThreadOK, OwnFile, WholeFile
  <2>8. QED
    BY <2>1, <2>2, <2>3, <2>4, <2>5, <2>6, <2>7
<1>4. ASSUME NEW c \in Conns, Write(c) PROVE IInv'
  <2>1. TypeOK'
    BY <1>4 DEF Write, Overlaid, ThreadOK
  <2>2. (\A d \in Conns : ThreadOK(d))'
    BY <1>4 DEF Write, Overlaid, ThreadOK
  <2>3. (\A d \in Conns : Locked(d))'
    BY <1>4 DEF Write, Overlaid, ThreadOK, Locked
  <2>4. (\A d \in Conns : Alone(d))'
    BY <1>4 DEF Write, Overlaid, ThreadOK, Alone
  <2>5. (~overlap => \A d \in Conns : OwnFile(d))'
    BY <1>4, <1>0 DEF Write, Overlaid, ThreadOK, OwnFile, Locked
  <2>6. (~overlap => \A d \in Conns : UpToDate(d))'
    BY <1>4, <1>0 DEF Write, Overlaid, ThreadOK, UpToDate, Locked, OwnFile
  <2>7. WholeFile'
    BY <1>4, <1>0 DEF Write, Overlaid, ThreadOK, OwnFile, WholeFile
  <2>8. QED
    BY <2>1, <2>2, <2>3, <2>4, <2>5, <2>6, <2>7
<1>5. ASSUME NEW c \in Conns, Publish(c) PROVE IInv'
  <2>1. TypeOK'
    BY <1>5 DEF Publish, Finish
  <2>2. (\A d \in Conns : ThreadOK(d))'
    BY <1>5 DEF Publish, Finish, ThreadOK
  <2>3. (\A d \in Conns : Locked(d))'
    BY <1>5 DEF Publish, Finish, ThreadOK, Locked
  <2>4. (\A d \in Conns : Alone(d))'
    BY <1>5 DEF Publish, Finish, ThreadOK, Alone
  <2>5. (~overlap => \A d \in Conns : OwnFile(d))'
    BY <1>5, <1>0 DEF Publish, Finish, ThreadOK, OwnFile, Locked
  <2>6. (~overlap => \A d \in Conns : UpToDate(d))'
    BY <1>5, <1>0 DEF Publish, Finish, ThreadOK, UpToDate, Locked, OwnFile
  <2>7. WholeFile'
    BY <1>5, <1>0 DEF Publish, Finish, ThreadOK, OwnFile, WholeFile
  <2>8. QED
    BY <2>1, <2>2, <2>3, <2>4, <2>5, <2>6, <2>7
<1>6. ASSUME NEW c \in Conns, PublishNothing(c) PROVE IInv'
  <2>1. TypeOK'
    BY <1>6 DEF PublishNothing, Finish
  <2>2. (\A d \in Conns : ThreadOK(d))'
    BY <1>6 DEF PublishNothing, Finish, ThreadOK
  <2>3. (\A d \in Conns : Locked(d))'
    BY <1>6 DEF PublishNothing, Finish, ThreadOK, Locked
  <2>4. (\A d \in Conns : Alone(d))'
    BY <1>6 DEF PublishNothing, Finish, ThreadOK, Alone
  <2>5. (~overlap => \A d \in Conns : OwnFile(d))'
    BY <1>6, <1>0 DEF PublishNothing, Finish, ThreadOK, OwnFile, Locked
  <2>6. (~overlap => \A d \in Conns : UpToDate(d))'
    BY <1>6, <1>0 DEF PublishNothing, Finish, ThreadOK, UpToDate, Locked, OwnFile
  <2>7. WholeFile'
    BY <1>6, <1>0 DEF PublishNothing, Finish, ThreadOK, OwnFile, WholeFile
  <2>8. QED
    BY <2>1, <2>2, <2>3, <2>4, <2>5, <2>6, <2>7
<1>7. ASSUME NEW c \in Conns, IoFails(c) PROVE IInv'
  <2>1. TypeOK'
    BY <1>7 DEF IoFails, Finish
  <2>2. (\A d \in Conns : ThreadOK(d))'
    BY <1>7 DEF IoFails, Finish, ThreadOK
  <2>3. (\A d \in Conns : Locked(d))'
    BY <1>7 DEF IoFails, Finish, ThreadOK, Locked
  <2>4. (\A d \in Conns : Alone(d))'
    BY <1>7 DEF IoFails, Finish, ThreadOK, Alone
  <2>5. (~overlap => \A d \in Conns : OwnFile(d))'
    BY <1>7, <1>0 DEF IoFails, Finish, ThreadOK, OwnFile, Locked
  <2>6. (~overlap => \A d \in Conns : UpToDate(d))'
    BY <1>7, <1>0 DEF IoFails, Finish, ThreadOK, UpToDate, Locked, OwnFile
  <2>7. WholeFile'
    BY <1>7, <1>0 DEF IoFails, Finish, ThreadOK, OwnFile, WholeFile
  <2>8. QED
    BY <2>1, <2>2, <2>3, <2>4, <2>5, <2>6, <2>7
<1>8. ASSUME NEW c \in Conns, WriteFails(c) PROVE IInv'
  <2>1. TypeOK'
    BY <1>8 DEF WriteFails, Finish
  <2>2. (\A d \in Conns : ThreadOK(d))'
    BY <1>8 DEF WriteFails, Finish, ThreadOK
  <2>3. (\A d \in Conns : Locked(d))'
    BY <1>8 DEF WriteFails, Finish, ThreadOK, Locked
  <2>4. (\A d \in Conns : Alone(d))'
    BY <1>8 DEF WriteFails, Finish, ThreadOK, Alone
  <2>5. (~overlap => \A d \in Conns : OwnFile(d))'
    BY <1>8, <1>0 DEF WriteFails, Finish, ThreadOK, OwnFile, Locked
  <2>6. (~overlap => \A d \in Conns : UpToDate(d))'
    BY <1>8, <1>0 DEF WriteFails, Finish, ThreadOK, UpToDate, Locked, OwnFile
  <2>7. WholeFile'
    BY <1>8, <1>0 DEF WriteFails, Finish, ThreadOK, OwnFile, WholeFile
  <2>8. QED
    BY <2>1, <2>2, <2>3, <2>4, <2>5, <2>6, <2>7
<1>9. ASSUME NEW c \in Conns, Reply(c) PROVE IInv'
  <2>1. TypeOK'
    BY <1>9 DEF Reply
  <2>2. (\A d \in Conns : ThreadOK(d))'
    BY <1>9 DEF Reply, ThreadOK
  <2>3. (\A d \in Conns : Locked(d))'
    BY <1>9 DEF Reply, ThreadOK, Locked
  <2>4. (\A d \in Conns : Alone(d))'
    BY <1>9 DEF Reply, ThreadOK, Alone
  <2>5. (~overlap => \A d \in Conns : OwnFile(d))'
    BY <1>9, <1>0 DEF Reply, ThreadOK, OwnFile, Locked
  <2>6. (~overlap => \A d \in Conns : UpToDate(d))'
    BY <1>9, <1>0 DEF Reply, ThreadOK, UpToDate, Locked, OwnFile
  <2>7. WholeFile'
    BY <1>9, <1>0 DEF Reply, ThreadOK, OwnFile, WholeFile
  <2>8. QED
    BY <2>1, <2>2, <2>3, <2>4, <2>5, <2>6, <2>7
<1>10. ASSUME Restart PROVE IInv'
  <2>1. TypeOK'
    BY <1>10 DEF Restart
  <2>2. (\A d \in Conns : ThreadOK(d))'
    BY <1>10 DEF Restart, ThreadOK
  <2>3. (\A d \in Conns : Locked(d))'
    BY <1>10 DEF Restart, ThreadOK, Locked
  <2>4. (\A d \in Conns : Alone(d))'
    BY <1>10 DEF Restart, ThreadOK, Alone
  <2>5. (~overlap => \A d \in Conns : OwnFile(d))'
    BY <1>10, <1>0 DEF Restart, ThreadOK, OwnFile, Locked
  <2>6. (~overlap => \A d \in Conns : UpToDate(d))'
    BY <1>10, <1>0 DEF Restart, ThreadOK, UpToDate, Locked, OwnFile
  <2>7. WholeFile'
    BY <1>10, <1>0 DEF Restart, ThreadOK, OwnFile, WholeFile
  <2>8. QED
    BY <2>1, <2>2, <2>3, <2>4, <2>5, <2>6, <2>7
<1>11. ASSUME NewYear PROVE IInv'
  <2>1. TypeOK'
    BY <1>11 DEF NewYear
  <2>2. (\A d \in Conns : ThreadOK(d))'
    BY <1>11 DEF NewYear, ThreadOK
  <2>3. (\A d \in Conns : Locked(d))'
    BY <1>11 DEF NewYear, ThreadOK, Locked
  <2>4. (\A d \in Conns : Alone(d))'
    BY <1>11 DEF NewYear, ThreadOK, Alone
  <2>5. (~overlap => \A d \in Conns : OwnFile(d))'
    BY <1>11, <1>0 DEF NewYear, ThreadOK, OwnFile, Locked
  <2>6. (~overlap => \A d \in Conns : UpToDate(d))'
    BY <1>11, <1>0 DEF NewYear, ThreadOK, UpToDate, Locked, OwnFile
  <2>7. WholeFile'
    BY <1>11, <1>0 DEF NewYear, ThreadOK, OwnFile, WholeFile
  <2>8. QED
    BY <2>1, <2>2, <2>3, <2>4, <2>5, <2>6, <2>7
<1>12. CASE UNCHANGED vars
  BY <1>12 DEF vars, ThreadOK, Locked, Alone, OwnFile, UpToDate, WholeFile
<1>13. QED
  BY <1>1, <1>2, <1>3, <1>4, <1>5, <1>6, <1>7, <1>8, <1>9, <1>10, <1>11, <1>12 DEF Next, Handle

\* The inductive invariant holds in every reachable state.
THEOREM InvariantHolds == Spec => []IInv
<1>1. QED
  BY InitInv, StepInv, PTL DEF Spec

\* The variables keep their types.
THEOREM TypeCorrect == Spec => []TypeOK
BY InvariantHolds, PTL DEF IInv

\* Between its load and its answer a read-modify-write is alone but for a
\* set_signing_settings.
THEOREM LockedWriterIsOne == Spec => []OneLockedWriter
<1>1. IInv => OneLockedWriter
  BY DEF IInv, Locked, OneLockedWriter
<1>2. QED
  BY <1>1, InvariantHolds, PTL

\* A reader never sees half a document in the settings file.
THEOREM FileIsWhole == Spec => []WholeFile
BY InvariantHolds, PTL DEF IInv
-----------------------------------------------------------------------------
(***************************************************************************)
(* SettingsStore implements AtomicSettings.                                *)
(***************************************************************************)

\* Both modules read the same SettingsDocument.
LEMMA SameApply == \A o, d, y : Atomic!Apply(o, d, y) = Apply(o, d, y)
BY DEF Atomic!Apply, Atomic!UpsertKeys, Atomic!Object, Atomic!WithEntry, Atomic!WithoutEntry,
       Atomic!WithWallet, Atomic!WithPreferences, Atomic!EmptyDoc, Atomic!Doc, Atomic!Record,
       Atomic!Kept, Atomic!Merged, Atomic!Prunable,
       Apply, UpsertKeys, Object, WithEntry, WithoutEntry, WithWallet, WithPreferences,
       EmptyDoc, Doc, Record, Kept, Merged, Prunable

\* Once set_signing_settings overlaps, the abstract state stands still.
LEMMA OverlapStutters ==
    ASSUME overlap, [Next]_vars
    PROVE  UNCHANGED Atomic!vars
BY DEF Next, Handle, vars, Receive, Load, Open, Write, Publish, PublishNothing, IoFails,
       WriteFails, Reply, Restart, NewYear, Finish, Goto, Atomic!vars

\* Without overlap each step of a thread is one step of its request, or none:
\* the rename is the instant at which the request takes effect.
LEMMA AloneSimulates ==
    ASSUME IInv, ~overlap, [Next]_vars
    PROVE  [Atomic!Next]_(Atomic!vars)
<1> USE DEF IInv, Goto, Finish
<1>0. ~overlap'
  BY DEF Next, Handle, vars, Receive, Load, Open, Write, Publish, PublishNothing, IoFails,
         WriteFails, Reply, Restart, NewYear
<1>1. ASSUME NEW c \in Conns, Receive(c) PROVE Atomic!Ask(c)
  BY <1>0, <1>1 DEF Receive, ThreadOK, Atomic!Ask
<1>2. ASSUME NEW c \in Conns, Load(c) \/ Open(c) \/ Write(c) PROVE UNCHANGED Atomic!vars
  BY <1>0, <1>2 DEF Load, Open, Write, OwnFile, Atomic!vars
<1>3. ASSUME NEW c \in Conns, Publish(c) PROVE Atomic!Save(c)
  <2>1. pc[c] = "publish" /\ Writing(c)
    BY <1>3 DEF Publish, Writing
  <2>2. PICK y \in 1..year : work[c] = Apply(req[c], mainFile, y)
    BY <2>1 DEF UpToDate
  <2>3. mainFile' = Atomic!Apply(req[c], mainFile, y)
    BY <1>3, <2>1, <2>2, SameApply DEF Publish, OwnFile
  <2>4. req[c] # NoRequest /\ outcome[c] = "none"
    BY <2>1 DEF ThreadOK
  <2>5. outcome' = [outcome EXCEPT ![c] = "saved"] /\ UNCHANGED <<req, year>>
    BY <1>3 DEF Publish
  <2>6. QED
    BY <1>0, <2>3, <2>4, <2>5 DEF Atomic!Save
<1>4. ASSUME NEW c \in Conns, PublishNothing(c) \/ IoFails(c) \/ WriteFails(c)
      PROVE  Atomic!Fail(c)
  BY <1>0, <1>4 DEF PublishNothing, IoFails, WriteFails, ThreadOK, OwnFile, Atomic!Fail
<1>5. ASSUME NEW c \in Conns, Reply(c) PROVE Atomic!Reply(c)
  BY <1>0, <1>5 DEF Reply, ThreadOK, Atomic!Reply
<1>6. CASE Restart
  BY <1>0, <1>6 DEF Restart, Atomic!Restart, Atomic!Next
<1>7. CASE NewYear
  BY <1>0, <1>7 DEF NewYear, Atomic!NewYear, Atomic!Next
<1>8. CASE UNCHANGED vars
  BY <1>8 DEF vars, Atomic!vars
<1>9. QED
  BY <1>1, <1>2, <1>3, <1>4, <1>5, <1>6, <1>7, <1>8 DEF Next, Handle, Atomic!Next

\* Every mutation takes effect at one instant on what is then stored, exactly
\* if it is answered "saved".
THEOREM Refinement == Spec => ImplementsAtomic
<1>1. Init => Atomic!Init
  BY DEF Init, Atomic!Init
<1>2. IInv /\ [Next]_vars => [Atomic!Next]_(Atomic!vars)
  BY OverlapStutters, AloneSimulates
<1>3. QED
  BY <1>1, <1>2, InvariantHolds, PTL DEF Spec, ImplementsAtomic, Atomic!Spec
=============================================================================
