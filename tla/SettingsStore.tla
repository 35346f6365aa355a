---------------------------- MODULE SettingsStore ----------------------------
(***************************************************************************)
(* How nearxd stores its settings: load_signing_settings, an edit, and     *)
(* write_signing_settings_file, by concurrent connection threads           *)
(* (src/bin/nearxd/settings.rs, broker.rs).  Every mutating handler but    *)
(* set_signing_settings holds settings_lock from the load to the end of    *)
(* the write; readers never take it.  The write goes to one fixed temporary*)
(* path, which is truncated, written, chmodded and renamed over the file.  *)
(*                                                                         *)
(* An open file is followed by where its directory entry is: a rename      *)
(* carries the descriptors of the temporary file over to the settings      *)
(* file, and those of the replaced file to nowhere.                        *)
(***************************************************************************)
EXTENDS SettingsDocument

CONSTANTS
    Conns,          \* client connections, each served by its own thread
    NoConn,         \* settings_lock is free
    NoFile,         \* the path does not exist
    Empty,          \* a file just truncated
    Torn,           \* bytes that are not JSON: a partial or overlaid write
    NoRequest,
    NoDoc,          \* no document computed yet
    Beside,         \* bound: the requests where set_signing_settings overlaps
    MaxYear         \* bound of the model on the calendar

VARIABLES
    mainFile,   \* what the settings path holds
    tmpFile,    \* what the temporary path holds
    lock,       \* BrokerState.settings_lock
    pc,         \* pc[c]: where the thread of connection c is
    req,        \* req[c]: the request it serves
    work,       \* work[c]: the document it is going to write
    fd,         \* fd[c]: the file its descriptor refers to
    outcome,    \* outcome[c]: what it is about to answer
    year,
    overlap     \* will set_signing_settings run beside another mutation?

vars == <<mainFile, tmpFile, lock, pc, req, work, fd, outcome, year, overlap>>

Json    == Doc \cup {Scalar}

ASSUME StoreAssumption ==
    /\ NoConn \notin Conns
    /\ {NoFile, Empty, Torn, NoDoc} \cap Json = {}
    /\ NoFile \notin {Empty, Torn}
    /\ NoRequest \notin Op
    /\ Beside \subseteq Requests
    /\ MaxYear \in Nat

Init ==
    /\ mainFile = NoFile
    /\ tmpFile = NoFile
    /\ lock = NoConn
    /\ pc = [c \in Conns |-> "idle"]
    /\ req = [c \in Conns |-> NoRequest]
    /\ work = [c \in Conns |-> NoDoc]
    /\ fd = [c \in Conns |-> "none"]
    /\ outcome = [c \in Conns |-> "none"]
    /\ year = 1
    /\ overlap \in BOOLEAN

Goto(c, l) == pc' = [pc EXCEPT ![c] = l]

Raw(c) == req[c] # NoRequest /\ req[c].kind = "raw"

\* A handler that has not returned.
Busy(c) == pc[c] \notin {"idle", "reply"}

Receive(c) ==
    /\ pc[c] = "idle"
    /\ \E o \in IF overlap THEN Beside ELSE Requests :
          /\ overlap \/ \A d \in Conns \ {c} :
                Busy(d) => o.kind # "raw" /\ ~Raw(d)
          /\ req' = [req EXCEPT ![c] = o]
    /\ Goto(c, "load")
    /\ UNCHANGED <<mainFile, tmpFile, lock, work, fd, outcome, year, overlap>>

\* Faulty variant: nobody takes settings_lock.
LoadUnlocked(c) ==
    /\ pc[c] = "load"
    /\ work' = [work EXCEPT ![c] = Apply(req[c], mainFile, year)]
    /\ Goto(c, "open")
    /\ UNCHANGED <<mainFile, tmpFile, lock, req, fd, outcome, year, overlap>>

\* settings_lock.lock(), read_signing_settings_file and the edit in memory.  A
\* file that cannot be read or parsed counts as no file.  set_signing_settings
\* takes neither the lock nor a look at the file.
Load(c) ==
    /\ pc[c] = "load"
    /\ \/ Raw(c) /\ UNCHANGED lock
       \/ ~Raw(c) /\ lock = NoConn /\ lock' = c
    /\ work' = [work EXCEPT ![c] = Apply(req[c], mainFile, year)]
    /\ Goto(c, "open")
    /\ UNCHANGED <<mainFile, tmpFile, req, fd, outcome, year, overlap>>

\* Faulty variants: the settings file is written in place; the MutexGuard is
\* dropped before the write.
OpenInPlace(c) ==
    /\ pc[c] = "open"
    /\ mainFile' = Empty
    /\ fd' = [fd EXCEPT ![c] = "main"]
    /\ Goto(c, "write")
    /\ UNCHANGED <<tmpFile, lock, req, work, outcome, year, overlap>>
OpenUnlocked(c) ==
    /\ pc[c] = "open"
    /\ tmpFile' = Empty
    /\ fd' = [fd EXCEPT ![c] = "tmp"]
    /\ lock' = IF lock = c THEN NoConn ELSE lock
    /\ Goto(c, "write")
    /\ UNCHANGED <<mainFile, req, work, outcome, year, overlap>>

\* fs::write opens the temporary path, truncating the file that is there.
Open(c) ==
    /\ pc[c] = "open"
    /\ tmpFile' = Empty
    /\ fd' = [fd EXCEPT ![c] = "tmp"]
    /\ Goto(c, "write")
    /\ UNCHANGED <<mainFile, lock, req, work, outcome, year, overlap>>

\* What a write from offset 0 leaves in a file: over longer bytes of another
\* writer the tail survives.
Overlaid(old, d) == IF old = Empty THEN {d} ELSE {d, Torn}

Write(c) ==
    /\ pc[c] = "write"
    /\ \/ /\ fd[c] = "tmp"
          /\ tmpFile' \in Overlaid(tmpFile, work[c])
          /\ UNCHANGED mainFile
       \/ /\ fd[c] = "main"
          /\ mainFile' \in Overlaid(mainFile, work[c])
          /\ UNCHANGED tmpFile
       \/ /\ fd[c] = "gone"
          /\ UNCHANGED <<mainFile, tmpFile, overlap>>
    /\ fd' = [fd EXCEPT ![c] = "none"]
    /\ Goto(c, "publish")
    /\ UNCHANGED <<lock, req, work, outcome, year, overlap>>

\* Faulty variant: an error path leaks the MutexGuard.
FinishLeaks(c, o) ==
    /\ lock' = IF lock = c /\ o = "saved" THEN NoConn ELSE lock
    /\ outcome' = [outcome EXCEPT ![c] = o]
    /\ work' = [work EXCEPT ![c] = NoDoc]
    /\ Goto(c, "reply")

\* The handler returns and drops the MutexGuard, if it has one.
Finish(c, o) ==
    /\ lock' = IF lock = c THEN NoConn ELSE lock
    /\ outcome' = [outcome EXCEPT ![c] = o]
    /\ work' = [work EXCEPT ![c] = NoDoc]
    /\ Goto(c, "reply")

\* fs::set_permissions and fs::rename.
Publish(c) ==
    /\ pc[c] = "publish"
    /\ tmpFile # NoFile
    /\ mainFile' = tmpFile
    /\ tmpFile' = NoFile
    /\ fd' = [d \in Conns |-> CASE fd[d] = "tmp"  -> "main"
                                [] fd[d] = "main" -> "gone"
                                [] OTHER          -> fd[d]]
    /\ Finish(c, "saved")
    /\ UNCHANGED <<req, year, overlap>>

\* Another writer has renamed the temporary file away.
PublishNothing(c) ==
    /\ pc[c] = "publish"
    /\ tmpFile = NoFile
    /\ Finish(c, "failed")
    /\ UNCHANGED <<mainFile, tmpFile, req, fd, year, overlap>>

\* create_dir_all, the open, the chmod or the rename fails: ERR_PERSIST (or
\* settings_save.saved = false, for an import).
IoFails(c) ==
    /\ pc[c] \in {"open", "publish"}
    /\ Finish(c, "failed")
    /\ UNCHANGED <<mainFile, tmpFile, req, fd, year, overlap>>

\* The disk is full in the middle of the write.
WriteFails(c) ==
    /\ pc[c] = "write"
    /\ tmpFile'  = IF fd[c] = "tmp" THEN Torn ELSE tmpFile
    /\ mainFile' = IF fd[c] = "main" THEN Torn ELSE mainFile
    /\ fd' = [fd EXCEPT ![c] = "none"]
    /\ Finish(c, "failed")
    /\ UNCHANGED <<req, year, overlap>>

Reply(c) ==
    /\ pc[c] = "reply"
    /\ Goto(c, "idle")
    /\ req' = [req EXCEPT ![c] = NoRequest]
    /\ outcome' = [outcome EXCEPT ![c] = "none"]
    /\ UNCHANGED <<mainFile, tmpFile, lock, work, fd, year, overlap>>

\* The daemon is killed and started again: a temporary file may be left over.
Restart ==
    /\ \E c \in Conns : pc[c] # "idle"
    /\ lock' = NoConn
    /\ pc' = [c \in Conns |-> "idle"]
    /\ req' = [c \in Conns |-> NoRequest]
    /\ work' = [c \in Conns |-> NoDoc]
    /\ fd' = [c \in Conns |-> "none"]
    /\ outcome' = [c \in Conns |-> "none"]
    /\ UNCHANGED <<mainFile, tmpFile, year, overlap>>

NewYear ==
    /\ year < MaxYear /\ ~overlap
    /\ year' = year + 1
    /\ UNCHANGED <<mainFile, tmpFile, lock, pc, req, work, fd, outcome, overlap>>

Handle(c) ==
    \/ Load(c)
    \/ Open(c) \/ Write(c) \/ Publish(c) \/ PublishNothing(c)
    \/ IoFails(c) \/ WriteFails(c)
    \/ Reply(c)

Next == (\E c \in Conns : Receive(c) \/ Handle(c)) \/ Restart \/ NewYear

\* A thread that can move moves; std::sync::Mutex is not fair, so nothing
\* stronger than weak fairness is claimed for a thread that wants the lock.
Fairness == \A c \in Conns : WF_vars(Handle(c))

Spec == Init /\ [][Next]_vars /\ Fairness
-----------------------------------------------------------------------------
\* A reader, which takes no lock, never sees half a document: the settings
\* file holds JSON whenever it exists, through every failure and restart,
\* unless set_signing_settings writes beside another request.
WholeFile == ~overlap => mainFile \in Json \cup {NoFile}

\* Every mutation takes effect at one instant on what is then stored, exactly
\* if it is answered "saved": no update is lost, resurrected or half applied.
\* Nothing of the kind is true once set_signing_settings overlaps.
Atomic == INSTANCE AtomicSettings WITH
    doc     <- IF overlap THEN NoFile ELSE mainFile,
    asked   <- IF overlap THEN [c \in Conns |-> NoRequest] ELSE req,
    outcome <- IF overlap THEN [c \in Conns |-> "none"] ELSE outcome,
    NoDoc   <- NoFile

ImplementsAtomic == Atomic!Spec

\* Between its load and its answer a read-modify-write is alone: the only
\* writer that can be at work beside it is a set_signing_settings.
Writing(c) == pc[c] \in {"open", "write", "publish"}

OneLockedWriter ==
    \A c, d \in Conns : c # d /\ Writing(c) /\ Writing(d) => Raw(c) \/ Raw(d)

\* However a write fails, also when another writer takes its temporary file
\* away, the thread answers and gives the lock back: a thread that is never
\* done waits for a lock that goes to others again and again.
WaitsOnlyForLock ==
    \A c \in Conns : []<>(pc[c] = "idle") \/ []<>(lock \notin {c, NoConn})

Saves(c) == outcome[c] # "saved" /\ outcome'[c] = "saved"

\* "stored": true (docs/NEARXD.md, set_signing_settings): the settings file
\* holds the document that was sent, also next to another writer.
StoredAsAnswered ==
    [][\A c \in Conns : Saves(c) /\ Raw(c) => mainFile' = req[c].doc]_vars
=============================================================================
