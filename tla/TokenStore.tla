----------------------------- MODULE TokenStore -----------------------------
(***************************************************************************)
(* nearxd's FastNEAR token: the session copy in BrokerState, the token     *)
(* store behind it (the macOS Keychain, the token file, or "auto", which is*)
(* the Keychain with the file to fall back to), and the environment        *)
(* (src/bin/nearxd/token.rs; the token methods of broker.rs).              *)
(*                                                                         *)
(* Nothing but the session copy is guarded by a mutex, and that only for   *)
(* one assignment: the steps of two requests interleave freely.  The token *)
(* file is written in place.                                               *)
(***************************************************************************)
EXTENDS Naturals, Connections

CONSTANTS
    Tokens,
    NoToken,
    NoFile,     \* the token file does not exist
    Empty,      \* the token file is empty, which reads as no token
    Mixed,      \* the file holds bytes that no client sent as a token
    EnvToken,   \* FASTNEAR_API_KEY or FASTNEAR_AUTH_TOKEN, or NoToken
    Backends    \* values of NEARXD_TOKEN_BACKEND the daemon is started with

TokenRequest == [op : {"set"}, token : Tokens, persist : BOOLEAN] \cup [op : {"clear", "resolve"}]

ASSUME TokenAssumption ==
    /\ {NoToken, NoFile, Empty, Mixed} \cap Tokens = {}
    /\ NoToken \notin {NoFile, Empty, Mixed}
    /\ NoFile \notin {Empty, Mixed}
    /\ Empty # Mixed
    /\ EnvToken \in Tokens \cup {NoToken}
    /\ Backends \subseteq {"file", "keychain", "auto"}
    /\ NoRequest \notin TokenRequest
    /\ {"none", "stored", "cleared", "persistError"} \cap (Tokens \cup {NoToken, Mixed}) = {}

VARIABLES
    backend,    \* what build_token_store made of the environment
    session,    \* BrokerState.session_token
    keychain,   \* the Keychain item of the token
    file,       \* the token file
    fd,         \* fd[c]: the file it has open is "linked" at the path or "gone"
    disturbed   \* history: did another mutation run during this request?

tokenVars == <<backend, session, keychain, file, pc, req, fd, answer, disturbed>>

TokenInit ==
    /\ backend \in Backends
    /\ session = NoToken
    /\ keychain = NoToken
    /\ file = NoFile
    /\ pc = [c \in Conns |-> "idle"]
    /\ req = [c \in Conns |-> NoRequest]
    /\ fd = [c \in Conns |-> "none"]
    /\ answer = [c \in Conns |-> "none"]
    /\ disturbed = [c \in Conns |-> FALSE]

Mutating(c) == pc[c] \notin {"idle", "reply"} /\ req[c].op # "resolve"

TokenReceive(c) ==
    /\ pc[c] = "idle"
    /\ \E r \in TokenRequest :
          /\ req' = [req EXCEPT ![c] = r]
          /\ disturbed' = [d \in Conns |->
                IF d = c THEN \E e \in Conns \ {c} : Mutating(e)
                ELSE disturbed[d] \/ (Mutating(d) /\ r.op # "resolve")]
    /\ Goto(c, "session")
    /\ UNCHANGED <<backend, session, keychain, file, fd, answer>>

\* Where a request goes after the session copy.
FirstStore == IF backend = "file" THEN "file" ELSE "keychain"

\* set_fastnear_auth_token: the session first, whatever becomes of the store.
SetSession(c) ==
    /\ pc[c] = "session" /\ req[c].op = "set"
    /\ session' = req[c].token
    /\ \/ req[c].persist /\ Goto(c, FirstStore) /\ UNCHANGED answer
       \/ ~req[c].persist /\ Answer(c, "stored")
    /\ UNCHANGED <<backend, keychain, file, req, fd, disturbed>>

\* The Keychain takes the token, or refuses it: AutoTokenStore then turns to
\* the file and leaves what the Keychain has.
SetKeychain(c) ==
    /\ pc[c] = "keychain" /\ req[c].op = "set"
    /\ \/ keychain' = req[c].token /\ Answer(c, "stored")
       \/ backend = "auto" /\ Goto(c, "file") /\ UNCHANGED <<keychain, answer>>
       \/ backend = "keychain" /\ Answer(c, "persistError") /\ UNCHANGED keychain
    /\ UNCHANGED <<backend, session, file, req, fd, disturbed>>

\* Faulty variant: the file is opened without truncating it.
OpenFileKept(c) ==
    /\ pc[c] = "file" /\ req[c].op = "set"
    /\ file' = IF file = NoFile THEN Empty ELSE file
    /\ fd' = [fd EXCEPT ![c] = "linked"]
    /\ Goto(c, "write")
    /\ UNCHANGED <<backend, session, keychain, req, answer, disturbed>>

\* persist_file_token opens and truncates the file, or cannot.
OpenFile(c) ==
    /\ pc[c] = "file" /\ req[c].op = "set"
    /\ \/ /\ file' = Empty
          /\ fd' = [fd EXCEPT ![c] = "linked"]
          /\ Goto(c, "write") /\ UNCHANGED answer
       \/ Answer(c, "persistError") /\ UNCHANGED <<file, fd>>
    /\ UNCHANGED <<backend, session, keychain, req, disturbed>>

\* The write goes into the open file, wherever that is by now, over what
\* another writer has put there; it may fail after some bytes or before the
\* first, which leaves the truncated file, and the chmod after it may fail.
WriteFile(c) ==
    /\ pc[c] = "write"
    /\ \/ /\ fd[c] = "linked"
          /\ file' \in {req[c].token} \cup (IF file = Empty THEN {} ELSE {Mixed})
          /\ Answer(c, "stored") \/ Answer(c, "persistError")
       \/ /\ fd[c] = "linked"
          /\ file' \in {file, Mixed}
          /\ Answer(c, "persistError")
       \/ /\ fd[c] = "gone"
          /\ Answer(c, "stored") \/ Answer(c, "persistError")
          /\ UNCHANGED file
    /\ fd' = [fd EXCEPT ![c] = "none"]
    /\ UNCHANGED <<backend, session, keychain, req, disturbed>>
-----------------------------------------------------------------------------
ClearSession(c) ==
    /\ pc[c] = "session" /\ req[c].op = "clear"
    /\ session' = NoToken
    /\ Goto(c, FirstStore)
    /\ UNCHANGED <<backend, keychain, file, req, fd, answer, disturbed>>

\* macos_keychain_delete_generic reports success also when the delete failed,
\* so that AutoTokenStore never gets to clear its fallback.
ClearKeychain(c) ==
    /\ pc[c] = "keychain" /\ req[c].op = "clear"
    /\ keychain' \in {NoToken, keychain}
    /\ Answer(c, "cleared")
    /\ UNCHANGED <<backend, session, file, req, fd, disturbed>>

\* Faulty variant: the file is kept when it cannot be removed, without an error.
ClearFileQuietly(c) ==
    /\ pc[c] = "file" /\ req[c].op = "clear"
    /\ file' \in {NoFile, file}
    /\ Answer(c, "cleared")
    /\ UNCHANGED <<backend, session, keychain, req, fd, disturbed>>

ClearFile(c) ==
    /\ pc[c] = "file" /\ req[c].op = "clear"
    /\ \/ /\ file' = NoFile
          /\ fd' = [d \in Conns |-> IF fd[d] = "linked" THEN "gone" ELSE fd[d]]
          /\ Answer(c, "cleared")
       \/ /\ file # NoFile
          /\ Answer(c, "persistError") /\ UNCHANGED <<file, fd>>
    /\ UNCHANGED <<backend, session, keychain, req, disturbed>>
-----------------------------------------------------------------------------
\* read_file_token: no file and an empty file are no token.
Readable == IF file \in {NoFile, Empty} THEN NoToken ELSE file

\* resolve_fastnear_token: session, store, environment, one after the other.
ResolveSession(c) ==
    /\ pc[c] = "session" /\ req[c].op = "resolve"
    /\ \/ session # NoToken /\ Answer(c, session)
       \/ session = NoToken /\ Goto(c, FirstStore) /\ UNCHANGED answer
    /\ UNCHANGED <<backend, session, keychain, file, req, fd, disturbed>>

\* A Keychain that cannot be read counts as one without a token.
ResolveKeychain(c) ==
    /\ pc[c] = "keychain" /\ req[c].op = "resolve"
    /\ \/ keychain # NoToken /\ Answer(c, keychain)
       \/ backend = "auto" /\ Goto(c, "file") /\ UNCHANGED answer
       \/ backend = "keychain" /\ Answer(c, EnvToken)
    /\ UNCHANGED <<backend, session, keychain, file, req, fd, disturbed>>

ResolveFile(c) ==
    /\ pc[c] = "file" /\ req[c].op = "resolve"
    /\ Answer(c, IF Readable # NoToken THEN Readable ELSE EnvToken)
    /\ UNCHANGED <<backend, session, keychain, file, req, fd, disturbed>>
-----------------------------------------------------------------------------
TokenReply(c) ==
    /\ pc[c] = "reply"
    /\ Goto(c, "idle")
    /\ req' = [req EXCEPT ![c] = NoRequest]
    /\ answer' = [answer EXCEPT ![c] = "none"]
    /\ disturbed' = [disturbed EXCEPT ![c] = FALSE]
    /\ UNCHANGED <<backend, session, keychain, file, fd>>

\* The daemon is killed and started again, maybe with another backend.
TokenRestart ==
    /\ backend' \in Backends
    /\ session' = NoToken
    /\ pc' = [c \in Conns |-> "idle"]
    /\ req' = [c \in Conns |-> NoRequest]
    /\ fd' = [c \in Conns |-> "none"]
    /\ answer' = [c \in Conns |-> "none"]
    /\ disturbed' = [c \in Conns |-> FALSE]
    /\ UNCHANGED <<keychain, file>>

TokenNext ==
    \/ \E c \in Conns :
          \/ TokenReceive(c)
          \/ SetSession(c) \/ SetKeychain(c) \/ OpenFile(c) \/ WriteFile(c)
          \/ ClearSession(c) \/ ClearKeychain(c) \/ ClearFile(c)
          \/ ResolveSession(c) \/ ResolveKeychain(c) \/ ResolveFile(c)
          \/ TokenReply(c)
    \/ TokenRestart

TokenSpec == TokenInit /\ [][TokenNext]_tokenVars
-----------------------------------------------------------------------------
\* What the store has for a daemon that is started with this backend.
Persisted ==
    CASE backend = "file"     -> Readable
      [] backend = "keychain" -> keychain
      [] backend = "auto"     -> IF keychain # NoToken THEN keychain ELSE Readable

Alone(c, a) == answer[c] # a /\ answer'[c] = a /\ ~disturbed[c]

\* What "auto" does with a token that the Keychain refused while it held one.
Shadowed(token) ==
    backend = "auto" /\ keychain # NoToken /\ UNCHANGED keychain /\ file' = token

\* A token answered "stored" and "persisted", with no other mutation beside it,
\* is the one the store has for a restarted daemon, whatever earlier requests,
\* failures and kills left there - but that under "auto" it may be in the file,
\* behind the older token of a Keychain that refused it.
StoredIsPersisted ==
    [][\A c \in Conns : Alone(c, "stored") /\ req[c].persist =>
          Persisted' = req[c].token \/ Shadowed(req[c].token)]_tokenVars

\* After "cleared", with no other mutation beside it, the session holds no token
\* whatever the backend, and with the file backend nothing but the environment
\* is left to resolve.  With the other two a token may be left: deleting from the
\* Keychain never reports an error, so what stays there, or in the file behind
\* it, goes unnoticed.
ClearedIsGone ==
    [][\A c \in Conns : Alone(c, "cleared") =>
          session' = NoToken /\ (backend = "file" => Persisted' = NoToken)]_tokenVars
=============================================================================
