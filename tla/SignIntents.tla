---------------------------- MODULE SignIntents ----------------------------
(***************************************************************************)
(* nearxd's sign intents: create_sign_intent, approve_sign_intent and      *)
(* consume_sign_intent (src/bin/nearxd/broker.rs) as served by one thread  *)
(* per connection (src/bin/nearxd/socket.rs).                              *)
(*                                                                         *)
(* The intents live in a HashMap behind one Mutex.  Every handler first    *)
(* runs cleanup_expired_intents, which reads the clock, then takes the     *)
(* mutex, prunes, and gives the mutex back; only then does the handler     *)
(* take the mutex again for its own work.  approve_sign_intent keeps the   *)
(* mutex while the user answers a presence prompt.  The steps below are    *)
(* the stretches of code between two points where another thread, the      *)
(* clock or a crash can get in between.                                    *)
(***************************************************************************)
EXTENDS Naturals, FiniteSets

CONSTANTS
    Conns,          \* client connections, each served by its own thread
    Ids,            \* the intent ids random_urlsafe(16) draws: never drawn twice
    NoConn,         \* the mutex is free
    NoIntent,       \* the map has no entry for an id
    RequestedTtls,  \* values of expires_in_ms a client sends
    MinTtl,         \* 1_000 ms in the code
    MaxTtl,         \* MAX_INTENT_TTL_MS
    MaxTime         \* bound of the model on the clock

ASSUME ConnAssumption == NoConn \notin Conns
ASSUME TtlAssumption ==
    /\ RequestedTtls \subseteq Nat
    /\ MinTtl \in Nat \ {0}
    /\ MaxTtl \in Nat
    /\ MinTtl <= MaxTtl
    /\ MaxTime \in Nat
ASSUME IntentAssumption ==
    NoIntent \notin [created : Nat, expires : Nat, approved : BOOLEAN,
                     presence : BOOLEAN, verified : BOOLEAN]

VARIABLES
    clock,      \* now_ms()
    intents,    \* BrokerState.sign_intents: intents[i] is NoIntent or the entry
    holder,     \* who holds the sign_intents mutex across a step, or NoConn
    pc,         \* pc[c]: where the thread of connection c is
    req,        \* req[c]: the request that thread is serving
    seen,       \* seen[c]: the clock value the thread has read and will use
    answer,     \* answer[c]: the outcome it is about to write to the socket
    born,       \* history: ids that were ever inserted in the map
    birth,      \* history: the entry of an id as it was inserted
    endorsed,   \* history: ids some approve_sign_intent marked approved
    witnessed,  \* history: ids for which the user passed a presence prompt
    released    \* history: how many times the payload of an id was handed out

vars == <<clock, intents, holder, pc, req, seen, answer,
          born, birth, endorsed, witnessed, released>>

history == <<born, birth, endorsed, witnessed, released>>

Intent == [created : Nat, expires : Nat, approved : BOOLEAN,
           presence : BOOLEAN, verified : BOOLEAN]

CreateReq == [op : {"create"}, ttl : RequestedTtls, presence : BOOLEAN]
UseReq    == [op : {"approve", "consume"}, id : Ids, challengeOk : BOOLEAN]
BadReq    == [op : {"malformed"}]   \* one of the three with a parameter missing
Request   == CreateReq \cup UseReq \cup BadReq
NoRequest == [op |-> "malformed"]

Locations == {"idle", "cleanup", "stampCreate", "insert",
              "approve", "consume", "prompt", "reply"}
Answers   == {"none", "params", "pending", "approved", "consumed", "notFound",
              "auth", "expired", "notApproved"}

\* u64::clamp(1_000, MAX_INTENT_TTL_MS)
Clamp(ttl) == IF ttl < MinTtl THEN MinTtl ELSE IF ttl > MaxTtl THEN MaxTtl ELSE ttl

Present(i) == intents[i] # NoIntent

\* Both checks read expires_at_ms <= now_ms().
Expired(i) == intents[i].expires <= clock

Init ==
    /\ clock = 0
    /\ intents = [i \in Ids |-> NoIntent]
    /\ holder = NoConn
    /\ pc = [c \in Conns |-> "idle"]
    /\ req = [c \in Conns |-> NoRequest]
    /\ seen = [c \in Conns |-> 0]
    /\ answer = [c \in Conns |-> "none"]
    /\ born = {}
    /\ birth = [i \in Ids |-> NoIntent]
    /\ endorsed = {}
    /\ witnessed = {}
    /\ released = [i \in Ids |-> 0]

Goto(c, l) == pc' = [pc EXCEPT ![c] = l]

\* The handler returns: what it answers is all that is left of the request.
Answer(c, a) ==
    /\ Goto(c, "reply")
    /\ answer' = [answer EXCEPT ![c] = a]
    /\ req' = [req EXCEPT ![c] = NoRequest]
-----------------------------------------------------------------------------
\* create_sign_intent requests that have not drawn their id yet.
Creating == {d \in Conns : req[d].op = "create" /\ pc[d] \notin {"idle", "reply"}}

\* serve_connection reads one line, decodes it and calls handle_request, and
\* cleanup_expired_intents reads the clock before it waits for the mutex.  A
\* client only knows the ids that were handed out to somebody.  The bound of
\* the model: no more creations than there are ids.
Receive(c) ==
    /\ pc[c] = "idle"
    /\ \E r \in Request :
          /\ r.op \in {"approve", "consume"} => r.id \in born
          /\ r.op = "create" => Cardinality(Creating) < Cardinality(Ids \ born)
          /\ req' = [req EXCEPT ![c] = r]
    /\ seen' = [seen EXCEPT ![c] = clock]
    /\ Goto(c, "cleanup")
    /\ UNCHANGED <<clock, intents, holder, answer, history>>

\* It prunes with the clock value it read, however long it waited.
Pruned(c) == [i \in Ids |-> IF Present(i) /\ intents[i].expires <= seen[c]
                              THEN NoIntent ELSE intents[i]]

Cleanup(c) ==
    /\ pc[c] = "cleanup"
    /\ holder = NoConn
    /\ intents' = Pruned(c)
    /\ \/ /\ req[c].op = "malformed"
          /\ Answer(c, "params")
       \/ /\ req[c].op # "malformed"
          /\ Goto(c, IF req[c].op = "create" THEN "stampCreate" ELSE req[c].op)
          /\ UNCHANGED <<req, answer>>
    /\ seen' = [seen EXCEPT ![c] = 0]
    /\ UNCHANGED <<clock, holder, history>>
-----------------------------------------------------------------------------
\* create_sign_intent computes created_at_ms and expires_at_ms before it asks
\* for the mutex: behind a prompt the entry can be old when it goes in.
StampCreate(c) ==
    /\ pc[c] = "stampCreate"
    /\ seen' = [seen EXCEPT ![c] = clock]
    /\ Goto(c, "insert")
    /\ UNCHANGED <<clock, intents, holder, req, answer, history>>

\* Faulty variant: deadline and creation swapped.
BackdatedIntent(c) == [created  |-> seen[c] - Clamp(req[c].ttl),
                       expires  |-> seen[c],
                       approved |-> FALSE,
                       presence |-> req[c].presence,
                       verified |-> FALSE]

NewIntent(c) == [created  |-> seen[c],
                 expires  |-> seen[c] + Clamp(req[c].ttl),
                 approved |-> FALSE,
                 presence |-> req[c].presence,
                 verified |-> FALSE]

\* Faulty variant: an id that was used before is used again.
InsertUsedId(c) ==
    /\ pc[c] = "insert"
    /\ holder = NoConn
    /\ \E i \in Ids :
          /\ intents' = [intents EXCEPT ![i] = NewIntent(c)]
          /\ birth' = [birth EXCEPT ![i] = NewIntent(c)]
          /\ born' = born \cup {i}
    /\ Answer(c, "pending")
    /\ seen' = [seen EXCEPT ![c] = 0]
    /\ UNCHANGED <<clock, holder, endorsed, witnessed, released>>

Insert(c) ==
    /\ pc[c] = "insert"
    /\ holder = NoConn
    /\ \E i \in Ids \ born :
          /\ intents' = [intents EXCEPT ![i] = NewIntent(c)]
          /\ birth' = [birth EXCEPT ![i] = NewIntent(c)]
          /\ born' = born \cup {i}
    /\ Answer(c, "pending")
    /\ seen' = [seen EXCEPT ![c] = 0]
    /\ UNCHANGED <<clock, holder, endorsed, witnessed, released>>
-----------------------------------------------------------------------------
\* approve_sign_intent, the part before the prompt, up to each early return.
ApproveRefused(c) ==
    LET i == req[c].id IN
    /\ pc[c] = "approve"
    /\ holder = NoConn
    /\ \/ /\ ~Present(i)
          /\ Answer(c, "notFound")
          /\ UNCHANGED intents
       \/ /\ Present(i) /\ ~req[c].challengeOk
          /\ Answer(c, "auth")
          /\ UNCHANGED intents
       \/ /\ Present(i) /\ req[c].challengeOk /\ Expired(i)
          /\ Answer(c, "expired")
          /\ intents' = [intents EXCEPT ![i] = NoIntent]
    /\ UNCHANGED <<clock, holder, seen, history>>

\* No presence required: approved on the spot.
ApproveDirect(c) ==
    LET i == req[c].id IN
    /\ pc[c] = "approve"
    /\ holder = NoConn
    /\ Present(i) /\ req[c].challengeOk /\ ~Expired(i)
    /\ ~intents[i].presence
    /\ intents' = [intents EXCEPT ![i].approved = TRUE]
    /\ endorsed' = endorsed \cup {i}
    /\ Answer(c, "approved")
    /\ UNCHANGED <<clock, holder, seen, born, birth, witnessed, released>>

\* Faulty variant: the MutexGuard is dropped before the prompt.
OpenPromptUnlocked(c) ==
    LET i == req[c].id IN
    /\ pc[c] = "approve"
    /\ holder = NoConn
    /\ Present(i) /\ req[c].challengeOk /\ ~Expired(i)
    /\ intents[i].presence
    /\ Goto(c, "prompt")
    /\ UNCHANGED <<clock, intents, holder, req, seen, answer, history>>

\* Presence required: request_user_presence runs with the MutexGuard alive.
OpenPrompt(c) ==
    LET i == req[c].id IN
    /\ pc[c] = "approve"
    /\ holder = NoConn
    /\ Present(i) /\ req[c].challengeOk /\ ~Expired(i)
    /\ intents[i].presence
    /\ holder' = c
    /\ Goto(c, "prompt")
    /\ UNCHANGED <<clock, intents, req, seen, answer, history>>

\* The user answers; nothing looks at the clock again before approved = true.
PromptPassed(c) ==
    LET i == req[c].id IN
    /\ pc[c] = "prompt"
    /\ intents' = [intents EXCEPT ![i].verified = TRUE, ![i].approved = TRUE]
    /\ witnessed' = witnessed \cup {i}
    /\ endorsed' = endorsed \cup {i}
    /\ holder' = NoConn
    /\ Answer(c, "approved")
    /\ UNCHANGED <<clock, seen, born, birth, released>>

\* Faulty variant: a failed prompt leaks the MutexGuard.
PromptFailedLocked(c) ==
    /\ pc[c] = "prompt"
    /\ Answer(c, "auth")
    /\ UNCHANGED <<clock, intents, holder, seen, history>>

\* Rejected, unavailable, or timed out after 60 seconds.
PromptFailed(c) ==
    /\ pc[c] = "prompt"
    /\ holder' = NoConn
    /\ Answer(c, "auth")
    /\ UNCHANGED <<clock, intents, seen, history>>
-----------------------------------------------------------------------------
\* consume_sign_intent removes the entry first and looks at it afterwards: an
\* answer other than "notFound" means that the intent is gone.
ConsumeRefused(c) ==
    LET i == req[c].id IN
    /\ pc[c] = "consume"
    /\ holder = NoConn
    /\ intents' = [intents EXCEPT ![i] = NoIntent]
    /\ \/ ~Present(i) /\ Answer(c, "notFound")
       \/ Present(i) /\ ~req[c].challengeOk /\ Answer(c, "auth")
       \/ Present(i) /\ req[c].challengeOk /\ Expired(i) /\ Answer(c, "expired")
       \/ /\ Present(i) /\ req[c].challengeOk /\ ~Expired(i)
          /\ ~intents[i].approved
          /\ Answer(c, "notApproved")
    /\ UNCHANGED <<clock, holder, seen, history>>

\* Faulty variants: approval, or the deadline, is not looked at.
ConsumableUnapproved(c) ==
    LET i == req[c].id IN Present(i) /\ req[c].challengeOk /\ ~Expired(i)
ConsumableExpired(c) ==
    LET i == req[c].id IN Present(i) /\ req[c].challengeOk /\ intents[i].approved

Consumable(c) ==
    LET i == req[c].id IN
    Present(i) /\ req[c].challengeOk /\ ~Expired(i) /\ intents[i].approved

\* Faulty variant: the entry is read but not removed.
ConsumeKeeps(c) ==
    /\ pc[c] = "consume"
    /\ holder = NoConn
    /\ Consumable(c)
    /\ released' = [released EXCEPT ![req[c].id] = @ + 1]
    /\ Answer(c, "consumed")
    /\ UNCHANGED <<clock, intents, holder, seen, born, birth, endorsed, witnessed>>

Consume(c) ==
    LET i == req[c].id IN
    /\ pc[c] = "consume"
    /\ holder = NoConn
    /\ Consumable(c)
    /\ intents' = [intents EXCEPT ![i] = NoIntent]
    /\ released' = [released EXCEPT ![i] = @ + 1]
    /\ Answer(c, "consumed")
    /\ UNCHANGED <<clock, holder, seen, born, birth, endorsed, witnessed>>
-----------------------------------------------------------------------------
\* The response line is written, or the write fails and the client opens
\* another connection: either way the thread is ready for the next request.
Reply(c) ==
    /\ pc[c] = "reply"
    /\ Goto(c, "idle")
    /\ answer' = [answer EXCEPT ![c] = "none"]
    /\ UNCHANGED <<clock, intents, holder, req, seen, history>>

Tick ==
    /\ clock < MaxTime
    /\ clock' = clock + 1
    /\ UNCHANGED <<intents, holder, pc, req, seen, answer, history>>

\* The daemon dies and is started again: the map was only in memory.
Restart ==
    /\ \E c \in Conns : pc[c] # "idle"
    /\ intents' = [i \in Ids |-> NoIntent]
    /\ holder' = NoConn
    /\ pc' = [c \in Conns |-> "idle"]
    /\ req' = [c \in Conns |-> NoRequest]
    /\ seen' = [c \in Conns |-> 0]
    /\ answer' = [c \in Conns |-> "none"]
    /\ UNCHANGED <<clock, history>>

Handle(c) ==
    \/ Cleanup(c)
    \/ StampCreate(c) \/ Insert(c)
    \/ ApproveRefused(c) \/ ApproveDirect(c) \/ OpenPrompt(c)
    \/ PromptPassed(c) \/ PromptFailed(c)
    \/ ConsumeRefused(c) \/ Consume(c)
    \/ Reply(c)

Next ==
    \/ \E c \in Conns : Receive(c) \/ Handle(c)
    \/ Tick
    \/ Restart

\* A thread that can move moves: the scheduler runs it, and a prompt ends
\* because the adapter waits 60 seconds at most.  std::sync::Mutex is not
\* fair, so nothing stronger than weak fairness is claimed for it.
Fairness == \A c \in Conns : WF_vars(Handle(c))

Spec == Init /\ [][Next]_vars /\ Fairness
-----------------------------------------------------------------------------
\* The types of the variables.
TypeOK ==
    /\ clock \in Nat
    /\ intents \in [Ids -> Intent \cup {NoIntent}]
    /\ holder \in Conns \cup {NoConn}
    /\ pc \in [Conns -> Locations]
    /\ req \in [Conns -> Request]
    /\ seen \in [Conns -> Nat]
    /\ answer \in [Conns -> Answers]
    /\ born \subseteq Ids
    /\ birth \in [Ids -> Intent \cup {NoIntent}]
    /\ endorsed \subseteq Ids
    /\ witnessed \subseteq Ids
    /\ released \in [Ids -> Nat]

\* However requests interleave, are repeated after a lost answer, or straddle
\* a restart, consume_sign_intent hands the payload of an intent out at most
\* once.
AtMostOnce == \A i \in Ids : released[i] <= 1

\* A payload handed out was approved by a caller with the challenge, and when
\* the intent was created with require_user_presence, the user passed a prompt
\* for this very intent ("performs user-presence verification before setting
\* status=approved", docs/NEARXD.md).
ReleasedWasAuthorised ==
    \A i \in Ids : released[i] > 0 =>
        /\ i \in endorsed
        /\ birth[i].presence => i \in witnessed

\* The user is never asked about an intent that somebody else can consume,
\* expire or prune meanwhile, and at most one prompt is open: the entry the
\* prompt is about is in the map, and the thread that asks holds the mutex.
PromptedIntentStays ==
    \A c \in Conns : pc[c] = "prompt" =>
        /\ holder = c
        /\ Present(req[c].id)
        /\ intents[req[c].id].presence

\* A payload is handed out only before its deadline, also when the approval
\* was recorded after it or the consume waited behind somebody's prompt.
ReleasedFresh ==
    [][\A i \in Ids : released'[i] # released[i] => clock < birth[i].expires]_vars

\* Weak fairness gives no more than this: a thread that is never done waits
\* for a mutex that is handed to prompts again and again.
WaitsOnlyForPrompts ==
    \A c \in Conns :
        []<>(pc[c] = "idle") \/ []<>(holder \notin {c, NoConn})
-----------------------------------------------------------------------------
\* The life of intent i as module IntentLifecycle sees it.
Phase(i) ==
    CASE i \notin born -> "unborn"
      [] i \in born /\ released[i] > 0 -> "released"
      [] i \in born /\ released[i] = 0 /\ ~Present(i) -> "dropped"
      [] i \in born /\ released[i] = 0 /\ Present(i) ->
            IF intents[i].approved THEN "approved" ELSE "pending"

Lifecycle == INSTANCE IntentLifecycle
    WITH now      <- clock,
         phase    <- [i \in Ids |-> Phase(i)],
         deadline <- [i \in Ids |-> IF i \in born THEN birth[i].expires ELSE 0]

\* The handlers, threads and restarts implement the life cycle: nothing that
\* was dropped or released returns, and nothing is released unapproved or late.
ImplementsLifecycle == Lifecycle!Spec
=============================================================================
