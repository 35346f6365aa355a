------------------------- MODULE SignIntentsProofs -------------------------
(***************************************************************************)
(* Proofs about SignIntents for every number of connections and intents,   *)
(* every clock and every requested lifetime.                               *)
(***************************************************************************)
EXTENDS SignIntents, TLAPS

\* What an entry of the map, while it is there, remembers of its past.
EntryOK(i) ==
    /\ i \in born
    /\ released[i] = 0
    /\ intents[i].expires = birth[i].expires
    /\ intents[i].presence = birth[i].presence
    /\ intents[i].approved =>
          /\ i \in endorsed
          /\ intents[i].presence => i \in witnessed

\* A thread is only where its request can have brought it, and the mutex is
\* kept across a step by a thread in a prompt and by nobody else.
ThreadOK(c) ==
    /\ pc[c] \in {"stampCreate", "insert"} => req[c] \in CreateReq
    /\ pc[c] \in {"approve", "consume", "prompt"} => req[c] \in UseReq
    /\ holder = c => pc[c] = "prompt"

EntriesOK == \A i \in Ids : Present(i) => EntryOK(i)

\* Birth records exist for the ids that were inserted, and only those can have
\* been handed out.
HistoryOK ==
    /\ \A i \in Ids \ born : released[i] = 0
    /\ \A i \in born : birth[i] \in Intent

ThreadsOK == \A c \in Conns : ThreadOK(c)

\* The inductive invariant.
IInv ==
    /\ TypeOK
    /\ EntriesOK
    /\ HistoryOK
    /\ AtMostOnce
    /\ ReleasedWasAuthorised
    /\ PromptedIntentStays
    /\ ThreadsOK

\* The clamp of create_sign_intent yields a lifetime within its bounds.
LEMMA ClampBounds ==
    \A ttl \in RequestedTtls : Clamp(ttl) \in Nat /\ Clamp(ttl) >= MinTtl /\ Clamp(ttl) <= MaxTtl
BY TtlAssumption DEF Clamp

\* The initial state satisfies the inductive invariant.
LEMMA InitInv == Init => IInv
BY ConnAssumption, TtlAssumption
   DEF Init, IInv, TypeOK, EntriesOK, EntryOK, HistoryOK, ThreadsOK, ThreadOK, Present,
       AtMostOnce, ReleasedWasAuthorised, PromptedIntentStays, NoRequest, Request, BadReq,
       CreateReq, UseReq, Locations, Answers, Intent

USE ConnAssumption, TtlAssumption, IntentAssumption

\* Every step keeps the inductive invariant: one case per action, and one step
\* per part of the invariant.
LEMMA StepInv == IInv /\ [Next]_vars => IInv'
<1> SUFFICES ASSUME IInv, [Next]_vars PROVE IInv'
  OBVIOUS
<1> USE DEF IInv, Goto, history, TypeOK, Locations, Answers, Intent, Present,
            CreateReq, UseReq, BadReq, Request, NoRequest
<1>1. ASSUME NEW c \in Conns, Receive(c) PROVE IInv'
  <2>1. TypeOK'
    BY <1>1 DEF Receive, ThreadsOK, ThreadOK
  <2>2. EntriesOK'
    BY <1>1 DEF Receive, EntriesOK, EntryOK, HistoryOK, ThreadsOK, ThreadOK
  <2>3. HistoryOK'
    BY <1>1 DEF Receive, HistoryOK, EntriesOK, EntryOK, ThreadsOK, ThreadOK
  <2>4. (AtMostOnce /\ ReleasedWasAuthorised)'
    BY <1>1 DEF Receive, AtMostOnce, ReleasedWasAuthorised, EntriesOK, EntryOK, HistoryOK, ThreadsOK, ThreadOK
  <2>5. PromptedIntentStays'
    BY <1>1 DEF Receive, PromptedIntentStays, ThreadsOK, ThreadOK
  <2>6. ThreadsOK'
    BY <1>1 DEF Receive, ThreadsOK, ThreadOK, PromptedIntentStays
  <2>7. QED
    BY <2>1, <2>2, <2>3, <2>4, <2>5, <2>6
<1>2. ASSUME NEW c \in Conns, Cleanup(c) PROVE IInv'
  <2>1. TypeOK'
    BY <1>2 DEF Cleanup, Pruned, Answer, ThreadsOK, ThreadOK
  <2>2. EntriesOK'
    BY <1>2 DEF Cleanup, Pruned, Answer, EntriesOK, EntryOK, HistoryOK, ThreadsOK, ThreadOK
  <2>3. HistoryOK'
    BY <1>2 DEF Cleanup, Pruned, Answer, HistoryOK, EntriesOK, EntryOK, ThreadsOK, ThreadOK
  <2>4. (AtMostOnce /\ ReleasedWasAuthorised)'
    BY <1>2 DEF Cleanup, Pruned, Answer, AtMostOnce, ReleasedWasAuthorised, EntriesOK, EntryOK, HistoryOK, ThreadsOK, ThreadOK
  <2>5. PromptedIntentStays'
    BY <1>2 DEF Cleanup, Pruned, Answer, PromptedIntentStays, ThreadsOK, ThreadOK
  <2>6. ThreadsOK'
    BY <1>2 DEF Cleanup, Pruned, Answer, ThreadsOK, ThreadOK, PromptedIntentStays
  <2>7. QED
    BY <2>1, <2>2, <2>3, <2>4, <2>5, <2>6
<1>3. ASSUME NEW c \in Conns, StampCreate(c) PROVE IInv'
  <2>1. TypeOK'
    BY <1>3 DEF StampCreate, ThreadsOK, ThreadOK
  <2>2. EntriesOK'
    BY <1>3 DEF StampCreate, EntriesOK, EntryOK, HistoryOK, ThreadsOK, ThreadOK
  <2>3. HistoryOK'
    BY <1>3 DEF StampCreate, HistoryOK, EntriesOK, EntryOK, ThreadsOK, ThreadOK
  <2>4. (AtMostOnce /\ ReleasedWasAuthorised)'
    BY <1>3 DEF StampCreate, AtMostOnce, ReleasedWasAuthorised, EntriesOK, EntryOK, HistoryOK, ThreadsOK, ThreadOK
  <2>5. PromptedIntentStays'
    BY <1>3 DEF StampCreate, PromptedIntentStays, ThreadsOK, ThreadOK
  <2>6. ThreadsOK'
    BY <1>3 DEF StampCreate, ThreadsOK, ThreadOK, PromptedIntentStays
  <2>7. QED
    BY <2>1, <2>2, <2>3, <2>4, <2>5, <2>6
<1>4. ASSUME NEW c \in Conns, Insert(c) PROVE IInv'
  <2>0. NewIntent(c) \in Intent
    <3>1. seen[c] \in Nat /\ req[c] \in CreateReq
      BY <1>4 DEF Insert, ThreadsOK, ThreadOK
    <3>2. req[c].ttl \in RequestedTtls /\ req[c].presence \in BOOLEAN
      BY <3>1
    <3>3. Clamp(req[c].ttl) \in Nat
      BY <3>2, ClampBounds
    <3>4. seen[c] + Clamp(req[c].ttl) \in Nat
      BY <3>1, <3>3
    <3>5. QED
      BY <3>1, <3>2, <3>4 DEF NewIntent
  <2> HIDE DEF Intent
  <2>1. TypeOK'
    BY <1>4, <2>0 DEF Insert, Answer, ThreadsOK, ThreadOK
  <2>2. EntriesOK'
    BY <1>4, <2>0 DEF Insert, NewIntent, Answer, EntriesOK, EntryOK, HistoryOK, ThreadsOK, ThreadOK
  <2>3. HistoryOK'
    BY <1>4, <2>0 DEF Insert, Answer, HistoryOK, EntriesOK, EntryOK, ThreadsOK, ThreadOK
  <2>4. (AtMostOnce /\ ReleasedWasAuthorised)'
    BY <1>4 DEF Insert, NewIntent, Answer, AtMostOnce, ReleasedWasAuthorised, EntriesOK, EntryOK, HistoryOK, ThreadsOK, ThreadOK
  <2>5. PromptedIntentStays'
    BY <1>4 DEF Insert, NewIntent, Answer, PromptedIntentStays, ThreadsOK, ThreadOK
  <2>6. ThreadsOK'
    BY <1>4 DEF Insert, NewIntent, Answer, ThreadsOK, ThreadOK, PromptedIntentStays
  <2>7. QED
    BY <2>1, <2>2, <2>3, <2>4, <2>5, <2>6
<1>5. ASSUME NEW c \in Conns, ApproveRefused(c) PROVE IInv'
  <2>1. TypeOK'
    <3>1. /\ pc' = [pc EXCEPT ![c] = "reply"] /\ req' = [req EXCEPT ![c] = NoRequest]
          /\ \E a \in Answers : answer' = [answer EXCEPT ![c] = a]
          /\ intents' = intents \/ intents' = [intents EXCEPT ![req[c].id] = NoIntent]
          /\ UNCHANGED <<clock, holder, seen, born, birth, endorsed, witnessed, released>>
      BY <1>5 DEF ApproveRefused, Answer
    <3>2. QED
      BY <3>1
  <2>2. EntriesOK'
    BY <1>5 DEF ApproveRefused, Answer, Expired, EntriesOK, EntryOK, HistoryOK, ThreadsOK, ThreadOK
  <2>3. HistoryOK'
    BY <1>5 DEF ApproveRefused, Answer, Expired, HistoryOK, EntriesOK, EntryOK, ThreadsOK, ThreadOK
  <2>4. (AtMostOnce /\ ReleasedWasAuthorised)'
    BY <1>5 DEF ApproveRefused, Answer, Expired, AtMostOnce, ReleasedWasAuthorised, EntriesOK, EntryOK, HistoryOK, ThreadsOK, ThreadOK
  <2>5. PromptedIntentStays'
    BY <1>5 DEF ApproveRefused, Answer, Expired, PromptedIntentStays, ThreadsOK, ThreadOK
  <2>6. ThreadsOK'
    BY <1>5 DEF ApproveRefused, Answer, Expired, ThreadsOK, ThreadOK, PromptedIntentStays
  <2>7. QED
    BY <2>1, <2>2, <2>3, <2>4, <2>5, <2>6
<1>6. ASSUME NEW c \in Conns, ApproveDirect(c) PROVE IInv'
  <2> PICK i \in Ids : i = req[c].id
    BY <1>6 DEF ApproveDirect, ThreadsOK, ThreadOK
  <2> DEFINE e == [intents[i] EXCEPT !.approved = TRUE]
  <2>0. /\ intents[i] \in Intent
        /\ e \in Intent
        /\ e.expires = intents[i].expires
        /\ e.presence = intents[i].presence
        /\ intents' = [intents EXCEPT ![i] = e]
    <3>1. intents[i] \in Intent
      BY <1>6 DEF ApproveDirect, ThreadsOK, ThreadOK, PromptedIntentStays
    <3>2. intents' = [intents EXCEPT ![i] = e]
      BY <1>6 DEF ApproveDirect
    <3>3. e \in Intent /\ e.expires = intents[i].expires /\ e.presence = intents[i].presence
      BY <3>1
    <3>4. QED
      BY <3>1, <3>2, <3>3
  <2> HIDE DEF Intent, e
  <2>1. TypeOK'
    BY <1>6, <2>0 DEF ApproveDirect, Answer, Expired, ThreadsOK, ThreadOK
  <2>2. EntriesOK'
    BY <1>6, <2>0 DEF ApproveDirect, Answer, Expired, EntriesOK, EntryOK, HistoryOK, ThreadsOK, ThreadOK
  <2>3. HistoryOK'
    BY <1>6, <2>0 DEF ApproveDirect, Answer, Expired, HistoryOK, EntriesOK, EntryOK, ThreadsOK, ThreadOK
  <2>4. (AtMostOnce /\ ReleasedWasAuthorised)'
    BY <1>6, <2>0 DEF ApproveDirect, Answer, Expired, AtMostOnce, ReleasedWasAuthorised, EntriesOK, EntryOK, HistoryOK, ThreadsOK, ThreadOK
  <2>5. PromptedIntentStays'
    BY <1>6, <2>0 DEF ApproveDirect, Answer, Expired, PromptedIntentStays, ThreadsOK, ThreadOK
  <2>6. ThreadsOK'
    BY <1>6, <2>0 DEF ApproveDirect, Answer, Expired, ThreadsOK, ThreadOK, PromptedIntentStays
  <2>7. QED
    BY <2>1, <2>2, <2>3, <2>4, <2>5, <2>6
<1>7. ASSUME NEW c \in Conns, OpenPrompt(c) PROVE IInv'
  <2>1. TypeOK'
    BY <1>7 DEF OpenPrompt, Expired, ThreadsOK, ThreadOK
  <2>2. EntriesOK'
    BY <1>7 DEF OpenPrompt, Expired, EntriesOK, EntryOK, HistoryOK, ThreadsOK, ThreadOK
  <2>3. HistoryOK'
    BY <1>7 DEF OpenPrompt, Expired, HistoryOK, EntriesOK, EntryOK, ThreadsOK, ThreadOK
  <2>4. (AtMostOnce /\ ReleasedWasAuthorised)'
    BY <1>7 DEF OpenPrompt, Expired, AtMostOnce, ReleasedWasAuthorised, EntriesOK, EntryOK, HistoryOK, ThreadsOK, ThreadOK
  <2>5. PromptedIntentStays'
    BY <1>7 DEF OpenPrompt, Expired, PromptedIntentStays, ThreadsOK, ThreadOK
  <2>6. ThreadsOK'
    BY <1>7 DEF OpenPrompt, Expired, ThreadsOK, ThreadOK, PromptedIntentStays
  <2>7. QED
    BY <2>1, <2>2, <2>3, <2>4, <2>5, <2>6
<1>8. ASSUME NEW c \in Conns, PromptPassed(c) PROVE IInv'
  <2> PICK i \in Ids : i = req[c].id
    BY <1>8 DEF PromptPassed, ThreadsOK, ThreadOK
  <2> DEFINE e == [intents[i] EXCEPT !.verified = TRUE, !.approved = TRUE]
  <2>0. /\ intents[i] \in Intent
        /\ e \in Intent
        /\ e.expires = intents[i].expires
        /\ e.presence = intents[i].presence
        /\ intents' = [intents EXCEPT ![i] = e]
    <3>1. intents[i] \in Intent
      BY <1>8 DEF PromptPassed, ThreadsOK, ThreadOK, PromptedIntentStays
    <3>2. intents' = [intents EXCEPT ![i] = e]
      BY <1>8 DEF PromptPassed
    <3>3. e \in Intent /\ e.expires = intents[i].expires /\ e.presence = intents[i].presence
      BY <3>1
    <3>4. QED
      BY <3>1, <3>2, <3>3
  <2> HIDE DEF Intent, e
  <2>1. TypeOK'
    BY <1>8, <2>0 DEF PromptPassed, Answer, ThreadsOK, ThreadOK
  <2>2. EntriesOK'
    <3>1. /\ i \in born /\ born' = born
          /\ released[i] = 0 /\ released' = released
          /\ birth' = birth
          /\ intents[i].expires = birth[i].expires
          /\ intents[i].presence = birth[i].presence
          /\ i \in endorsed' /\ endorsed \subseteq endorsed'
          /\ i \in witnessed' /\ witnessed \subseteq witnessed'
      BY <1>8, <2>0 DEF PromptPassed, EntriesOK, EntryOK, PromptedIntentStays
    <3>2. EntryOK(i)'
      BY <3>1, <2>0 DEF EntryOK
    <3>3. ASSUME NEW j \in Ids \ {i}, Present(j)' PROVE EntryOK(j)'
      BY <3>1, <3>3, <2>0 DEF EntriesOK, EntryOK
    <3>4. QED
      BY <3>2, <3>3 DEF EntriesOK
  <2>3. HistoryOK'
    BY <1>8, <2>0 DEF PromptPassed, Answer, HistoryOK, EntriesOK, EntryOK, ThreadsOK, ThreadOK
  <2>4. (AtMostOnce /\ ReleasedWasAuthorised)'
    BY <1>8, <2>0 DEF PromptPassed, Answer, AtMostOnce, ReleasedWasAuthorised, EntriesOK, EntryOK, HistoryOK, ThreadsOK, ThreadOK
  <2>5. PromptedIntentStays'
    BY <1>8, <2>0 DEF PromptPassed, Answer, PromptedIntentStays, ThreadsOK, ThreadOK
  <2>6. ThreadsOK'
    BY <1>8, <2>0 DEF PromptPassed, Answer, ThreadsOK, ThreadOK, PromptedIntentStays
  <2>7. QED
    BY <2>1, <2>2, <2>3, <2>4, <2>5, <2>6
<1>9. ASSUME NEW c \in Conns, PromptFailed(c) PROVE IInv'
  <2>1. TypeOK'
    BY <1>9 DEF PromptFailed, Answer, ThreadsOK, ThreadOK
  <2>2. EntriesOK'
    BY <1>9 DEF PromptFailed, Answer, EntriesOK, EntryOK, HistoryOK, ThreadsOK, ThreadOK
  <2>3. HistoryOK'
    BY <1>9 DEF PromptFailed, Answer, HistoryOK, EntriesOK, EntryOK, ThreadsOK, ThreadOK
  <2>4. (AtMostOnce /\ ReleasedWasAuthorised)'
    BY <1>9 DEF PromptFailed, Answer, AtMostOnce, ReleasedWasAuthorised, EntriesOK, EntryOK, HistoryOK, ThreadsOK, ThreadOK
  <2>5. PromptedIntentStays'
    BY <1>9 DEF PromptFailed, Answer, PromptedIntentStays, ThreadsOK, ThreadOK
  <2>6. ThreadsOK'
    BY <1>9 DEF PromptFailed, Answer, ThreadsOK, ThreadOK, PromptedIntentStays
  <2>7. QED
    BY <2>1, <2>2, <2>3, <2>4, <2>5, <2>6
<1>10. ASSUME NEW c \in Conns, ConsumeRefused(c) PROVE IInv'
  <2>1. TypeOK'
    BY <1>10 DEF ConsumeRefused, Answer, Expired, ThreadsOK, ThreadOK
  <2>2. EntriesOK'
    BY <1>10 DEF ConsumeRefused, Answer, Expired, EntriesOK, EntryOK, HistoryOK, ThreadsOK, ThreadOK
  <2>3. HistoryOK'
    BY <1>10 DEF ConsumeRefused, Answer, Expired, HistoryOK, EntriesOK, EntryOK, ThreadsOK, ThreadOK
  <2>4. (AtMostOnce /\ ReleasedWasAuthorised)'
    BY <1>10 DEF ConsumeRefused, Answer, Expired, AtMostOnce, ReleasedWasAuthorised, EntriesOK, EntryOK, HistoryOK, ThreadsOK, ThreadOK
  <2>5. PromptedIntentStays'
    BY <1>10 DEF ConsumeRefused, Answer, Expired, PromptedIntentStays, ThreadsOK, ThreadOK
  <2>6. ThreadsOK'
    BY <1>10 DEF ConsumeRefused, Answer, Expired, ThreadsOK, ThreadOK, PromptedIntentStays
  <2>7. QED
    BY <2>1, <2>2, <2>3, <2>4, <2>5, <2>6
<1>11. ASSUME NEW c \in Conns, Consume(c) PROVE IInv'
  <2>1. TypeOK'
    BY <1>11 DEF Consume, Answer, Consumable, Expired, ThreadsOK, ThreadOK
  <2>2. EntriesOK'
    BY <1>11 DEF Consume, Answer, Consumable, Expired, EntriesOK, EntryOK, HistoryOK, ThreadsOK, ThreadOK
  <2>3. HistoryOK'
    BY <1>11 DEF Consume, Answer, Consumable, Expired, HistoryOK, EntriesOK, EntryOK, ThreadsOK, ThreadOK
  <2>4. (AtMostOnce /\ ReleasedWasAuthorised)'
    BY <1>11 DEF Consume, Answer, Consumable, Expired, AtMostOnce, ReleasedWasAuthorised, EntriesOK, EntryOK, HistoryOK, ThreadsOK, ThreadOK
  <2>5. PromptedIntentStays'
    BY <1>11 DEF Consume, Answer, Consumable, Expired, PromptedIntentStays, ThreadsOK, ThreadOK
  <2>6. ThreadsOK'
    BY <1>11 DEF Consume, Answer, Consumable, Expired, ThreadsOK, ThreadOK, PromptedIntentStays
  <2>7. QED
    BY <2>1, <2>2, <2>3, <2>4, <2>5, <2>6
<1>12. ASSUME NEW c \in Conns, Reply(c) PROVE IInv'
  <2>1. TypeOK'
    BY <1>12 DEF Reply, ThreadsOK, ThreadOK
  <2>2. EntriesOK'
    BY <1>12 DEF Reply, EntriesOK, EntryOK, HistoryOK, ThreadsOK, ThreadOK
  <2>3. HistoryOK'
    BY <1>12 DEF Reply, HistoryOK, EntriesOK, EntryOK, ThreadsOK, ThreadOK
  <2>4. (AtMostOnce /\ ReleasedWasAuthorised)'
    BY <1>12 DEF Reply, AtMostOnce, ReleasedWasAuthorised, EntriesOK, EntryOK, HistoryOK, ThreadsOK, ThreadOK
  <2>5. PromptedIntentStays'
    BY <1>12 DEF Reply, PromptedIntentStays, ThreadsOK, ThreadOK
  <2>6. ThreadsOK'
    BY <1>12 DEF Reply, ThreadsOK, ThreadOK, PromptedIntentStays
  <2>7. QED
    BY <2>1, <2>2, <2>3, <2>4, <2>5, <2>6
<1>13. CASE Tick
  BY <1>13 DEF Tick, EntriesOK, EntryOK, HistoryOK, AtMostOnce, ReleasedWasAuthorised, PromptedIntentStays, ThreadsOK, ThreadOK
<1>14. CASE Restart
  BY <1>14 DEF Restart, EntriesOK, EntryOK, HistoryOK, AtMostOnce, ReleasedWasAuthorised, PromptedIntentStays, ThreadsOK, ThreadOK
<1>15. CASE UNCHANGED vars
  BY <1>15 DEF vars, EntriesOK, EntryOK, HistoryOK, AtMostOnce, ReleasedWasAuthorised, PromptedIntentStays, ThreadsOK, ThreadOK
<1>16. QED
  BY <1>1, <1>2, <1>3, <1>4, <1>5, <1>6, <1>7, <1>8, <1>9, <1>10, <1>11, <1>12, <1>13, <1>14, <1>15 DEF Next, Handle

\* The inductive invariant holds in every reachable state.
THEOREM InvariantHolds == Spec => []IInv
<1>1. QED
  BY InitInv, StepInv, PTL DEF Spec

\* Every variable keeps its type, for any connections, ids and lifetimes.
THEOREM TypeCorrect == Spec => []TypeOK
<1>1. IInv => TypeOK
  BY DEF IInv
<1>2. QED
  BY <1>1, InvariantHolds, PTL

\* The payload of a sign intent is handed out at most once, whatever the number
\* of connections that ask for it and however often the daemon restarts.
THEOREM ReleasedOnce == Spec => []AtMostOnce
<1>1. IInv => AtMostOnce
  BY DEF IInv
<1>2. QED
  BY <1>1, InvariantHolds, PTL

\* A payload that was handed out was approved with the challenge, and with a
\* presence prompt for that intent when its creator had asked for one.
THEOREM ReleasedAuthorised == Spec => []ReleasedWasAuthorised
<1>1. IInv => ReleasedWasAuthorised
  BY DEF IInv
<1>2. QED
  BY <1>1, InvariantHolds, PTL

\* While the user looks at a prompt, its intent stays in the map and the mutex
\* stays with the thread that asks.
THEOREM PromptStable == Spec => []PromptedIntentStays
<1>1. IInv => PromptedIntentStays
  BY DEF IInv
<1>2. QED
  BY <1>1, InvariantHolds, PTL

\* No step hands out the payload of an intent whose deadline has passed.
THEOREM ReleaseIsFresh == Spec => ReleasedFresh
<1>1. ASSUME IInv, Next, NEW i \in Ids, released'[i] # released[i]
      PROVE  clock < birth[i].expires
  <2> USE DEF IInv, TypeOK, history
  <2>1. PICK c \in Conns : Consume(c)
    <3>1. \A c \in Conns : Receive(c) \/ Reply(c) \/ StampCreate(c) \/ Insert(c) \/ Cleanup(c)
             => released' = released
      BY DEF Receive, Reply, StampCreate, Insert, Cleanup
    <3>2. \A c \in Conns : \/ ApproveRefused(c) \/ ApproveDirect(c) \/ OpenPrompt(c)
                            \/ PromptPassed(c) \/ PromptFailed(c) \/ ConsumeRefused(c)
             => released' = released
      BY DEF ApproveRefused, ApproveDirect, OpenPrompt, PromptPassed, PromptFailed, ConsumeRefused
    <3>3. Tick \/ Restart => released' = released
      BY DEF Tick, Restart
    <3>4. QED
      BY <1>1, <3>1, <3>2, <3>3 DEF Next, Handle
  <2>2. PICK j \in Ids : j = req[c].id
    BY <1>1, <2>1 DEF Consume, ThreadsOK, ThreadOK, UseReq
  <2>3. j = i
    BY <1>1, <2>1, <2>2 DEF Consume
  <2>4. Present(i) /\ ~(intents[i].expires <= clock)
    BY <2>1, <2>2, <2>3 DEF Consume, Consumable, Expired
  <2>5. intents[i].expires = birth[i].expires /\ intents[i] \in Intent
    BY <1>1, <2>4 DEF EntriesOK, EntryOK, Present
  <2>6. QED
    BY <1>1, <2>4, <2>5 DEF Intent
<1>2. IInv /\ [Next]_vars => [\A i \in Ids : released'[i] # released[i] => clock < birth[i].expires]_vars
  BY <1>1
<1>3. QED
  BY <1>2, InvariantHolds, PTL DEF Spec, ReleasedFresh
-----------------------------------------------------------------------------
(***************************************************************************)
(* SignIntents implements IntentLifecycle.                                 *)
(***************************************************************************)
PhaseOf == [i \in Ids |-> Phase(i)]
DeadlineOf == [i \in Ids |-> IF i \in born THEN birth[i].expires ELSE 0]

\* The phase of an intent, one equation per case of the mapping.
LEMMA PhaseCases ==
  ASSUME IInv, NEW i \in Ids
  PROVE  /\ i \notin born => Phase(i) = "unborn"
         /\ i \in born /\ released[i] > 0 => Phase(i) = "released"
         /\ i \in born /\ released[i] = 0 /\ ~Present(i) => Phase(i) = "dropped"
         /\ Present(i) /\ intents[i].approved => Phase(i) = "approved"
         /\ Present(i) /\ ~intents[i].approved => Phase(i) = "pending"
BY DEF IInv, TypeOK, EntriesOK, EntryOK, Phase

\* The same equations after a step.
LEMMA PhaseCasesNext ==
  ASSUME IInv', NEW i \in Ids
  PROVE  /\ i \notin born' => Phase(i)' = "unborn"
         /\ i \in born' /\ released'[i] > 0 => Phase(i)' = "released"
         /\ i \in born' /\ released'[i] = 0 /\ ~Present(i)' => Phase(i)' = "dropped"
         /\ Present(i)' /\ intents'[i].approved => Phase(i)' = "approved"
         /\ Present(i)' /\ ~intents'[i].approved => Phase(i)' = "pending"
BY DEF IInv, TypeOK, EntriesOK, EntryOK, Phase

\* A step that only loses entries of the map drops those intents.
LEMMA DropStep ==
  ASSUME IInv, IInv', UNCHANGED <<clock, born, birth, released>>,
         \A i \in Ids : intents'[i] = intents[i] \/ intents'[i] = NoIntent
  PROVE  Lifecycle!Next
<1> DEFINE S == {i \in Ids : Present(i) /\ ~Present(i)'}
<1>1. \A i \in S : Phase(i) \in {"pending", "approved"}
  BY PhaseCases DEF IInv, TypeOK, Intent, Present
<1>2. \A i \in S : Phase(i)' = "dropped"
  BY PhaseCasesNext DEF IInv, EntriesOK, EntryOK, Present
<1>3. \A i \in Ids \ S : Phase(i)' = Phase(i)
  <2>1. TAKE i \in Ids \ S
  <2>2. CASE i \notin born
    BY <2>2, PhaseCases, PhaseCasesNext
  <2>3. CASE Present(i)
    BY <2>3, PhaseCases, PhaseCasesNext DEF Present, IInv, TypeOK, Intent
  <2>4. CASE i \in born /\ ~Present(i)
    BY <2>4, PhaseCases, PhaseCasesNext DEF Present, IInv, TypeOK
  <2>5. QED
    BY <2>2, <2>3, <2>4
<1>4. PhaseOf' = [i \in Ids |-> IF i \in S THEN "dropped" ELSE PhaseOf[i]]
  BY <1>2, <1>3 DEF PhaseOf
<1>5. \A i \in S : PhaseOf[i] \in {"pending", "approved"}
  BY <1>1 DEF PhaseOf
<1>6. DeadlineOf' = DeadlineOf
  BY DEF DeadlineOf
<1>7. S \in SUBSET Ids
  OBVIOUS
<1>8. Lifecycle!Drop(S)
  BY <1>4, <1>5, <1>6 DEF Lifecycle!Drop, PhaseOf, DeadlineOf
<1>9. QED
  BY <1>7, <1>8 DEF Lifecycle!Next

\* Every step of the daemon is a step of the life cycle, or a stutter.
LEMMA StepSimulation == IInv /\ IInv' /\ [Next]_vars => [Lifecycle!Next]_(Lifecycle!vars)
<1> SUFFICES ASSUME IInv, IInv', [Next]_vars PROVE [Lifecycle!Next]_(Lifecycle!vars)
  OBVIOUS
<1> USE DEF IInv, history
<1>1. ASSUME NEW c \in Conns, \/ Receive(c) \/ Cleanup(c) \/ StampCreate(c) \/ OpenPrompt(c)
                               \/ PromptFailed(c) \/ Reply(c)
      PROVE  Lifecycle!Next
  <2>1. UNCHANGED <<clock, born, birth, released>>
    BY <1>1 DEF Receive, Cleanup, StampCreate, OpenPrompt, PromptFailed, Reply
  <2>2. \A i \in Ids : intents'[i] = intents[i] \/ intents'[i] = NoIntent
    BY <1>1 DEF Receive, Cleanup, Pruned, StampCreate, OpenPrompt, PromptFailed, Reply, TypeOK
  <2>3. QED
    BY <2>1, <2>2, DropStep
<1>2. ASSUME NEW c \in Conns, ApproveRefused(c) \/ ConsumeRefused(c) PROVE Lifecycle!Next
  <2>1. UNCHANGED <<clock, born, birth, released>>
    BY <1>2 DEF ApproveRefused, ConsumeRefused
  <2>2. \A i \in Ids : intents'[i] = intents[i] \/ intents'[i] = NoIntent
    BY <1>2 DEF ApproveRefused, ConsumeRefused, TypeOK
  <2>3. QED
    BY <2>1, <2>2, DropStep
<1>3. CASE Restart
  <2>1. UNCHANGED <<clock, born, birth, released>>
    BY <1>3 DEF Restart
  <2>2. \A i \in Ids : intents'[i] = intents[i] \/ intents'[i] = NoIntent
    BY <1>3 DEF Restart
  <2>3. QED
    BY <2>1, <2>2, DropStep
<1>4. ASSUME NEW c \in Conns, Insert(c) PROVE Lifecycle!Next
  <2>1. PICK i \in Ids \ born :
          /\ intents' = [intents EXCEPT ![i] = NewIntent(c)]
          /\ birth' = [birth EXCEPT ![i] = NewIntent(c)]
          /\ born' = born \cup {i}
    BY <1>4 DEF Insert
  <2>2. UNCHANGED <<clock, released>>
    BY <1>4 DEF Insert
  <2>3. NewIntent(c) = birth'[i] /\ birth'[i] \in Intent
    BY <2>1 DEF HistoryOK, TypeOK
  <2>4. Present(i)' /\ ~intents'[i].approved
    <3>1. intents'[i] = NewIntent(c)
      BY <2>1 DEF TypeOK
    <3>2. NewIntent(c) # NoIntent
      BY <2>3 DEF Intent
    <3>3. NewIntent(c).approved = FALSE
      BY DEF NewIntent
    <3>4. QED
      BY <3>1, <3>2, <3>3 DEF Present
  <2>5. \A j \in Ids \ {i} : Phase(j)' = Phase(j)
    BY <2>1, <2>2 DEF Phase, Present, TypeOK
  <2>6. Phase(i) = "unborn" /\ Phase(i)' = "pending"
    BY <2>1, <2>4, PhaseCases, PhaseCasesNext
  <2>7. PhaseOf[i] = "unborn" /\ PhaseOf' = [PhaseOf EXCEPT ![i] = "pending"]
    BY <2>5, <2>6 DEF PhaseOf
  <2>8. DeadlineOf' \in [Ids -> Nat]
    BY DEF DeadlineOf, HistoryOK, Intent
  <2>9. \A j \in Ids \ {i} : DeadlineOf'[j] = DeadlineOf[j]
    BY <2>1 DEF DeadlineOf, TypeOK
  <2>10. Lifecycle!Create(i)
    BY <2>2, <2>7, <2>8, <2>9 DEF Lifecycle!Create, PhaseOf, DeadlineOf
  <2>11. QED
    BY <2>10 DEF Lifecycle!Next
<1>5. ASSUME NEW c \in Conns, ApproveDirect(c) PROVE Lifecycle!Next
  <2> PICK i \in Ids : i = req[c].id
    BY <1>5 DEF ApproveDirect, ThreadsOK, ThreadOK, UseReq
  <2>1. /\ Present(i) /\ Present(i)' /\ intents'[i].approved
        /\ \A j \in Ids \ {i} : intents'[j] = intents[j]
        /\ UNCHANGED <<clock, born, birth, released>>
    <3> DEFINE e == [intents[i] EXCEPT !.approved = TRUE]
    <3>1. Present(i) /\ intents[i] \in Intent
      BY <1>5 DEF ApproveDirect, TypeOK, Present, PromptedIntentStays
    <3>2. intents' = [intents EXCEPT ![i] = e]
      BY <1>5 DEF ApproveDirect
    <3>3. e \in Intent /\ e.approved
      BY <3>1 DEF Intent
    <3>4. UNCHANGED <<clock, born, birth, released>>
      BY <1>5 DEF ApproveDirect
    <3>5. e # NoIntent
      BY <3>3 DEF Intent
    <3> HIDE DEF e
    <3>6. QED
      BY <3>1, <3>2, <3>3, <3>4, <3>5 DEF Present, TypeOK
  <2>2. PhaseOf[i] \in {"pending", "approved"}
    BY <2>1, PhaseCases DEF PhaseOf, TypeOK, Intent, Present
  <2>3. Phase(i)' = "approved"
    BY <2>1, PhaseCasesNext
  <2>4. \A j \in Ids \ {i} : Phase(j)' = Phase(j)
    BY <2>1 DEF Phase, Present
  <2>5. PhaseOf' = [PhaseOf EXCEPT ![i] = "approved"]
    BY <2>3, <2>4 DEF PhaseOf
  <2>6. DeadlineOf' = DeadlineOf
    BY <2>1 DEF DeadlineOf
  <2>7. Lifecycle!Approve(i)
    BY <2>1, <2>2, <2>5, <2>6 DEF Lifecycle!Approve, PhaseOf, DeadlineOf
  <2>8. QED
    BY <2>7 DEF Lifecycle!Next
<1>6. ASSUME NEW c \in Conns, PromptPassed(c) PROVE Lifecycle!Next
  <2> PICK i \in Ids : i = req[c].id
    BY <1>6 DEF PromptPassed, ThreadsOK, ThreadOK, UseReq
  <2>1. /\ Present(i) /\ Present(i)' /\ intents'[i].approved
        /\ \A j \in Ids \ {i} : intents'[j] = intents[j]
        /\ UNCHANGED <<clock, born, birth, released>>
    <3> DEFINE e == [intents[i] EXCEPT !.verified = TRUE, !.approved = TRUE]
    <3>1. Present(i) /\ intents[i] \in Intent
      BY <1>6 DEF PromptPassed, TypeOK, Present, PromptedIntentStays
    <3>2. intents' = [intents EXCEPT ![i] = e]
      BY <1>6 DEF PromptPassed
    <3>3. e \in Intent /\ e.approved
      BY <3>1 DEF Intent
    <3>4. UNCHANGED <<clock, born, birth, released>>
      BY <1>6 DEF PromptPassed
    <3>5. e # NoIntent
      BY <3>3 DEF Intent
    <3> HIDE DEF e
    <3>6. QED
      BY <3>1, <3>2, <3>3, <3>4, <3>5 DEF Present, TypeOK
  <2>2. PhaseOf[i] \in {"pending", "approved"}
    BY <2>1, PhaseCases DEF PhaseOf, TypeOK, Intent, Present
  <2>3. Phase(i)' = "approved"
    BY <2>1, PhaseCasesNext
  <2>4. \A j \in Ids \ {i} : Phase(j)' = Phase(j)
    BY <2>1 DEF Phase, Present
  <2>5. PhaseOf' = [PhaseOf EXCEPT ![i] = "approved"]
    BY <2>3, <2>4 DEF PhaseOf
  <2>6. DeadlineOf' = DeadlineOf
    BY <2>1 DEF DeadlineOf
  <2>7. Lifecycle!Approve(i)
    BY <2>1, <2>2, <2>5, <2>6 DEF Lifecycle!Approve, PhaseOf, DeadlineOf
  <2>8. QED
    BY <2>7 DEF Lifecycle!Next
<1>7. ASSUME NEW c \in Conns, Consume(c) PROVE Lifecycle!Next
  <2> PICK i \in Ids : i = req[c].id
    BY <1>7 DEF Consume, ThreadsOK, ThreadOK, UseReq
  <2>1. /\ Present(i) /\ intents[i].approved /\ ~(intents[i].expires <= clock)
        /\ intents' = [intents EXCEPT ![i] = NoIntent]
        /\ released' = [released EXCEPT ![i] = @ + 1]
        /\ UNCHANGED <<clock, born, birth>>
    BY <1>7 DEF Consume, Consumable, Expired
  <2>2. i \in born /\ released[i] = 0 /\ intents[i].expires = birth[i].expires
    BY <2>1 DEF EntriesOK, EntryOK
  <2>3. released'[i] = 1
    BY <2>1, <2>2 DEF TypeOK
  <2>4. PhaseOf[i] = "approved" /\ Phase(i)' = "released"
    BY <2>1, <2>2, <2>3, PhaseCases, PhaseCasesNext DEF PhaseOf
  <2>5. \A j \in Ids \ {i} : Phase(j)' = Phase(j)
    BY <2>1 DEF Phase, Present, TypeOK
  <2>6. PhaseOf' = [PhaseOf EXCEPT ![i] = "released"]
    BY <2>4, <2>5 DEF PhaseOf
  <2>7. clock < DeadlineOf[i]
    BY <2>1, <2>2 DEF DeadlineOf, TypeOK, HistoryOK, Intent
  <2>8. Lifecycle!Release(i)
    BY <2>1, <2>4, <2>6, <2>7
       DEF Lifecycle!Release, Lifecycle!Fresh, PhaseOf, DeadlineOf
  <2>9. QED
    BY <2>8 DEF Lifecycle!Next
<1>8. CASE Tick
  <2>1. clock' = clock + 1 /\ UNCHANGED <<intents, born, birth, released>>
    BY <1>8 DEF Tick
  <2>2. PhaseOf' = PhaseOf /\ DeadlineOf' = DeadlineOf
    BY <2>1 DEF PhaseOf, DeadlineOf, Phase, Present
  <2>3. Lifecycle!Advance
    BY <2>1, <2>2 DEF Lifecycle!Advance, PhaseOf, DeadlineOf, TypeOK
  <2>4. QED
    BY <2>3 DEF Lifecycle!Next
<1>9. CASE UNCHANGED vars
  <2>1. PhaseOf' = PhaseOf /\ DeadlineOf' = DeadlineOf /\ clock' = clock
    BY <1>9 DEF vars, PhaseOf, DeadlineOf, Phase, Present
  <2>2. QED
    BY <2>1 DEF Lifecycle!vars, PhaseOf, DeadlineOf
<1>10. QED
  BY <1>1, <1>2, <1>3, <1>4, <1>5, <1>6, <1>7, <1>8, <1>9 DEF Next, Handle

\* The daemon implements the one-shot life cycle of an intent.
THEOREM Refinement == Spec => ImplementsLifecycle
<1>1. Init => Lifecycle!Init
  BY DEF Init, Lifecycle!Init, Phase
<1>2. QED
  BY <1>1, StepSimulation, InvariantHolds, PTL DEF Spec, ImplementsLifecycle, Lifecycle!Spec
=============================================================================
