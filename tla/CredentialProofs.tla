--------------------------- MODULE CredentialProofs ---------------------------
(***************************************************************************)
(* Proofs about the two kinds of secrets that nearxd keeps.                *)
(*                                                                         *)
(* KeychainCredentials: a NEAR signing key, for every set of connections,  *)
(* requests and places a key can be in, with and without the entitlement.  *)
(* TokenStore: the FastNEAR token, for every set of connections and tokens,*)
(* every backend, and a token in the environment or none.                  *)
(***************************************************************************)
EXTENDS KeychainCredentials, TokenStore, TLAPS

-----------------------------------------------------------------------------
(* The signing key *)

Locations == {"idle", "prompt", "read", "store", "delete", "add", "state", "save",
              "check", "sign", "reply"}
Answers   == {"none", "auth", "credential", "protectionFailed", "saved", "notSaved", "signed"}
Tasks     == {"import", "backfill", "reprotect"}
Record    == [inKeychain : BOOLEAN, protection : Protections \cup {"null", "unknown"}]

TypeOK ==
    /\ sources \subseteq Software \cup {"legacy_item"}
    /\ entitled \in BOOLEAN
    /\ item \in Protections \cup {"none"}
    /\ index \in Record \cup {NoRecord}
    /\ pc \in [Conns -> Locations]
    /\ req \in [Conns -> Requests \cup {NoRequest}]
    /\ before \in [Conns -> Protections \cup {"unknown"}]
    /\ task \in [Conns -> Tasks \cup {"none"}]
    /\ update \in [Conns -> Record \cup {NoRecord}]
    /\ used \in [Conns -> Software \cup {"none", "nearxd_keychain"}]
    /\ answer \in [Conns -> Answers]
    /\ verified \in BOOLEAN
    /\ had \in BOOLEAN
    /\ mishap \in BOOLEAN

\* Who is where: an import is the only request that does not begin with a read
\* of the Keychain, and the only one that writes without one.
ThreadOK(c) ==
    /\ pc[c] = "idle" <=> req[c] = NoRequest
    /\ pc[c] = "idle" => task[c] = "none"
    /\ pc[c] \in {"prompt", "state"} => req[c].op = "import"
    /\ pc[c] = "read" => req[c].op # "import"
    /\ pc[c] \in {"store", "delete", "add"} => task[c] \in Tasks
    /\ task[c] # "none" => (task[c] = "import" <=> req[c].op = "import")

\* Whatever calls the key biometric, now in the index or later, does so after a
\* biometric item was written: an update to merge, or a look at the index taken
\* at the start of an import.
ClaimsOK(c) ==
    /\ update[c] # NoRecord /\ update[c].protection = "biometry" => verified
    /\ before[c] = "biometry" => verified

\* The inductive invariant.
IInv ==
    /\ TypeOK
    /\ \A c \in Conns : ThreadOK(c)
    /\ \A c \in Conns : ClaimsOK(c)
    /\ BiometryWasVerified
    /\ ItemComesBack

\* The initial state satisfies the inductive invariant.
LEMMA InitInv == Init => IInv
<1> SUFFICES ASSUME Init PROVE IInv
  OBVIOUS
<1>1. TypeOK
  BY CredentialAssumption DEF Init, TypeOK, Locations, Answers, Tasks, Software, Protections
<1>2. \A c \in Conns : ThreadOK(c) /\ ClaimsOK(c)
  BY DEF Init, ThreadOK, ClaimsOK
<1>3. BiometryWasVerified /\ ItemComesBack
  BY DEF Init, BiometryWasVerified, ItemComesBack
<1>4. QED
  BY <1>1, <1>2, <1>3 DEF IInv

USE CredentialAssumption

\* Where a caller of store_near_credential_keychain goes with its outcome.
LEMMA StoredGoes ==
    ASSUME NEW c \in Conns, NEW r, TypeOK, ThreadOK(c), task[c] \in Tasks, pc[c] # "idle",
           Stored(c, r)
    PROVE  /\ \/ UNCHANGED answer /\ \E l \in {"state", "save", "check", "store"} : 
                    Goto(c, l) /\ (l = "state" => task[c] = "import")
                               /\ (l = "store" => task[c] = "backfill" /\ req[c].op = "reprotect")
              \/ Answer(c, "credential") \/ Answer(c, "auth") \/ Answer(c, "protectionFailed")
<1>1. req[c] \in Request
  BY DEF TypeOK, ThreadOK
<1>2. req[c].op \in {"import", "reprotect", "get", "sign"}
  BY <1>1 DEF Request
<1>3. CASE task[c] = "import"
  <2>1. Goto(c, IF r = "skipped" THEN "state" ELSE "save") /\ UNCHANGED answer
    BY <1>3, Zenon DEF Stored
  <2>2. QED
    BY <2>1, <1>3
<1>4. CASE task[c] = "backfill"
  <2>1. req[c].op \in {"reprotect", "get", "sign"}
    BY <1>2, <1>4 DEF ThreadOK
  <2>2. CASE req[c].op = "reprotect"
    <3>1. Goto(c, "store") /\ UNCHANGED answer
      BY <1>4, <2>2, Zenon DEF Stored
    <3>2. QED
      BY <3>1, <1>4, <2>2
  <2>3. CASE req[c].op = "sign"
    <3>1. Goto(c, "check") /\ UNCHANGED answer
      BY <1>4, <2>3, Zenon DEF Stored
    <3>2. QED
      BY <3>1
  <2>4. CASE req[c].op = "get"
    BY <1>4, <2>4, Zenon DEF Stored
  <2>5. QED
    BY <2>1, <2>2, <2>3, <2>4
<1>5. CASE task[c] = "reprotect"
  <2>1. CASE r = "biometry"
    <3>1. Goto(c, "save") /\ UNCHANGED answer
      BY <1>5, <2>1, Zenon DEF Stored
    <3>2. QED
      BY <3>1
  <2>2. CASE r = "error"
    BY <1>5, <2>2, Zenon DEF Stored
  <2>3. CASE r \notin {"biometry", "error"}
    BY <1>5, <2>3, Zenon DEF Stored
  <2>4. QED
    BY <2>1, <2>2, <2>3
<1>6. QED
  BY <1>3, <1>4, <1>5 DEF Tasks

\* What the outcome changes of the thread, and that it touches no other thread.
\* The update names the protection that was reported, if it names any.
LEMMA StoredKeeps ==
    ASSUME NEW c \in Conns, NEW r, TypeOK, ThreadOK(c), task[c] \in Tasks, pc[c] # "idle",
           Stored(c, r), UNCHANGED req
    PROVE  /\ pc' \in [Conns -> Locations] /\ answer' \in [Conns -> Answers]
           /\ task' \in [Conns -> Tasks \cup {"none"}]
           /\ update' \in [Conns -> Record \cup {NoRecord}]
           /\ \A d \in Conns \ {c} :
                 pc'[d] = pc[d] /\ task'[d] = task[d] /\ update'[d] = update[d]
           /\ pc'[c] # "add"
           /\ ThreadOK(c)'
           /\ update'[c] # NoRecord => update'[c].protection = r
<1> USE DEF Locations, Answers, Goto, Answer
<1>1. /\ pc' \in [Conns -> Locations] /\ answer' \in [Conns -> Answers]
      /\ pc'[c] \in {"state", "save", "check", "store", "reply"}
      /\ pc'[c] = "state" => task[c] = "import"
      /\ pc'[c] = "store" => task[c] = "backfill" /\ req[c].op = "reprotect"
      /\ \A d \in Conns \ {c} : pc'[d] = pc[d]
  BY StoredGoes DEF TypeOK
<1>2. PICK t \in {"reprotect", "none"} :
         /\ task' = [task EXCEPT ![c] = t]
         /\ t = "reprotect" <=> task[c] = "backfill" /\ req[c].op = "reprotect"
  BY DEF Stored
<1>3. PICK u \in Record \cup {NoRecord} :
         /\ update' = [update EXCEPT ![c] = u]
         /\ u # NoRecord => u.protection = r
  <2>1. CASE task[c] # "backfill" /\ r \in Protections
    <3> DEFINE u == [inKeychain |-> TRUE, protection |-> r]
    <3>1. u \in Record /\ u.protection = r
      BY <2>1 DEF Record
    <3>2. update' = [update EXCEPT ![c] = u]
      BY <2>1, Zenon DEF Stored
    <3> HIDE DEF u
    <3>3. QED
      BY <3>1, <3>2
  <2>2. CASE ~(task[c] # "backfill" /\ r \in Protections)
    BY <2>2, Zenon DEF Stored
  <2>3. QED
    BY <2>1, <2>2
<1>4. ThreadOK(c)'
  BY <1>1, <1>2 DEF ThreadOK, TypeOK, Tasks
<1>5. QED
  BY <1>1, <1>2, <1>3, <1>4 DEF TypeOK, Tasks

\* Every step keeps the inductive invariant: one case per action, and one step
\* per part of the invariant.
LEMMA StepInv == IInv /\ [Next]_vars => IInv'
<1> SUFFICES ASSUME IInv, [Next]_vars PROVE IInv'
  OBVIOUS
<1> USE DEF IInv, TypeOK, Locations, Answers, Tasks, Record, Protections, Software, Request, Goto,
            Answer
<1>1. ASSUME NEW c \in Conns, Receive(c) PROVE IInv'
  <2>1. TypeOK'
    BY <1>1 DEF Receive, Indexed, ThreadOK
  <2>2. (\A d \in Conns : ThreadOK(d))'
    <3>1. PICK r \in Requests :
             /\ req' = [req EXCEPT ![c] = r]
             /\ pc' = [pc EXCEPT ![c] = IF r.op = "import" THEN "prompt" ELSE "read"]
      BY <1>1 DEF Receive
    <3>2. /\ r # NoRequest /\ task' = task /\ task[c] = "none" /\ \A d \in Conns : ThreadOK(d)
      BY <1>1 DEF Receive, ThreadOK
    <3>3. QED
      BY <3>1, <3>2 DEF ThreadOK
  <2>3. (\A d \in Conns : ClaimsOK(d))'
    BY <1>1 DEF Receive, Indexed, ThreadOK, ClaimsOK, BiometryWasVerified
  <2>4. BiometryWasVerified'
    BY <1>1 DEF Receive, Indexed, ThreadOK, ClaimsOK, BiometryWasVerified
  <2>5. ItemComesBack'
    BY <1>1 DEF Receive, Indexed, ThreadOK, ItemComesBack
  <2>6. QED
    BY <2>1, <2>2, <2>3, <2>4, <2>5
<1>2. ASSUME NEW c \in Conns, ImportPrompt(c) PROVE IInv'
  <2>1. TypeOK'
    <3> DEFINE u == [inKeychain |-> FALSE, protection |-> "null"]
    <3>1. u \in Record
      OBVIOUS
    <3>2. update' = update \/ update' = [update EXCEPT ![c] = u]
      BY <1>2, Zenon DEF ImportPrompt
    <3> HIDE DEF u, Record
    <3>3. /\ pc' \in [Conns -> Locations] /\ answer' \in [Conns -> Answers]
          /\ task' \in [Conns -> Tasks \cup {"none"}]
          /\ UNCHANGED <<sources, entitled, item, index, req, before, used, verified, had, mishap>>
      BY <1>2 DEF ImportPrompt
    <3>4. QED
      BY <3>1, <3>2, <3>3
  <2>2. (\A d \in Conns : ThreadOK(d))'
    BY <1>2 DEF ImportPrompt, ThreadOK
  <2>3. (\A d \in Conns : ClaimsOK(d))'
    BY <1>2 DEF ImportPrompt, ThreadOK, ClaimsOK, BiometryWasVerified
  <2>4. BiometryWasVerified'
    BY <1>2 DEF ImportPrompt, ThreadOK, ClaimsOK, BiometryWasVerified
  <2>5. ItemComesBack'
    BY <1>2 DEF ImportPrompt, ThreadOK, ItemComesBack
  <2>6. QED
    BY <2>1, <2>2, <2>3, <2>4, <2>5
<1>3. ASSUME NEW c \in Conns, ReadKeychain(c) PROVE IInv'
  <2>1. TypeOK'
    BY <1>3 DEF ReadKeychain, GetCredential, ThreadOK
  <2>2. (\A d \in Conns : ThreadOK(d))'
    BY <1>3 DEF ReadKeychain, GetCredential, ThreadOK
  <2>3. (\A d \in Conns : ClaimsOK(d))'
    BY <1>3 DEF ReadKeychain, GetCredential, ThreadOK, ClaimsOK, BiometryWasVerified
  <2>4. BiometryWasVerified'
    BY <1>3 DEF ReadKeychain, GetCredential, ThreadOK, ClaimsOK, BiometryWasVerified
  <2>5. ItemComesBack'
    BY <1>3 DEF ReadKeychain, GetCredential, ThreadOK, ItemComesBack
  <2>6. QED
    BY <2>1, <2>2, <2>3, <2>4, <2>5
<1>4. ASSUME NEW c \in Conns, ReadFails(c) PROVE IInv'
  <2>1. TypeOK'
    BY <1>4 DEF ReadFails, ThreadOK
  <2>2. (\A d \in Conns : ThreadOK(d))'
    BY <1>4 DEF ReadFails, ThreadOK
  <2>3. (\A d \in Conns : ClaimsOK(d))'
    BY <1>4 DEF ReadFails, ThreadOK, ClaimsOK, BiometryWasVerified
  <2>4. BiometryWasVerified'
    BY <1>4 DEF ReadFails, ThreadOK, ClaimsOK, BiometryWasVerified
  <2>5. ItemComesBack'
    BY <1>4 DEF ReadFails, ThreadOK, ItemComesBack
  <2>6. QED
    BY <2>1, <2>2, <2>3, <2>4, <2>5
<1>5. ASSUME NEW c \in Conns, StoreCheck(c) PROVE IInv'
  <2>0. task[c] \in Tasks /\ pc[c] # "idle"
    BY <1>5 DEF StoreCheck, ThreadOK
  <2>1. CASE Stored(c, "skipped")
    <3>1. /\ UNCHANGED <<sources, entitled, item, index, req, before, used, verified, had, mishap>>
          /\ pc[c] = "store"
      BY <1>5 DEF StoreCheck
    <3>2. /\ pc' \in [Conns -> Locations] /\ answer' \in [Conns -> Answers]
          /\ task' \in [Conns -> Tasks \cup {"none"}]
          /\ update' \in [Conns -> Record \cup {NoRecord}]
          /\ \A d \in Conns \ {c} :
                pc'[d] = pc[d] /\ task'[d] = task[d] /\ update'[d] = update[d]
          /\ pc'[c] # "add"
          /\ ThreadOK(c)'
          /\ update'[c] # NoRecord => update'[c].protection = "skipped"
      BY <2>0, <2>1, <3>1, StoredKeeps
    <3>3. TypeOK'
      BY <3>1, <3>2
    <3>4. (\A d \in Conns : ThreadOK(d))'
      BY <3>1, <3>2 DEF ThreadOK
    <3>5. (\A d \in Conns : ClaimsOK(d))'
      BY <3>1, <3>2 DEF ClaimsOK
    <3>6. (BiometryWasVerified /\ ItemComesBack)'
      BY <3>1, <3>2 DEF BiometryWasVerified, ItemComesBack
    <3>7. QED
      BY <3>3, <3>4, <3>5, <3>6
  <2>2. CASE Goto(c, "delete") /\ UNCHANGED <<task, update, answer>>
    BY <1>5, <2>0, <2>2 DEF StoreCheck, ThreadOK, ClaimsOK, BiometryWasVerified, ItemComesBack
  <2>3. QED
    BY <1>5, <2>1, <2>2 DEF StoreCheck
<1>6. ASSUME NEW c \in Conns, StoreDelete(c) PROVE IInv'
  <2>1. TypeOK'
    BY <1>6 DEF StoreDelete, ThreadOK
  <2>2. (\A d \in Conns : ThreadOK(d))'
    BY <1>6 DEF StoreDelete, ThreadOK
  <2>3. (\A d \in Conns : ClaimsOK(d))'
    BY <1>6 DEF StoreDelete, ThreadOK, ClaimsOK, BiometryWasVerified
  <2>4. BiometryWasVerified'
    BY <1>6 DEF StoreDelete, ThreadOK, ClaimsOK, BiometryWasVerified
  <2>5. ItemComesBack'
    BY <1>6 DEF StoreDelete, ThreadOK, ItemComesBack
  <2>6. QED
    BY <2>1, <2>2, <2>3, <2>4, <2>5
<1>7. ASSUME NEW c \in Conns, StoreAdd(c) PROVE IInv'
  <2> PICK r \in Protections :
        /\ Stored(c, r)
        /\ r = "biometry" => verified'
        /\ verified => verified'
        /\ verified' \in BOOLEAN
        /\ item' \in Protections
    BY <1>7 DEF StoreAdd, Wanted
  <2>1. /\ task[c] \in Tasks /\ pc[c] # "idle" /\ had'
        /\ UNCHANGED <<sources, entitled, index, req, before, used, mishap>>
    BY <1>7 DEF StoreAdd, ThreadOK
  <2>2. TypeOK' /\ BiometryWasVerified' /\ ItemComesBack'
    BY <1>7, <2>1, StoredKeeps DEF StoreAdd, BiometryWasVerified, ItemComesBack
  <2>3. (\A d \in Conns : ThreadOK(d))'
    BY <2>1, StoredKeeps DEF ThreadOK
  <2>4. (\A d \in Conns : ClaimsOK(d))'
    BY <2>1, StoredKeeps DEF ClaimsOK
  <2>5. QED
    BY <2>2, <2>3, <2>4
<1>8. ASSUME NEW c \in Conns, StoreAddFails(c) PROVE IInv'
  <2>1. /\ Stored(c, "error") /\ pc[c] = "add" /\ task[c] \in Tasks
        /\ mishap' = (mishap \/ item = "none")
        /\ UNCHANGED <<sources, entitled, item, index, req, before, used, verified, had>>
    BY <1>8 DEF StoreAddFails, ThreadOK
  <2>2. TypeOK' /\ BiometryWasVerified' /\ ItemComesBack'
    BY <2>1, StoredKeeps DEF BiometryWasVerified, ItemComesBack
  <2>3. (\A d \in Conns : ThreadOK(d))'
    BY <2>1, StoredKeeps DEF ThreadOK
  <2>4. (\A d \in Conns : ClaimsOK(d))'
    BY <2>1, StoredKeeps DEF ClaimsOK
  <2>5. QED
    BY <2>2, <2>3, <2>4
<1>9. ASSUME NEW c \in Conns, ImportState(c) PROVE IInv'
  <2>1. TypeOK'
    BY <1>9 DEF ImportState, ThreadOK
  <2>2. (\A d \in Conns : ThreadOK(d))'
    BY <1>9 DEF ImportState, ThreadOK
  <2>3. (\A d \in Conns : ClaimsOK(d))'
    BY <1>9 DEF ImportState, ThreadOK, ClaimsOK, BiometryWasVerified
  <2>4. BiometryWasVerified'
    BY <1>9 DEF ImportState, ThreadOK, ClaimsOK, BiometryWasVerified
  <2>5. ItemComesBack'
    BY <1>9 DEF ImportState, ThreadOK, ItemComesBack
  <2>6. QED
    BY <2>1, <2>2, <2>3, <2>4, <2>5
<1>10. ASSUME NEW c \in Conns, Save(c) PROVE IInv'
  <2>1. TypeOK'
    BY <1>10 DEF Save, Merged, ThreadOK
  <2>2. (\A d \in Conns : ThreadOK(d))'
    BY <1>10 DEF Save, Merged, ThreadOK
  <2>3. (\A d \in Conns : ClaimsOK(d))'
    BY <1>10 DEF Save, Merged, ThreadOK, ClaimsOK, BiometryWasVerified
  <2>4. BiometryWasVerified'
    BY <1>10 DEF Save, Merged, ThreadOK, ClaimsOK, BiometryWasVerified
  <2>5. ItemComesBack'
    BY <1>10 DEF Save, Merged, ThreadOK, ItemComesBack
  <2>6. QED
    BY <2>1, <2>2, <2>3, <2>4, <2>5
<1>11. ASSUME NEW c \in Conns, CheckProtection(c) PROVE IInv'
  <2>1. TypeOK'
    BY <1>11 DEF CheckProtection, ThreadOK
  <2>2. (\A d \in Conns : ThreadOK(d))'
    BY <1>11 DEF CheckProtection, ThreadOK
  <2>3. (\A d \in Conns : ClaimsOK(d))'
    BY <1>11 DEF CheckProtection, ThreadOK, ClaimsOK, BiometryWasVerified
  <2>4. BiometryWasVerified'
    BY <1>11 DEF CheckProtection, ThreadOK, ClaimsOK, BiometryWasVerified
  <2>5. ItemComesBack'
    BY <1>11 DEF CheckProtection, ThreadOK, ItemComesBack
  <2>6. QED
    BY <2>1, <2>2, <2>3, <2>4, <2>5
<1>12. ASSUME NEW c \in Conns, Sign(c) PROVE IInv'
  <2>1. TypeOK'
    BY <1>12 DEF Sign, ThreadOK
  <2>2. (\A d \in Conns : ThreadOK(d))'
    BY <1>12 DEF Sign, ThreadOK
  <2>3. (\A d \in Conns : ClaimsOK(d))'
    BY <1>12 DEF Sign, ThreadOK, ClaimsOK, BiometryWasVerified
  <2>4. BiometryWasVerified'
    BY <1>12 DEF Sign, ThreadOK, ClaimsOK, BiometryWasVerified
  <2>5. ItemComesBack'
    BY <1>12 DEF Sign, ThreadOK, ItemComesBack
  <2>6. QED
    BY <2>1, <2>2, <2>3, <2>4, <2>5
<1>13. ASSUME NEW c \in Conns, Reply(c) PROVE IInv'
  <2>1. TypeOK'
    BY <1>13 DEF Reply, Cleared, ThreadOK
  <2>2. (\A d \in Conns : ThreadOK(d))'
    BY <1>13 DEF Reply, Cleared, ThreadOK
  <2>3. (\A d \in Conns : ClaimsOK(d))'
    BY <1>13 DEF Reply, Cleared, ThreadOK, ClaimsOK, BiometryWasVerified
  <2>4. BiometryWasVerified'
    BY <1>13 DEF Reply, Cleared, ThreadOK, ClaimsOK, BiometryWasVerified
  <2>5. ItemComesBack'
    BY <1>13 DEF Reply, Cleared, ThreadOK, ItemComesBack
  <2>6. QED
    BY <2>1, <2>2, <2>3, <2>4, <2>5
<1>14. CASE Restart
  <2>1. TypeOK'
    BY <1>14 DEF Restart, ThreadOK
  <2>2. (\A d \in Conns : ThreadOK(d))'
    BY <1>14 DEF Restart, ThreadOK
  <2>3. (\A d \in Conns : ClaimsOK(d))'
    BY <1>14 DEF Restart, ThreadOK, ClaimsOK, BiometryWasVerified
  <2>4. BiometryWasVerified'
    BY <1>14 DEF Restart, ThreadOK, ClaimsOK, BiometryWasVerified
  <2>5. ItemComesBack'
    BY <1>14 DEF Restart, ThreadOK, ItemComesBack
  <2>6. QED
    BY <2>1, <2>2, <2>3, <2>4, <2>5
<1>15. CASE UNCHANGED vars
  BY <1>15 DEF vars, BiometryWasVerified, ClaimsOK, ItemComesBack, ThreadOK
<1>16. QED
  BY <1>1, <1>2, <1>3, <1>4, <1>5, <1>6, <1>7, <1>8, <1>9, <1>10, <1>11, <1>12, <1>13, <1>14,
     <1>15 DEF Next

\* The inductive invariant holds in every reachable state.
THEOREM InvariantHolds == Spec => []IInv
BY InitInv, StepInv, PTL DEF Spec

\* The variables keep their types.
THEOREM TypeCorrect == Spec => []TypeOK
BY InvariantHolds, PTL DEF IInv

\* The index never calls a key biometric for which no biometric item was written.
THEOREM BiometryIsVerified == Spec => []BiometryWasVerified
BY InvariantHolds, PTL DEF IInv

\* Once nobody is between the delete and the add, the item is there again,
\* unless the Keychain refused the add or the daemon was killed.
THEOREM ItemIsBack == Spec => []ItemComesBack
BY InvariantHolds, PTL DEF IInv
-----------------------------------------------------------------------------
(* The FastNEAR token *)

TokenLocations == {"idle", "session", "keychain", "file", "write", "reply"}
TokenAnswers   == {"none", "stored", "cleared", "persistError"} \cup Tokens \cup {NoToken, Mixed}

TokenTypeOK ==
    /\ backend \in {"file", "keychain", "auto"}
    /\ session \in Tokens \cup {NoToken}
    /\ keychain \in Tokens \cup {NoToken}
    /\ file \in Tokens \cup {NoFile, Empty, Mixed}
    /\ pc \in [Conns -> TokenLocations]
    /\ req \in [Conns -> TokenRequest \cup {NoRequest}]
    /\ fd \in [Conns -> {"none", "linked", "gone"}]
    /\ answer \in [Conns -> TokenAnswers]
    /\ disturbed \in [Conns -> BOOLEAN]

\* A thread has a request until it has answered and an answer only then; it
\* goes to the store its backend has, and writes only for a set.
TokenThreadOK(c) ==
    /\ pc[c] = "idle" <=> req[c] = NoRequest
    /\ pc[c] # "reply" => answer[c] = "none"
    /\ pc[c] = "keychain" => backend # "file"
    /\ pc[c] \in {"file", "write"} => backend # "keychain"
    /\ pc[c] = "write" => req[c].op = "set" /\ fd[c] # "none"
    /\ fd[c] # "none" => pc[c] = "write"

\* Two mutations that run at the same time both know of it.
Exclusive ==
    \A c, d \in Conns : c # d /\ Mutating(c) /\ Mutating(d) => disturbed[c]

\* An undisturbed mutation finds what it did to the session and to the file:
\* nobody emptied, filled or unlinked them in between.
Undisturbed(c) ==
    ~disturbed[c] =>
        /\ pc[c] = "write" => fd[c] = "linked" /\ file = Empty
        /\ pc[c] \in {"keychain", "file"} /\ req[c].op = "clear" => session = NoToken

\* The inductive invariant.
TokenInv ==
    /\ TokenTypeOK
    /\ \A c \in Conns : TokenThreadOK(c)
    /\ Exclusive
    /\ \A c \in Conns : Undisturbed(c)

\* The initial state satisfies the inductive invariant.
LEMMA TokenInitInv == TokenInit => TokenInv
BY TokenAssumption
   DEF TokenInit, TokenInv, TokenTypeOK, TokenLocations, TokenAnswers, TokenThreadOK, Exclusive,
       Mutating, Undisturbed

USE TokenAssumption

\* Every step keeps the inductive invariant: one case per action, and one step
\* per part of the invariant.
LEMMA TokenStepInv == TokenInv /\ [TokenNext]_tokenVars => TokenInv'
<1> SUFFICES ASSUME TokenInv, [TokenNext]_tokenVars PROVE TokenInv'
  OBVIOUS
<1> USE DEF TokenInv, TokenTypeOK, TokenLocations, TokenAnswers, TokenRequest, Goto, Answer,
            FirstStore, Mutating
<1>1. ASSUME NEW c \in Conns, TokenReceive(c) PROVE TokenInv'
  <2>1. TokenTypeOK'
    <3>1. disturbed' \in [Conns -> BOOLEAN]
      <4>1. PICK r \in TokenRequest :
              disturbed' = [d \in Conns |->
                  IF d = c THEN \E e \in Conns \ {c} : Mutating(e)
                  ELSE disturbed[d] \/ (Mutating(d) /\ r.op # "resolve")]
        BY <1>1, Zenon DEF TokenReceive
      <4> DEFINE F(d) == IF d = c THEN \E e \in Conns \ {c} : Mutating(e)
                         ELSE disturbed[d] \/ (Mutating(d) /\ r.op # "resolve")
      <4>2. \A d : F(d) \in BOOLEAN
        OBVIOUS
      <4> HIDE DEF F
      <4>3. disturbed' = [d \in Conns |-> F(d)]
        BY <4>1 DEF F
      <4>4. QED
        BY <4>2, <4>3
    <3>2. PICK r \in TokenRequest : req' = [req EXCEPT ![c] = r]
      BY <1>1, Zenon DEF TokenReceive
    <3>3. pc' = [pc EXCEPT ![c] = "session"]
      BY <1>1, Zenon DEF TokenReceive
    <3>4. UNCHANGED <<backend, session, keychain, file, fd, answer>>
      BY <1>1, Zenon DEF TokenReceive
    <3>5. QED
      BY <3>1, <3>2, <3>3, <3>4
  <2>2. (\A d \in Conns : TokenThreadOK(d))'
    BY <1>1 DEF TokenReceive, TokenThreadOK
  <2>3. Exclusive'
    <3>1. PICK r \in TokenRequest :
             /\ req' = [req EXCEPT ![c] = r]
             /\ disturbed' = [d \in Conns |->
                   IF d = c THEN \E e \in Conns \ {c} : Mutating(e)
                   ELSE disturbed[d] \/ (Mutating(d) /\ r.op # "resolve")]
      BY <1>1, Zenon DEF TokenReceive
    <3>2. \A d \in Conns \ {c} : Mutating(d)' <=> Mutating(d)
      BY <1>1, <3>1 DEF TokenReceive
    <3>3. Mutating(c)' => r.op # "resolve"
      BY <3>1
    <3>4. ASSUME NEW d \in Conns, NEW e \in Conns, d # e, Mutating(d)', Mutating(e)'
          PROVE  disturbed'[d]
      <4>1. CASE d = c
        BY <3>1, <3>2, <3>4, <4>1, Zenon
      <4>2. CASE d # c /\ e = c
        BY <3>1, <3>2, <3>3, <3>4, <4>2, Zenon
      <4>3. CASE d # c /\ e # c
        BY <3>1, <3>2, <3>4, <4>3, Zenon DEF Exclusive
      <4>4. QED
        BY <3>4, <4>1, <4>2, <4>3
    <3>5. QED
      BY <3>4 DEF Exclusive
  <2>4. (\A d \in Conns : Undisturbed(d))'
    BY <1>1 DEF TokenReceive, TokenThreadOK, Exclusive, Undisturbed
  <2>5. QED
    BY <2>1, <2>2, <2>3, <2>4
<1>2. ASSUME NEW c \in Conns, SetSession(c) PROVE TokenInv'
  <2>1. TokenTypeOK'
    BY <1>2 DEF SetSession, TokenThreadOK
  <2>2. (\A d \in Conns : TokenThreadOK(d))'
    BY <1>2 DEF SetSession, TokenThreadOK
  <2>3. Exclusive'
    BY <1>2 DEF SetSession, TokenThreadOK, Exclusive
  <2>4. (\A d \in Conns : Undisturbed(d))'
    BY <1>2 DEF SetSession, TokenThreadOK, Exclusive, Undisturbed
  <2>5. QED
    BY <2>1, <2>2, <2>3, <2>4
<1>3. ASSUME NEW c \in Conns, SetKeychain(c) PROVE TokenInv'
  <2>1. TokenTypeOK'
    BY <1>3 DEF SetKeychain, TokenThreadOK
  <2>2. (\A d \in Conns : TokenThreadOK(d))'
    BY <1>3 DEF SetKeychain, TokenThreadOK
  <2>3. Exclusive'
    BY <1>3 DEF SetKeychain, TokenThreadOK, Exclusive
  <2>4. (\A d \in Conns : Undisturbed(d))'
    BY <1>3 DEF SetKeychain, TokenThreadOK, Exclusive, Undisturbed
  <2>5. QED
    BY <2>1, <2>2, <2>3, <2>4
<1>4. ASSUME NEW c \in Conns, OpenFile(c) PROVE TokenInv'
  <2>1. TokenTypeOK'
    BY <1>4 DEF OpenFile, TokenThreadOK
  <2>2. (\A d \in Conns : TokenThreadOK(d))'
    BY <1>4 DEF OpenFile, TokenThreadOK
  <2>3. Exclusive'
    BY <1>4 DEF OpenFile, TokenThreadOK, Exclusive
  <2>4. (\A d \in Conns : Undisturbed(d))'
    BY <1>4 DEF OpenFile, TokenThreadOK, Exclusive, Undisturbed
  <2>5. QED
    BY <2>1, <2>2, <2>3, <2>4
<1>5. ASSUME NEW c \in Conns, WriteFile(c) PROVE TokenInv'
  <2>1. TokenTypeOK'
    BY <1>5 DEF WriteFile, TokenThreadOK
  <2>2. (\A d \in Conns : TokenThreadOK(d))'
    BY <1>5 DEF WriteFile, TokenThreadOK
  <2>3. Exclusive'
    BY <1>5 DEF WriteFile, TokenThreadOK, Exclusive
  <2>4. (\A d \in Conns : Undisturbed(d))'
    BY <1>5 DEF WriteFile, TokenThreadOK, Exclusive, Undisturbed
  <2>5. QED
    BY <2>1, <2>2, <2>3, <2>4
<1>6. ASSUME NEW c \in Conns, ClearSession(c) PROVE TokenInv'
  <2>1. TokenTypeOK'
    BY <1>6 DEF ClearSession, TokenThreadOK
  <2>2. (\A d \in Conns : TokenThreadOK(d))'
    BY <1>6 DEF ClearSession, TokenThreadOK
  <2>3. Exclusive'
    BY <1>6 DEF ClearSession, TokenThreadOK, Exclusive
  <2>4. (\A d \in Conns : Undisturbed(d))'
    BY <1>6 DEF ClearSession, TokenThreadOK, Exclusive, Undisturbed
  <2>5. QED
    BY <2>1, <2>2, <2>3, <2>4
<1>7. ASSUME NEW c \in Conns, ClearKeychain(c) PROVE TokenInv'
  <2>1. TokenTypeOK'
    BY <1>7 DEF ClearKeychain, TokenThreadOK
  <2>2. (\A d \in Conns : TokenThreadOK(d))'
    BY <1>7 DEF ClearKeychain, TokenThreadOK
  <2>3. Exclusive'
    BY <1>7 DEF ClearKeychain, TokenThreadOK, Exclusive
  <2>4. (\A d \in Conns : Undisturbed(d))'
    BY <1>7 DEF ClearKeychain, TokenThreadOK, Exclusive, Undisturbed
  <2>5. QED
    BY <2>1, <2>2, <2>3, <2>4
<1>8. ASSUME NEW c \in Conns, ClearFile(c) PROVE TokenInv'
  <2>1. TokenTypeOK'
    BY <1>8 DEF ClearFile, TokenThreadOK
  <2>2. (\A d \in Conns : TokenThreadOK(d))'
    BY <1>8 DEF ClearFile, TokenThreadOK
  <2>3. Exclusive'
    BY <1>8 DEF ClearFile, TokenThreadOK, Exclusive
  <2>4. (\A d \in Conns : Undisturbed(d))'
    BY <1>8 DEF ClearFile, TokenThreadOK, Exclusive, Undisturbed
  <2>5. QED
    BY <2>1, <2>2, <2>3, <2>4
<1>9. ASSUME NEW c \in Conns, ResolveSession(c) PROVE TokenInv'
  <2>1. TokenTypeOK'
    BY <1>9 DEF ResolveSession, TokenThreadOK
  <2>2. (\A d \in Conns : TokenThreadOK(d))'
    BY <1>9 DEF ResolveSession, TokenThreadOK
  <2>3. Exclusive'
    BY <1>9 DEF ResolveSession, TokenThreadOK, Exclusive
  <2>4. (\A d \in Conns : Undisturbed(d))'
    BY <1>9 DEF ResolveSession, TokenThreadOK, Exclusive, Undisturbed
  <2>5. QED
    BY <2>1, <2>2, <2>3, <2>4
<1>10. ASSUME NEW c \in Conns, ResolveKeychain(c) PROVE TokenInv'
  <2>1. TokenTypeOK'
    BY <1>10 DEF ResolveKeychain, TokenThreadOK
  <2>2. (\A d \in Conns : TokenThreadOK(d))'
    BY <1>10 DEF ResolveKeychain, TokenThreadOK
  <2>3. Exclusive'
    BY <1>10 DEF ResolveKeychain, TokenThreadOK, Exclusive
  <2>4. (\A d \in Conns : Undisturbed(d))'
    BY <1>10 DEF ResolveKeychain, TokenThreadOK, Exclusive, Undisturbed
  <2>5. QED
    BY <2>1, <2>2, <2>3, <2>4
<1>11. ASSUME NEW c \in Conns, ResolveFile(c) PROVE TokenInv'
  <2>1. TokenTypeOK'
    BY <1>11 DEF ResolveFile, Readable, TokenThreadOK
  <2>2. (\A d \in Conns : TokenThreadOK(d))'
    BY <1>11 DEF ResolveFile, Readable, TokenThreadOK
  <2>3. Exclusive'
    BY <1>11 DEF ResolveFile, Readable, TokenThreadOK, Exclusive
  <2>4. (\A d \in Conns : Undisturbed(d))'
    BY <1>11 DEF ResolveFile, Readable, TokenThreadOK, Exclusive, Undisturbed
  <2>5. QED
    BY <2>1, <2>2, <2>3, <2>4
<1>12. ASSUME NEW c \in Conns, TokenReply(c) PROVE TokenInv'
  <2>1. TokenTypeOK'
    BY <1>12 DEF TokenReply, TokenThreadOK
  <2>2. (\A d \in Conns : TokenThreadOK(d))'
    BY <1>12 DEF TokenReply, TokenThreadOK
  <2>3. Exclusive'
    BY <1>12 DEF TokenReply, TokenThreadOK, Exclusive
  <2>4. (\A d \in Conns : Undisturbed(d))'
    BY <1>12 DEF TokenReply, TokenThreadOK, Exclusive, Undisturbed
  <2>5. QED
    BY <2>1, <2>2, <2>3, <2>4
<1>13. CASE TokenRestart
  <2>1. TokenTypeOK'
    BY <1>13 DEF TokenRestart, TokenThreadOK
  <2>2. (\A d \in Conns : TokenThreadOK(d))'
    BY <1>13 DEF TokenRestart, TokenThreadOK
  <2>3. Exclusive'
    BY <1>13 DEF TokenRestart, TokenThreadOK, Exclusive
  <2>4. (\A d \in Conns : Undisturbed(d))'
    BY <1>13 DEF TokenRestart, TokenThreadOK, Exclusive, Undisturbed
  <2>5. QED
    BY <2>1, <2>2, <2>3, <2>4
<1>14. CASE UNCHANGED tokenVars
  BY <1>14 DEF tokenVars, Exclusive, TokenThreadOK, Undisturbed
<1>15. QED
  BY <1>1, <1>2, <1>3, <1>4, <1>5, <1>6, <1>7, <1>8, <1>9, <1>10, <1>11, <1>12, <1>13,
     <1>14 DEF TokenNext

\* The inductive invariant holds in every reachable state.
THEOREM TokenInvariantHolds == TokenSpec => []TokenInv
BY TokenInitInv, TokenStepInv, PTL DEF TokenSpec

\* The variables keep their types.
THEOREM TokenTypeCorrect == TokenSpec => []TokenTypeOK
BY TokenInvariantHolds, PTL DEF TokenInv
-----------------------------------------------------------------------------
\* An answer "stored" to a persisted set comes from the Keychain or from the
\* write of the token file; an answer "cleared" from the Keychain, but under
\* "file" from the unlink.
LEMMA WhoAnswers ==
    ASSUME TokenInv, TokenNext, NEW c \in Conns
    PROVE  /\ Alone(c, "stored") /\ req[c].persist => SetKeychain(c) \/ WriteFile(c)
           /\ Alone(c, "cleared") => ClearKeychain(c) \/ ClearFile(c)
           /\ Alone(c, "cleared") /\ backend = "file" => ClearFile(c)
<1> USE DEF TokenInv, TokenTypeOK, TokenThreadOK, TokenAnswers, Answer, Goto, Alone, TokenRequest
<1>1. ASSUME NEW d \in Conns, d # c,
             \/ TokenReceive(d) \/ SetSession(d) \/ SetKeychain(d) \/ OpenFile(d) \/ WriteFile(d)
             \/ ClearSession(d) \/ ClearKeychain(d) \/ ClearFile(d)
             \/ ResolveSession(d) \/ ResolveKeychain(d) \/ ResolveFile(d) \/ TokenReply(d)
      PROVE  answer'[c] = answer[c]
  <2>1. \/ answer' = answer
        \/ \E a : answer' = [answer EXCEPT ![d] = a]
    BY <1>1 DEF TokenReceive, SetSession, SetKeychain, OpenFile, WriteFile, ClearSession,
                ClearKeychain,
                ClearFile, ResolveSession, ResolveKeychain, ResolveFile, TokenReply
  <2>2. QED
    BY <1>1, <2>1
<1>2. CASE TokenReceive(c) \/ TokenReply(c) \/ TokenRestart
  <2>1. answer'[c] \in {answer[c], "none"}
    BY <1>2 DEF TokenReceive, TokenReply, TokenRestart
  <2>2. QED
    BY <2>1
<1>3. CASE SetSession(c) \/ OpenFile(c) \/ ClearSession(c) \/ ClearKeychain(c)
  BY <1>3 DEF SetSession, OpenFile, ClearSession, ClearKeychain
<1>4. CASE ResolveSession(c) \/ ResolveKeychain(c) \/ ResolveFile(c)
  <2>1. answer'[c] \in Tokens \cup {NoToken, Mixed, "none"}
    BY <1>4 DEF ResolveSession, ResolveKeychain, ResolveFile, Readable
  <2>2. QED
    BY <2>1
<1>5. CASE SetKeychain(c) \/ WriteFile(c)
  BY <1>5 DEF SetKeychain, WriteFile
<1>6. CASE ClearFile(c)
  BY <1>6 DEF ClearFile
<1>7. QED
  BY <1>1, <1>2, <1>3, <1>4, <1>5, <1>6 DEF TokenNext

\* A token answered "stored", with no other mutation beside it, is the one a
\* restarted daemon finds; under "auto" it is so unless the Keychain refused it
\* while holding another, and then it is in the file.
THEOREM StoredPersists == TokenSpec => StoredIsPersisted
<1>1. ASSUME TokenInv, TokenNext, NEW c \in Conns, Alone(c, "stored"), req[c].persist
      PROVE  Persisted' = req[c].token \/ Shadowed(req[c].token)
  <2> USE DEF TokenInv, TokenTypeOK, Alone, Answer
  <2>1. CASE SetKeychain(c)
    <3>1. backend # "file" /\ keychain' = req[c].token /\ backend' = backend
      BY <1>1, <2>1 DEF SetKeychain, TokenThreadOK
    <3>2. req[c].token # NoToken
      BY <1>1, <2>1 DEF SetKeychain, TokenThreadOK, TokenRequest
    <3>3. backend = "keychain" => Persisted' = req[c].token
      BY <3>1, Zenon DEF Persisted
    <3>4. backend = "auto" => Persisted' = req[c].token
      BY <3>1, <3>2, Zenon DEF Persisted
    <3>5. QED
      BY <1>1, <3>1, <3>3, <3>4
  <2>2. CASE WriteFile(c)
    <3>1. backend # "keychain" /\ file' = req[c].token /\ UNCHANGED <<backend, keychain>>
      BY <1>1, <2>2 DEF WriteFile, TokenThreadOK, Undisturbed
    <3>2. req[c].token \in Tokens
      BY <1>1, <2>2 DEF WriteFile, TokenThreadOK, TokenRequest
    <3>3. Readable' = req[c].token
      BY <3>1, <3>2 DEF Readable
    <3>4. backend = "file" => Persisted' = req[c].token
      BY <3>1, <3>3, Zenon DEF Persisted
    <3>5. backend = "auto" /\ keychain = NoToken => Persisted' = req[c].token
      BY <3>1, <3>3, Zenon DEF Persisted
    <3>6. backend = "auto" /\ keychain # NoToken => Shadowed(req[c].token)
      BY <3>1 DEF Shadowed
    <3>7. QED
      BY <1>1, <3>1, <3>4, <3>5, <3>6
  <2>3. QED
    BY <1>1, <2>1, <2>2, WhoAnswers
<1>2. TokenInv /\ [TokenNext]_tokenVars =>
         [\A c \in Conns : Alone(c, "stored") /\ req[c].persist =>
            Persisted' = req[c].token \/ Shadowed(req[c].token)]_tokenVars
  BY <1>1
<1>3. QED
  BY <1>2, TokenInvariantHolds, PTL DEF TokenSpec, StoredIsPersisted

\* After "cleared", with no other mutation beside it, the session holds no
\* token, and under "file" neither does the file.
THEOREM ClearedGoes == TokenSpec => ClearedIsGone
<1>1. ASSUME TokenInv, TokenNext, NEW c \in Conns, Alone(c, "cleared")
      PROVE  session' = NoToken /\ (backend = "file" => Persisted' = NoToken)
  <2> USE DEF TokenInv, TokenTypeOK, Undisturbed, Alone, Answer
  <2>1. CASE ClearKeychain(c)
    <3>1. session' = NoToken
      BY <1>1, <2>1 DEF ClearKeychain
    <3>2. backend # "file"
      BY <1>1, <2>1 DEF ClearKeychain, TokenThreadOK
    <3>3. QED
      BY <3>1, <3>2
  <2>2. CASE ClearFile(c)
    <3>1. session' = NoToken /\ file' = NoFile /\ backend' = backend
      BY <1>1, <2>2 DEF ClearFile
    <3>2. QED
      BY <3>1 DEF Persisted, Readable
  <2>3. QED
    BY <1>1, <2>1, <2>2, WhoAnswers
<1>2. TokenInv /\ [TokenNext]_tokenVars =>
         [\A c \in Conns : Alone(c, "cleared") =>
            session' = NoToken /\ (backend = "file" => Persisted' = NoToken)]_tokenVars
  BY <1>1
<1>3. QED
  BY <1>2, TokenInvariantHolds, PTL DEF TokenSpec, ClearedIsGone
=============================================================================
