-------------------------- MODULE IntentLifecycle --------------------------
(***************************************************************************)
(* What nearxd promises about sign intents, with nothing said of threads,  *)
(* mutexes, prompts or restarts.  An intent is created pending, may be     *)
(* approved while it is fresh, and its payload is released at most once,   *)
(* only after an approval and only while it is fresh.  At any time an      *)
(* intent that was not released may be dropped, and nothing brings it back.*)
(* Module SignIntents is shown to implement this specification.            *)
(***************************************************************************)
EXTENDS Naturals

CONSTANT Ids          \* intent identifiers (random_urlsafe(16): never reused)

VARIABLES
    now,              \* the wall clock
    phase,            \* phase[i]: "unborn", "pending", "approved", "released" or "dropped"
    deadline          \* deadline[i]: expires_at_ms of intent i, 0 before it exists

vars == <<now, phase, deadline>>

Init ==
    /\ now = 0
    /\ phase = [i \in Ids |-> "unborn"]
    /\ deadline = [i \in Ids |-> 0]

Fresh(i) == now < deadline[i]

Create(i) ==
    /\ phase[i] = "unborn"
    /\ phase' = [phase EXCEPT ![i] = "pending"]
    /\ deadline' \in [Ids -> Nat]
    /\ \A j \in Ids \ {i} : deadline'[j] = deadline[j]
    /\ UNCHANGED now

\* The prompt takes time: an approval may be recorded after the deadline, and
\* is then worth nothing, because Release asks for a fresh intent.
Approve(i) ==
    /\ phase[i] \in {"pending", "approved"}
    /\ phase' = [phase EXCEPT ![i] = "approved"]
    /\ UNCHANGED <<now, deadline>>

Release(i) ==
    /\ phase[i] = "approved"
    /\ Fresh(i)
    /\ phase' = [phase EXCEPT ![i] = "released"]
    /\ UNCHANGED <<now, deadline>>

\* Expiry, a consume that is refused, or a restart of the daemon.
Drop(S) ==
    /\ \A i \in S : phase[i] \in {"pending", "approved"}
    /\ phase' = [i \in Ids |-> IF i \in S THEN "dropped" ELSE phase[i]]
    /\ UNCHANGED <<now, deadline>>

Advance ==
    /\ now' \in Nat
    /\ now' > now
    /\ UNCHANGED <<phase, deadline>>

Next ==
    \/ \E i \in Ids : Create(i) \/ Approve(i) \/ Release(i)
    \/ \E S \in SUBSET Ids : Drop(S)
    \/ Advance

Spec == Init /\ [][Next]_vars
=============================================================================
