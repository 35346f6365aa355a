--------------------------- MODULE AtomicSettings ---------------------------
(***************************************************************************)
(* What nearxd's settings promise their clients, with no files and no      *)
(* locks: every request takes effect at one instant, on the document as it *)
(* is at that instant, if and only if its answer says "saved".             *)
(***************************************************************************)
EXTENDS SettingsDocument

CONSTANTS Conns, NoDoc, NoRequest

VARIABLES
    doc,      \* the stored document, NoDoc before the first save
    asked,    \* asked[c]: the request of connection c, or NoRequest
    outcome,  \* outcome[c]: "none", "saved" or "failed"
    year      \* the calendar

vars == <<doc, asked, outcome, year>>

Init ==
    /\ doc = NoDoc
    /\ asked = [c \in Conns |-> NoRequest]
    /\ outcome = [c \in Conns |-> "none"]
    /\ year = 1

Ask(c) ==
    /\ asked[c] = NoRequest
    /\ \E o \in Requests : asked' = [asked EXCEPT ![c] = o]
    /\ UNCHANGED <<doc, outcome, year>>

\* The handler looked at the clock at some moment up to now.
Save(c) ==
    /\ asked[c] # NoRequest /\ outcome[c] = "none"
    /\ \E y \in 1..year : doc' = Apply(asked[c], doc, y)
    /\ outcome' = [outcome EXCEPT ![c] = "saved"]
    /\ UNCHANGED <<asked, year>>

Fail(c) ==
    /\ asked[c] # NoRequest /\ outcome[c] = "none"
    /\ outcome' = [outcome EXCEPT ![c] = "failed"]
    /\ UNCHANGED <<doc, asked, year>>

Reply(c) ==
    /\ outcome[c] # "none"
    /\ asked' = [asked EXCEPT ![c] = NoRequest]
    /\ outcome' = [outcome EXCEPT ![c] = "none"]
    /\ UNCHANGED <<doc, year>>

\* The daemon restarts: requests are forgotten, the document is not.
Restart ==
    /\ asked' = [c \in Conns |-> NoRequest]
    /\ outcome' = [c \in Conns |-> "none"]
    /\ UNCHANGED <<doc, year>>

NewYear ==
    /\ year' = year + 1
    /\ UNCHANGED <<doc, asked, outcome>>

Next ==
    \/ \E c \in Conns : Ask(c) \/ Save(c) \/ Fail(c) \/ Reply(c)
    \/ Restart
    \/ NewYear

Spec == Init /\ [][Next]_vars
=============================================================================
