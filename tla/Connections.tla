----------------------------- MODULE Connections -----------------------------
(***************************************************************************)
(* The threads of nearxd, one per client connection (serve_connection in   *)
(* src/bin/nearxd/socket.rs): where each is in its handler, the request it *)
(* has read and what it is about to answer.  KeychainCredentials and       *)
(* TokenStore are each about the requests of one kind.                     *)
(***************************************************************************)
CONSTANTS
    Conns,      \* client connections, each served by its own thread
    NoRequest

VARIABLES
    pc,         \* pc[c]: where it is in its handler; "idle" and "reply" around it
    req,        \* req[c]: the request it has read
    answer      \* answer[c]: the outcome, or the token that was resolved

Goto(c, l) == pc' = [pc EXCEPT ![c] = l]

Answer(c, a) ==
    /\ Goto(c, "reply")
    /\ answer' = [answer EXCEPT ![c] = a]
=============================================================================
