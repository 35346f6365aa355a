------------------------------- MODULE Ledger -------------------------------
(***************************************************************************)
(* nearxd and a Ledger (src/bin/nearxd/hardware_wallet.rs, and the hardware*)
(* part of sign_transaction in broker.rs).  connect_hardware_wallet reads a*)
(* public key from the device and binds it to an account in the settings;  *)
(* sign_transaction finds the record of a key there and has the device sign*)
(* at its derivation path, sending the transaction in chunks.              *)
(*                                                                         *)
(* Every connection to nearxd has a thread of its own and no lock is held  *)
(* around the device; every command but the chunks opens a transport for   *)
(* itself.  The device and its user are modelled from how they are used.   *)
(***************************************************************************)
EXTENDS Naturals, Sequences, FiniteSets

CONSTANTS
    Threads,        \* connections of nearxd
    Seeds,          \* the devices somebody may plug in
    Paths,          \* derivation paths
    KeyOf,          \* the public key a seed has at a path
    Accounts,       \* named accounts
    OnChain,        \* the access keys of each account
    Txs,            \* transactions
    Size,           \* the number of chunks of each
    Exclusive,      \* can only one transport be open at a time?
    MaxRequests,    \* bounds: requests,
    MaxEvents       \* crashes of nearxd, and things done to the device

Keys == {KeyOf[s][p] : s \in Seeds, p \in Paths}

ASSUME LedgerAssumption ==
    /\ KeyOf \in [Seeds -> [Paths -> Keys]]
    /\ \A s, t \in Seeds : \A p, q \in Paths : KeyOf[s][p] = KeyOf[t][q] => s = t /\ p = q
    /\ OnChain \in [Accounts -> SUBSET Keys]
    /\ Size \in [Txs -> Nat \ {0}]
    /\ Accounts \cap Keys = {}      \* an implicit account is named by its key
    /\ Exclusive \in BOOLEAN /\ MaxRequests \in Nat /\ MaxEvents \in Nat

VARIABLES
    seed,       \* the device that is plugged in
    deviceApp,  \* the app that runs on it
    buffer,     \* the chunks the NEAR app has so far
    thread,     \* what each thread does
    open,       \* the threads whose signing transport is open and works
    index,      \* hardware_wallet_index of the settings
    signed,     \* history: the signatures that were answered
    malformed,  \* history: was the device asked to sign what is no transaction, by
                \* a request that had found or made its buffer empty?
    requests, events

device == <<seed, deviceApp, buffer>>
vars == <<device, thread, open, index, signed, malformed, requests, events>>

Idle == [pc |-> "idle"]

Init ==
    /\ seed \in Seeds
    /\ deviceApp \in {"BOLOS", "NEAR", "other"}
    /\ buffer = <<>>
    /\ thread = [t \in Threads |-> Idle]
    /\ open = {} /\ index = {} /\ signed = {} /\ malformed = FALSE
    /\ requests = 0 /\ events = 0

-----------------------------------------------------------------------------
CanOpen == Exclusive => open = {}

Goto(t, pc) == thread' = [thread EXCEPT ![t].pc = pc]

(* Any error is the answer, and ends the request; its transport closes.    *)
Fail(t) ==
    /\ thread' = [thread EXCEPT ![t] = Idle]
    /\ open' = open \ {t}
    /\ UNCHANGED <<index, signed>>

(* A change of the app makes the device enumerate again.                   *)
ChangeApp(app) == deviceApp' = app /\ buffer' = <<>> /\ open' = {} /\ UNCHANGED seed

(* connect_hardware_wallet, for a named account or for the key's own.      *)
Connect(t, path, account) ==
    /\ thread[t] = Idle /\ requests < MaxRequests
    /\ requests' = requests + 1
    /\ thread' = [thread EXCEPT ![t] = [pc |-> "app", op |-> "connect",
                                        path |-> path, account |-> account]]
    /\ UNCHANGED <<device, open, index, signed, malformed, events>>

(* sign_transaction with credential_source=hardware_wallet: the record of  *)
(* the account and key gives the path; without one there is only an error. *)
Sign(t, record, tx) ==
    /\ thread[t] = Idle /\ requests < MaxRequests
    /\ record \in index
    /\ requests' = requests + 1
    /\ thread' = [thread EXCEPT ![t] = [pc |-> "app", op |-> "sign", path |-> record.path,
                                        key |-> record.key, tx |-> tx, next |-> 1,
                                        mixed |-> FALSE]]
    /\ UNCHANGED <<device, open, index, signed, malformed, events>>

(* ledger_open_near_app, in three commands with a transport each.          *)
AskApp(t) ==
    /\ thread[t].pc = "app"
    /\ \/ Fail(t)                               \* no transport, or a status
       \/ /\ CanOpen
          /\ Goto(t, CASE deviceApp = "NEAR"  -> "work"
                       [] deviceApp = "BOLOS" -> "open"
                       [] OTHER               -> "quit")
          /\ UNCHANGED <<open, index, signed>>
    /\ UNCHANGED <<device, malformed, requests, events>>

QuitApp(t) ==
    /\ thread[t].pc = "quit"
    /\ \/ Fail(t) /\ UNCHANGED device
       \/ /\ CanOpen
          /\ ChangeApp("BOLOS")
          /\ Goto(t, "open")                    \* and sleeps for a second
          /\ UNCHANGED <<index, signed>>
    /\ UNCHANGED <<malformed, requests, events>>

(* Only the dashboard knows the command, and the user confirms it.         *)
OpenApp(t) ==
    /\ thread[t].pc = "open"
    /\ \/ Fail(t) /\ UNCHANGED device
       \/ /\ CanOpen /\ deviceApp = "BOLOS"
          /\ ChangeApp("NEAR")
          /\ Goto(t, "work")
          /\ UNCHANGED <<index, signed>>
    /\ UNCHANGED <<malformed, requests, events>>

(* ledger_get_public_key; the user compares the key on the display.        *)
GetKey(t) ==
    /\ thread[t].pc = "work" /\ thread[t].op = "connect"
    /\ \/ Fail(t)
       \/ /\ CanOpen /\ deviceApp = "NEAR"
          /\ LET key == KeyOf[seed][thread[t].path]
             IN  thread' = [thread EXCEPT ![t] =
                    [pc |-> "bind", op |-> "connect", path |-> @.path, key |-> key, seed |-> seed,
                     account |-> IF @.account \in Accounts THEN @.account ELSE key]]
          /\ UNCHANGED <<open, index, signed>>
    /\ UNCHANGED <<device, malformed, requests, events>>

Record(w) == [account |-> w.account, key |-> w.key, path |-> w.path, seed |-> w.seed]

Upsert(r) == {q \in index : ~ (q.account = r.account /\ q.key = r.key)} \cup {r}

(* Faulty variant: the account's access keys are not looked at.            *)
BindUnchecked(t) ==
    /\ thread[t].pc = "bind"
    /\ index' = Upsert(Record(thread[t]))
    /\ thread' = [thread EXCEPT ![t] = Idle]
    /\ UNCHANGED <<device, open, signed, malformed, requests, events>>

(* Faulty variant: the record gets another path than the key was read at. *)
BindDefaultPath(t) ==
    /\ thread[t].pc = "bind"
    /\ \E p \in Paths : index' = Upsert([Record(thread[t]) EXCEPT !.path = p])
    /\ thread' = [thread EXCEPT ![t] = Idle]
    /\ UNCHANGED <<device, open, signed, malformed, requests, events>>

(* The key must be an access key of a named account; an implicit account   *)
(* needs not exist yet.  Then the record is stored, under settings_lock.   *)
Bind(t) ==
    /\ thread[t].pc = "bind"
    /\ LET w == thread[t]
       IN  \/ Fail(t)                           \* RPC, or the settings file
           \/ /\ w.account \in Accounts => w.key \in OnChain[w.account]
              /\ index' = Upsert(Record(w))
              /\ thread' = [thread EXCEPT ![t] = Idle]
              /\ UNCHANGED <<open, signed>>
    /\ UNCHANGED <<device, malformed, requests, events>>

(* Faulty variant: the version command is left out.                        *)
OpenToSignKeepsBuffer(t) ==
    /\ thread[t].pc = "work" /\ thread[t].op = "sign" /\ CanOpen
    /\ open' = open \cup {t}
    /\ Goto(t, "chunk")
    /\ UNCHANGED <<device, index, signed, malformed, requests, events>>

(* ledger_sign_transaction opens the transport of all its chunks and asks  *)
(* for the version first, which empties the NEAR app's buffer.  An error of*)
(* that command is only logged: then the chunks may follow what is there.  *)
OpenToSign(t) ==
    /\ thread[t].pc = "work" /\ thread[t].op = "sign"
    /\ \/ Fail(t) /\ UNCHANGED device
       \/ /\ CanOpen
          /\ open' = open \cup {t}
          /\ buffer' \in {<<>>, buffer}
          /\ thread' = [thread EXCEPT ![t].pc = "chunk", ![t].mixed = (buffer' # <<>>)]
          /\ UNCHANGED <<seed, deviceApp, index, signed>>
    /\ UNCHANGED <<malformed, requests, events>>

Chunk(w) == [tx |-> w.tx, path |-> w.path, part |-> w.next]

Payload(tx, path) == [i \in 1..Size[tx] |-> [tx |-> tx, path |-> path, part |-> i]]

(* A chunk that is not taken ends the request, and so does one whose answer*)
(* is lost.                                                                *)
SendChunk(t) ==
    /\ thread[t].pc = "chunk" /\ thread[t].next < Size[thread[t].tx]
    /\ \/ Fail(t) /\ UNCHANGED device
       \/ /\ t \in open /\ deviceApp = "NEAR"
          /\ buffer' = Append(buffer, Chunk(thread[t])) /\ UNCHANGED <<seed, deviceApp>>
          /\ \/ Fail(t)
             \/ /\ thread' = [thread EXCEPT ![t].next = @ + 1]
                /\ UNCHANGED <<open, index, signed>>
    /\ UNCHANGED <<malformed, requests, events>>

(* With the last chunk the NEAR app decodes what it has and shows it; the  *)
(* user approves or rejects.  nearxd puts the signature beside its own     *)
(* transaction and key and answers, without verifying it.                  *)
SendLastChunk(t) ==
    /\ thread[t].pc = "chunk" /\ thread[t].next = Size[thread[t].tx]
    /\ LET w       == thread[t]
           whole   == Append(buffer, Chunk(w))
           decodes == whole = Payload(whole[1].tx, whole[1].path)
       IN  \/ Fail(t) /\ UNCHANGED <<device, malformed>>      \* not taken
           \/ /\ t \in open /\ deviceApp = "NEAR"
              /\ buffer' = <<>> /\ UNCHANGED <<seed, deviceApp>>
              /\ malformed' = (malformed \/ ~ (decodes \/ w.mixed))
              /\ \/ Fail(t)                     \* rejected, or not decoded
                 \/ /\ decodes
                    /\ signed' = signed \cup
                         {[tx |-> w.tx, key |-> w.key,
                           by |-> KeyOf[seed][whole[1].path], over |-> whole[1].tx, seed |-> seed]}
                    /\ thread' = [thread EXCEPT ![t] = Idle]
                    /\ open' = open \ {t}
                    /\ UNCHANGED index
    /\ UNCHANGED <<requests, events>>

-----------------------------------------------------------------------------
(* nearxd stops; the device keeps its buffer.                              *)
Crash ==
    /\ events < MaxEvents
    /\ events' = events + 1
    /\ thread' = [t \in Threads |-> Idle]
    /\ open' = {}
    /\ UNCHANGED <<device, index, signed, malformed, requests>>

(* The user starts another app, or plugs in another device.                *)
UserStarts(app) ==
    /\ events < MaxEvents /\ app # deviceApp
    /\ events' = events + 1
    /\ ChangeApp(app)
    /\ UNCHANGED <<thread, index, signed, malformed, requests>>

PlugIn(s) ==
    /\ events < MaxEvents /\ s # seed
    /\ events' = events + 1
    /\ seed' = s /\ deviceApp' = "BOLOS" /\ buffer' = <<>> /\ open' = {}
    /\ UNCHANGED <<thread, index, signed, malformed, requests>>

Next ==
    \/ \E t \in Threads, p \in Paths, a \in Accounts \cup {"implicit"} : Connect(t, p, a)
    \/ \E t \in Threads, r \in index, tx \in Txs : Sign(t, r, tx)
    \/ \E t \in Threads : AskApp(t)
    \/ \E t \in Threads : QuitApp(t)
    \/ \E t \in Threads : OpenApp(t)
    \/ \E t \in Threads : GetKey(t)
    \/ \E t \in Threads : Bind(t)
    \/ \E t \in Threads : OpenToSign(t)
    \/ \E t \in Threads : SendChunk(t)
    \/ \E t \in Threads : SendLastChunk(t)
    \/ Crash
    \/ \E app \in {"BOLOS", "NEAR", "other"} : UserStarts(app)
    \/ \E s \in Seeds : PlugIn(s)

Spec == Init /\ [][Next]_vars

-----------------------------------------------------------------------------
(* The device is never asked to sign a payload that is not exactly one     *)
(* transaction behind one path, whatever interrupted requests left in its  *)
(* buffer and whichever of nearxd's threads use it meanwhile - but for a   *)
(* request whose version command failed over left-over chunks: the code    *)
(* goes on then.  (Where several transports can be open at once, as with   *)
(* hidraw, this does not hold.)                                            *)
PayloadWellFormed == ~ malformed

(* A record binds a key to an account that has it, or to the account the   *)
(* key itself names; the key is the one at the record's path.              *)
RecordIsOwned ==
    \A r \in index :
        /\ r.account = r.key \/ (r.account \in Accounts /\ r.key \in OnChain[r.account])
        /\ KeyOf[r.seed][r.path] = r.key
        /\ \A q \in index : r.account = q.account /\ r.key = q.key => r = q

(* A signature that is answered is by the key the request named, over the  *)
(* transaction it built: nearxd does not verify it, so this rests on what  *)
(* connect stored and on no mixture of chunks being a transaction.  Only   *)
(* another device than the one that was connected makes it fail.           *)
SignatureVerifies ==
    \A s \in signed : /\ s.over = s.tx
                      /\ s.key \in {KeyOf[s.seed][p] : p \in Paths} => s.by = s.key
=============================================================================
