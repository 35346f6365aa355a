------------------------- MODULE KeychainCredentials -------------------------
(***************************************************************************)
(* One NEAR signing key on macOS: its nearxd Keychain item, its record in  *)
(* the signing key index of the settings, and the requests that write,     *)
(* read and rely on both (src/bin/nearxd/signing.rs, credentials.rs,       *)
(* keychain.rs and sign_transaction in broker.rs).                         *)
(*                                                                         *)
(* The Keychain does not tell how an item is protected, so nearxd keeps    *)
(* that in the index, at another time than it writes the item.  The        *)
(* settings are saved in one step here: module SettingsStore shows that    *)
(* they are.                                                               *)
(***************************************************************************)
EXTENDS Naturals, Connections

CONSTANTS
    Places,    \* where else the key may be: subset of the three below
    Requests,  \* the requests that clients send
    NoRecord   \* the index has no record of the key

Software == {"near_cli_secure", "legacy_file"}
Request ==
    [op : {"import"}, source : Software, biometry : BOOLEAN, overwrite : BOOLEAN,
     persist : BOOLEAN, save : BOOLEAN]
    \cup [op : {"reprotect", "get"}]
    \cup [op : {"sign"}, explicit : BOOLEAN]

ASSUME CredentialAssumption ==
    /\ Places \subseteq Software \cup {"legacy_item"}
    /\ Requests \subseteq Request
    /\ NoRequest \notin Request

Protections == {"biometry", "presence", "unprotected"}

VARIABLES
    sources,   \* other places that hold the key; "legacy_item" is the Keychain
               \* item named after the account only
    entitled,  \* does this build have the entitlement for protected items?
    item,      \* protection of the key's own Keychain item, or "none"
    index,     \* its record in the signing key index
    before,    \* before[c]: settings_before, as far as the key's protection goes
    task,      \* task[c]: who called store_near_credential_keychain
    update,    \* update[c]: the record to merge into the index, or NoRecord
    used,      \* used[c]: used_credential_source
    verified,  \* history: some write of a biometric item was reported successful
    had,       \* history: the item existed
    mishap     \* history: a write failed, or was cut short, after the delete

vars == <<sources, entitled, item, index, pc, req, before, task, update, used,
          answer, verified, had, mishap>>

Init ==
    /\ sources \in SUBSET Places
    /\ entitled \in BOOLEAN
    /\ item = "none"
    /\ index = NoRecord
    /\ pc = [c \in Conns |-> "idle"]
    /\ req = [c \in Conns |-> NoRequest]
    /\ before = [c \in Conns |-> "unknown"]
    /\ task = [c \in Conns |-> "none"]
    /\ update = [c \in Conns |-> NoRecord]
    /\ used = [c \in Conns |-> "none"]
    /\ answer = [c \in Conns |-> "none"]
    /\ verified = FALSE
    /\ had = FALSE
    /\ mishap = FALSE

\* What nearxd_keychain_state_for_key says of an existing item.
Indexed == IF index = NoRecord \/ index.protection = "null" THEN "unknown" ELSE index.protection

\* import_near_signing_keys takes its look at the settings before the prompt.
Receive(c) ==
    /\ pc[c] = "idle"
    /\ \E r \in Requests :
          /\ req' = [req EXCEPT ![c] = r]
          /\ Goto(c, IF r.op = "import" THEN "prompt" ELSE "read")
          /\ before' = [before EXCEPT ![c] = IF r.op = "import" THEN Indexed ELSE "unknown"]
    /\ UNCHANGED <<sources, entitled, item, index, task, update, used, answer,
                   verified, had, mishap>>
-----------------------------------------------------------------------------
\* The prompt of an import, and the search for the key in the named source.
\* Without a candidate there is nothing to store and nothing to index.
ImportPrompt(c) ==
    /\ pc[c] = "prompt"
    /\ \/ Answer(c, "auth") /\ UNCHANGED <<task, update>>
       \/ /\ req[c].source \notin sources
          /\ Goto(c, "save") /\ UNCHANGED <<task, update, answer>>
       \/ /\ req[c].source \in sources /\ req[c].persist
          /\ task' = [task EXCEPT ![c] = "import"]
          /\ Goto(c, "store") /\ UNCHANGED <<update, answer>>
       \/ /\ req[c].source \in sources /\ ~req[c].persist
          /\ update' = [update EXCEPT ![c] = [inKeychain |-> FALSE, protection |-> "null"]]
          /\ Goto(c, "save") /\ UNCHANGED <<task, answer>>
    /\ UNCHANGED <<sources, entitled, item, index, req, before, used, verified, had, mishap>>

\* get_near_credential answers what it read.  Asked for another source, it reads
\* near-cli's item or a file, and neither touches the Keychain item nor the index.
GetCredential(c) ==
    /\ req[c].op = "get"
    /\ Answer(c, "credential")
    /\ UNCHANGED task

\* read_near_credential_keychain: the key's own item, else the account's item,
\* whose credential is then copied into an item of the key.
\* Each read is a prompt that the user may refuse.
ReadKeychain(c) ==
    /\ pc[c] = "read"
    /\ used' = [used EXCEPT ![c] = "nearxd_keychain"]
    /\ \/ /\ item # "none"
          /\ \/ /\ req[c].op = "reprotect"
                /\ task' = [task EXCEPT ![c] = "reprotect"]
                /\ Goto(c, "store") /\ UNCHANGED answer
             \/ GetCredential(c)
             \/ req[c].op = "sign" /\ Goto(c, "check") /\ UNCHANGED <<task, answer>>
       \/ /\ "legacy_item" \in sources
          /\ task' = [task EXCEPT ![c] = "backfill"]
          /\ Goto(c, "store") /\ UNCHANGED answer
    /\ UNCHANGED <<sources, entitled, item, index, req, before, update, verified, had, mishap>>

\* Nothing in the Keychain, or the user refused.  Without a credential_source
\* sign_transaction goes on to near-cli's store and then the credential files:
\* whichever has the key and can be read, since the first may refuse too.
ReadFails(c) ==
    /\ pc[c] = "read"
    /\ \/ Answer(c, "auth") /\ UNCHANGED used
       \/ /\ req[c].op = "sign" /\ ~req[c].explicit
          /\ \E s \in sources \cap Software : used' = [used EXCEPT ![c] = s]
          /\ Goto(c, "check")
          /\ UNCHANGED answer
    /\ UNCHANGED <<sources, entitled, item, index, req, before, task, update,
                   verified, had, mishap>>
-----------------------------------------------------------------------------
\* store_near_credential_keychain: its three callers.
Overwrites(c) == CASE task[c] = "import"    -> req[c].overwrite
                   [] task[c] = "backfill"  -> FALSE
                   [] task[c] = "reprotect" -> TRUE
Wanted(c) == IF task[c] = "import" /\ ~req[c].biometry THEN "presence" ELSE "biometry"

\* What its caller does with the outcome: a protection, "skipped" or "error".
Stored(c, r) ==
    /\ task' = [task EXCEPT ![c] =
                 IF task[c] = "backfill" /\ req[c].op = "reprotect" THEN "reprotect" ELSE "none"]
    /\ update' = [update EXCEPT ![c] =
                 IF task[c] # "backfill" /\ r \in Protections
                 THEN [inKeychain |-> TRUE, protection |-> r] ELSE NoRecord]
    /\ CASE task[c] = "import" ->
              Goto(c, IF r = "skipped" THEN "state" ELSE "save") /\ UNCHANGED answer
         [] task[c] = "backfill" /\ req[c].op = "reprotect" -> Goto(c, "store") /\ UNCHANGED answer
         [] task[c] = "backfill" /\ req[c].op = "sign"      -> Goto(c, "check") /\ UNCHANGED answer
         [] task[c] = "backfill" /\ req[c].op = "get"       -> Answer(c, "credential")
         [] task[c] = "reprotect" /\ r = "biometry" -> Goto(c, "save") /\ UNCHANGED answer
         [] task[c] = "reprotect" /\ r = "error"    -> Answer(c, "auth")
         [] task[c] = "reprotect" /\ r \notin {"biometry", "error"} -> Answer(c, "protectionFailed")

\* keychain_has_generic, unless the caller overwrites.
StoreCheck(c) ==
    /\ pc[c] = "store"
    /\ \/ ~Overwrites(c) /\ item # "none" /\ Stored(c, "skipped")
       \/ /\ Overwrites(c) \/ item = "none"
          /\ Goto(c, "delete")
          /\ UNCHANGED <<task, update, answer>>
    /\ UNCHANGED <<sources, entitled, item, index, req, before, used, verified, had, mishap>>

\* Faulty variant: a failure to build the access control is an error, after
\* the old item is gone.
StoreDeleteMayStop(c) ==
    /\ pc[c] = "delete"
    /\ item' = "none"
    /\ \/ Stored(c, "error")
       \/ Goto(c, "add") /\ UNCHANGED <<task, update, answer>>
    /\ UNCHANGED <<sources, entitled, index, req, before, used, verified, had, mishap>>

\* keychain_write_generic_protected deletes first, without a look at whether
\* that worked ...
StoreDelete(c) ==
    /\ pc[c] = "delete"
    /\ item' \in {"none", item}
    /\ Goto(c, "add")
    /\ UNCHANGED <<sources, entitled, index, req, before, task, update, used, answer,
                   verified, had, mishap>>

\* Faulty variant: the fallback reports the protection that was asked for.
StoreAddAsAsked(c) ==
    /\ pc[c] = "add"
    /\ had' = TRUE
    /\ \/ /\ entitled /\ item = "none"
          /\ item' = Wanted(c)
          /\ verified' = (verified \/ Wanted(c) = "biometry")
       \/ /\ item' = IF item = "none" THEN "unprotected" ELSE item
          /\ UNCHANGED verified
    /\ Stored(c, Wanted(c))
    /\ UNCHANGED <<sources, entitled, index, req, before, used, mishap>>

\* ... then adds: SecItemAdd refuses a duplicate.  Without the entitlement
\* (-34018), or where no access control object can be made,
\* set_generic_password adds an unprotected item, or gives the one that is
\* there a new value.
StoreAdd(c) ==
    /\ pc[c] = "add"
    /\ had' = TRUE
    /\ \/ /\ entitled /\ item = "none"
          /\ item' = Wanted(c)
          /\ verified' = (verified \/ Wanted(c) = "biometry")
          /\ Stored(c, Wanted(c))
       \/ /\ item' = IF item = "none" THEN "unprotected" ELSE item
          /\ Stored(c, "unprotected")
          /\ UNCHANGED verified
    /\ UNCHANGED <<sources, entitled, index, req, before, used, mishap>>

StoreAddFails(c) ==
    /\ pc[c] = "add"
    /\ mishap' = (mishap \/ item = "none")
    /\ Stored(c, "error")
    /\ UNCHANGED <<sources, entitled, item, index, req, before, used, verified, had>>

\* skipped_existing: the import reports what the settings said at its start.
ImportState(c) ==
    /\ pc[c] = "state"
    /\ update' = [update EXCEPT ![c] =
                   [inKeychain |-> TRUE,
                    protection |-> IF item = "none" THEN "null" ELSE before[c]]]
    /\ Goto(c, "save")
    /\ UNCHANGED <<sources, entitled, item, index, req, before, task, used, answer,
                   verified, had, mishap>>

\* upsert_signing_key_index: a protection that is not known leaves the old one.
Merged(old, new) ==
    IF old = NoRecord THEN new
    ELSE [inKeychain |-> old.inKeychain \/ new.inKeychain,
          protection |-> IF new.protection = "null" THEN old.protection ELSE new.protection]

Save(c) ==
    /\ pc[c] = "save"
    /\ \/ /\ req[c].op = "import" => req[c].save
          /\ index' = IF update[c] = NoRecord THEN index ELSE Merged(index, update[c])
          /\ Answer(c, "saved")
       \/ UNCHANGED index /\ Answer(c, "notSaved")
    /\ UNCHANGED <<sources, entitled, item, req, before, task, update, used,
                   verified, had, mishap>>
-----------------------------------------------------------------------------
\* An explicit nearxd_keychain is honoured only if the index calls the item
\* biometric; otherwise another software source signs, if one can be read.
CheckProtection(c) ==
    /\ pc[c] = "check"
    /\ \/ /\ ~req[c].explicit \/ (item # "none" /\ Indexed = "biometry")
          /\ Goto(c, "sign") /\ UNCHANGED <<used, answer>>
       \/ /\ req[c].explicit /\ ~(item # "none" /\ Indexed = "biometry")
          /\ \/ /\ \E s \in sources \cap Software : used' = [used EXCEPT ![c] = s]
                /\ Goto(c, "sign") /\ UNCHANGED answer
             \/ Answer(c, "auth") /\ UNCHANGED used
    /\ UNCHANGED <<sources, entitled, item, index, req, before, task, update,
                   verified, had, mishap>>

\* The always_prompt_user_presence gate, and the signature.
Sign(c) ==
    /\ pc[c] = "sign"
    /\ Answer(c, "signed") \/ Answer(c, "auth")
    /\ UNCHANGED <<sources, entitled, item, index, req, before, task, update, used,
                   verified, had, mishap>>

Cleared(c, f, v) == [f EXCEPT ![c] = v]

Reply(c) ==
    /\ pc[c] = "reply"
    /\ Goto(c, "idle")
    /\ req' = Cleared(c, req, NoRequest)
    /\ before' = Cleared(c, before, "unknown")
    /\ task' = Cleared(c, task, "none")
    /\ update' = Cleared(c, update, NoRecord)
    /\ used' = Cleared(c, used, "none")
    /\ answer' = Cleared(c, answer, "none")
    /\ UNCHANGED <<sources, entitled, item, index, verified, had, mishap>>

\* The daemon is killed and started again, maybe as another build.
Restart ==
    /\ pc' = [c \in Conns |-> "idle"]
    /\ req' = [c \in Conns |-> NoRequest]
    /\ before' = [c \in Conns |-> "unknown"]
    /\ task' = [c \in Conns |-> "none"]
    /\ update' = [c \in Conns |-> NoRecord]
    /\ used' = [c \in Conns |-> "none"]
    /\ answer' = [c \in Conns |-> "none"]
    /\ entitled' \in BOOLEAN
    /\ mishap' = (mishap \/ \E c \in Conns : pc[c] = "add")
    /\ UNCHANGED <<sources, item, index, verified, had>>

Next ==
    \/ \E c \in Conns :
          \/ Receive(c) \/ ImportPrompt(c) \/ ReadKeychain(c) \/ ReadFails(c)
          \/ StoreCheck(c) \/ StoreDelete(c) \/ StoreAdd(c) \/ StoreAddFails(c)
          \/ ImportState(c) \/ Save(c)
          \/ CheckProtection(c) \/ Sign(c) \/ Reply(c)
    \/ Restart

Spec == Init /\ [][Next]_vars
-----------------------------------------------------------------------------
\* The index never calls a key biometric ("verified biometric", docs/NEARXD.md)
\* when no biometric item was ever written for it: not after a fallback to an
\* unprotected item, and not by an import that skipped an item it did not write.
BiometryWasVerified ==
    index # NoRecord /\ index.protection = "biometry" => verified

\* Overwriting and repairing an item deletes it first.  Once nobody is between
\* the delete and the add, the item is there again, however the threads
\* interleaved, unless the Keychain refused the add or the daemon was killed.
ItemComesBack ==
    had /\ ~mishap /\ (\A c \in Conns : pc[c] # "add") => item # "none"
=============================================================================
