---------------------------- MODULE LedgerProofs ----------------------------
(***************************************************************************)
(* Proofs about Ledger for every set of threads, devices, paths, accounts  *)
(* and transactions, and every number of chunks, requests and events.      *)
(***************************************************************************)
EXTENDS Ledger, SequenceTheorems, TLAPS

ConnectWork == [pc : {"app", "quit", "open", "work"}, op : {"connect"}, path : Paths,
                account : Accounts \cup {"implicit"}]
BindWork    == [pc : {"bind"}, op : {"connect"}, path : Paths, key : Keys, seed : Seeds,
                account : Accounts \cup Keys]
SignWork    == [pc : {"app", "quit", "open", "work", "chunk"}, op : {"sign"}, path : Paths,
                key : Keys, tx : Txs, next : Nat \ {0}, mixed : BOOLEAN]
Work        == {Idle} \cup ConnectWork \cup BindWork \cup SignWork
Chunks      == [tx : Txs, path : Paths, part : Nat \ {0}]

TypeOK ==
    /\ seed \in Seeds
    /\ deviceApp \in {"BOLOS", "NEAR", "other"}
    /\ buffer \in Seq(Chunks)
    /\ thread \in [Threads -> Work]
    /\ open \subseteq Threads
    /\ index \subseteq [account : Accounts \cup Keys, key : Keys, path : Paths, seed : Seeds]
    /\ malformed \in BOOLEAN
    /\ requests \in Nat /\ events \in Nat

\* What a thread knows of the key it carries: connect has read it from the
\* device, sign has it from a record that some device was read for.  Chunks are
\* counted from the first.
ThreadOK(t) ==
    /\ thread[t].pc = "bind" =>
          /\ thread[t].account \in Accounts \/ thread[t].account = thread[t].key
          /\ KeyOf[thread[t].seed][thread[t].path] = thread[t].key
    /\ thread[t] \in SignWork =>
          /\ \E s \in Seeds : KeyOf[s][thread[t].path] = thread[t].key
          /\ thread[t].pc # "chunk" => thread[t].next = 1

\* The chunks of a request up to a part.
Prefix(tx, path, n) == [i \in 1..n |-> [tx |-> tx, path |-> path, part |-> i]]

\* Only a thread that sends chunks has its signing transport open, and while it
\* has, the NEAR app holds exactly the chunks it has sent - unless its version
\* command failed and left it the chunks of another.
TransportOK ==
    \A t \in open :
        /\ thread[t] \in SignWork /\ thread[t].pc = "chunk"
        /\ deviceApp = "NEAR" /\ ~ thread[t].mixed
             => buffer = Prefix(thread[t].tx, thread[t].path, thread[t].next - 1)

OneTransport == \A t, u \in open : t = u

\* The inductive invariant.  Its last part is for transports that exclude each
\* other.
IInv ==
    /\ TypeOK
    /\ \A t \in Threads : ThreadOK(t)
    /\ RecordIsOwned
    /\ SignatureVerifies
    /\ Exclusive => OneTransport /\ TransportOK /\ PayloadWellFormed
-----------------------------------------------------------------------------
\* The NEAR app may hold no chunk.
LEMMA NothingSent == <<>> \in Seq(Chunks)
BY EmptySeq

\* The payload of a transaction is all its chunks.
LEMMA PayloadIsPrefix ==
    \A tx \in Txs, path \in Paths : Payload(tx, path) = Prefix(tx, path, Size[tx])
BY DEF Payload, Prefix

\* The chunks up to a part, and the next one.
LEMMA AppendToPrefix ==
    ASSUME NEW tx \in Txs, NEW path \in Paths, NEW n \in Nat
    PROVE  /\ Prefix(tx, path, n) \in Seq(Chunks)
           /\ Append(Prefix(tx, path, n), [tx |-> tx, path |-> path, part |-> n + 1])
                = Prefix(tx, path, n + 1)
<1> DEFINE c == [tx |-> tx, path |-> path, part |-> n + 1]
<1>1. Prefix(tx, path, n) \in Seq(Chunks) /\ Len(Prefix(tx, path, n)) = n
  BY DEF Prefix, Chunks
<1>2. c \in Chunks
  BY DEF Chunks
<1>3. \A i \in 1..n : Prefix(tx, path, n)[i] = Prefix(tx, path, n + 1)[i]
  BY DEF Prefix
<1>4. Prefix(tx, path, n + 1)[n + 1] = c
  BY DEF Prefix
<1>5. Prefix(tx, path, n + 1) \in Seq(Chunks) /\ Len(Prefix(tx, path, n + 1)) = n + 1
  BY DEF Prefix, Chunks
<1> HIDE DEF c
<1>6. Append(Prefix(tx, path, n), c) = Prefix(tx, path, n + 1)
  BY <1>1, <1>2, <1>3, <1>4, <1>5
<1>7. QED
  BY <1>1, <1>6 DEF c

\* A payload that decodes ends with the chunk just sent, so it is of that
\* chunk's transaction and path, whoever sent the others.
LEMMA DecodedIsOwn ==
    ASSUME NEW b \in Seq(Chunks), NEW c \in Chunks,
           Append(b, c) = Payload(Append(b, c)[1].tx, Append(b, c)[1].path)
    PROVE  Append(b, c)[1].tx = c.tx /\ Append(b, c)[1].path = c.path
<1> DEFINE w == Append(b, c)
<1>1. w \in Seq(Chunks) /\ Len(w) = Len(b) + 1 /\ w[Len(w)] = c /\ Len(w) \in Nat \ {0}
  OBVIOUS
<1>2. w = Payload(w[1].tx, w[1].path)
  OBVIOUS
<1> HIDE DEF w
<1>3. w[1] \in Chunks
  BY <1>1
<1>4. w[1].tx \in Txs
  BY <1>3 DEF Chunks
<1>5. Size[w[1].tx] \in Nat
  BY <1>4, LedgerAssumption
<1>6. DOMAIN w = 1..Size[w[1].tx] /\ DOMAIN w = 1..Len(w)
  <2>1. \A tx, path : DOMAIN Payload(tx, path) = 1..Size[tx]
    BY Zenon DEF Payload
  <2>2. DOMAIN w = 1..Size[w[1].tx]
    BY <1>2, <2>1, Zenon
  <2>3. QED
    BY <1>1, <2>2
<1>7. Len(w) \in 1..Size[w[1].tx]
  BY <1>1, <1>5, <1>6
<1>8. w[Len(w)] = [tx |-> w[1].tx, path |-> w[1].path, part |-> Len(w)]
  BY <1>2, <1>7, Zenon DEF Payload
<1>9. QED
  BY <1>1, <1>8 DEF w
-----------------------------------------------------------------------------
\* The initial state satisfies the inductive invariant.
LEMMA InitInv == Init => IInv
<1> SUFFICES ASSUME Init PROVE IInv
  OBVIOUS
<1>1. TypeOK
  BY NothingSent DEF Init, TypeOK, Work
<1>2. \A t \in Threads : ThreadOK(t)
  BY DEF Init, ThreadOK, Idle, SignWork
<1>3. QED
  BY <1>1, <1>2 DEF Init, IInv, RecordIsOwned, SignatureVerifies, OneTransport, TransportOK,
     PayloadWellFormed

USE LedgerAssumption

\* A command that asks for another app leaves a thread what it carries.
LEMMA GotoKeeps ==
    ASSUME TypeOK, NEW t \in Threads, thread[t].pc \in {"app", "quit", "open"}, ThreadOK(t),
           NEW l \in {"quit", "open", "work"}, Goto(t, l)
    PROVE  /\ thread' \in [Threads -> Work]
           /\ ThreadOK(t)'
           /\ \A u \in Threads \ {t} : thread'[u] = thread[u]
<1> DEFINE w == [thread[t] EXCEPT !.pc = l]
<1>1. thread[t] \in ConnectWork \cup SignWork
  BY DEF TypeOK, Work, Idle, ConnectWork, BindWork, SignWork
<1>2. w \in Work /\ w.pc = l /\ w.path = thread[t].path
  BY <1>1 DEF Work, ConnectWork, SignWork
<1>3. w \in SignWork => /\ thread[t] \in SignWork /\ w.key = thread[t].key
                        /\ thread[t].pc # "chunk" /\ w.next = thread[t].next
  BY <1>1 DEF ConnectWork, SignWork
<1>4. thread' = [thread EXCEPT ![t] = w]
  BY DEF Goto, TypeOK
<1> HIDE DEF w
<1>5. QED
  BY <1>2, <1>3, <1>4 DEF TypeOK, ThreadOK

\* What one thread does to its own work disturbs no other thread.
LEMMA OthersKeep ==
    ASSUME IInv, NEW t \in Threads, ThreadOK(t)',
           \A u \in Threads \ {t} : thread'[u] = thread[u]
    PROVE  \A u \in Threads : ThreadOK(u)'
BY DEF IInv, ThreadOK

\* Every step keeps the inductive invariant: one case per action.
LEMMA StepInv == IInv /\ [Next]_vars => IInv'
<1> SUFFICES ASSUME IInv, [Next]_vars PROVE IInv'
  OBVIOUS
<1> USE DEF IInv, TypeOK
<1>0. ASSUME NEW t \in Threads PROVE Fail(t) => /\ thread' \in [Threads -> Work]
                                                /\ ThreadOK(t)'
                                                /\ \A u \in Threads \ {t} : thread'[u] = thread[u]
                                                /\ open' = open \ {t}
                                                /\ UNCHANGED <<index, signed>>
  BY DEF Fail, Work, ThreadOK, Idle, SignWork
<1>1. ASSUME NEW t \in Threads, NEW p \in Paths, NEW a \in Accounts \cup {"implicit"}, Connect(t, p, a)
      PROVE  IInv'
  <2> DEFINE w == [pc |-> "app", op |-> "connect", path |-> p, account |-> a]
  <2>1. w \in Work /\ w \notin SignWork /\ w.pc # "bind"
    BY DEF Work, ConnectWork, SignWork
  <2>2. thread' = [thread EXCEPT ![t] = w] /\ thread[t] = Idle
        /\ UNCHANGED <<device, open, index, signed, malformed>> /\ requests' \in Nat /\ events' \in Nat
    BY <1>1 DEF Connect
  <2> HIDE DEF w
  <2>3. (\A u \in Threads : ThreadOK(u))'
    BY <2>1, <2>2 DEF ThreadOK
  <2>4. Exclusive => t \notin open
    BY <2>2 DEF TransportOK, Idle
  <2>5. QED
    BY <2>1, <2>2, <2>3, <2>4
       DEF device, RecordIsOwned, SignatureVerifies, OneTransport, TransportOK, PayloadWellFormed
<1>2. ASSUME NEW t \in Threads, NEW r \in index, NEW tx \in Txs, Sign(t, r, tx)
      PROVE  IInv'
  <2> DEFINE w == [pc |-> "app", op |-> "sign", path |-> r.path, key |-> r.key, tx |-> tx, next |-> 1,
                mixed |-> FALSE]
  <2>1. w \in Work /\ w.pc # "bind" /\ w.path = r.path /\ w.key = r.key /\ w.next = 1
    BY DEF Work, SignWork
  <2>2. thread' = [thread EXCEPT ![t] = w] /\ thread[t] = Idle
        /\ UNCHANGED <<device, open, index, signed, malformed>> /\ requests' \in Nat /\ events' \in Nat
    BY <1>2 DEF Sign
  <2>3. \E s \in Seeds : KeyOf[s][r.path] = r.key
    BY DEF RecordIsOwned
  <2> HIDE DEF w
  <2>4. (\A u \in Threads : ThreadOK(u))'
    BY <2>1, <2>2, <2>3 DEF ThreadOK
  <2>5. Exclusive => t \notin open
    BY <2>2 DEF TransportOK, Idle
  <2>6. QED
    BY <2>1, <2>2, <2>4, <2>5
       DEF device, RecordIsOwned, SignatureVerifies, OneTransport, TransportOK, PayloadWellFormed
<1>3. ASSUME NEW t \in Threads, AskApp(t)
      PROVE  IInv'
  <2>1. /\ thread[t].pc = "app"
        /\ UNCHANGED <<device, index, signed, malformed, requests, events>>
        /\ Fail(t) \/ UNCHANGED open
    BY <1>3 DEF AskApp, Fail
  <2>2. /\ thread' \in [Threads -> Work] /\ ThreadOK(t)'
        /\ \A u \in Threads \ {t} : thread'[u] = thread[u]
    <3>1. CASE Fail(t)
      BY <1>0, <3>1
    <3>2. CASE ~Fail(t)
      <4> DEFINE l == CASE deviceApp = "NEAR"  -> "work"
                        [] deviceApp = "BOLOS" -> "open"
                        [] OTHER               -> "quit"
      <4>1. Goto(t, l)
        BY <1>3, <3>2, Zenon DEF AskApp
      <4>2. l \in {"work", "open", "quit"}
        BY Zenon
      <4> HIDE DEF l
      <4>3. QED
        BY <2>1, <4>1, <4>2, GotoKeeps
    <3>3. QED
      BY <3>1, <3>2
  <2>3. (\A u \in Threads : ThreadOK(u))'
    BY <2>2, OthersKeep
  <2>4. Exclusive => t \notin open
    BY <2>1 DEF TransportOK
  <2>5. open' \subseteq open
    BY <1>0, <2>1
  <2>6. QED
    BY <2>1, <2>2, <2>3, <2>4, <2>5
       DEF device, RecordIsOwned, SignatureVerifies, OneTransport, TransportOK, PayloadWellFormed
<1>4. ASSUME NEW t \in Threads, QuitApp(t) \/ OpenApp(t)
      PROVE  IInv'
  <2>1. /\ thread[t].pc \in {"quit", "open"}
        /\ UNCHANGED <<index, signed, malformed, requests, events>>
        /\ \/ Fail(t) /\ UNCHANGED device
           \/ (Goto(t, "open") \/ Goto(t, "work")) /\ (ChangeApp("BOLOS") \/ ChangeApp("NEAR"))
    BY <1>4 DEF QuitApp, OpenApp, Fail
  <2>2. /\ thread' \in [Threads -> Work] /\ ThreadOK(t)'
        /\ \A u \in Threads \ {t} : thread'[u] = thread[u]
    BY <1>0, <2>1, GotoKeeps
  <2>3. (\A u \in Threads : ThreadOK(u))'
    BY <2>2, OthersKeep
  <2>4. CASE Fail(t) /\ UNCHANGED device
    <3>1. Exclusive => t \notin open
      BY <2>1 DEF TransportOK
    <3>2. QED
      BY <1>0, <2>1, <2>2, <2>3, <2>4, <3>1
         DEF device, RecordIsOwned, SignatureVerifies, OneTransport, TransportOK, PayloadWellFormed
  <2>5. CASE ChangeApp("BOLOS") \/ ChangeApp("NEAR")
    <3>1. /\ deviceApp' \in {"BOLOS", "NEAR"} /\ buffer' = <<>> /\ open' = {} /\ seed' = seed
          /\ buffer' \in Seq(Chunks)
      BY <2>5, NothingSent DEF ChangeApp
    <3>2. QED
      BY <2>1, <2>2, <2>3, <3>1
         DEF RecordIsOwned, SignatureVerifies, OneTransport, TransportOK, PayloadWellFormed
  <2>6. QED
    BY <2>1, <2>4, <2>5
<1>5. ASSUME NEW t \in Threads, GetKey(t)
      PROVE  IInv'
  <2>1. /\ thread[t].pc = "work" /\ thread[t].op = "connect"
        /\ UNCHANGED <<device, index, signed, malformed, requests, events>>
        /\ Fail(t) \/ UNCHANGED open
    BY <1>5 DEF GetKey, Fail
  <2>2. /\ thread' \in [Threads -> Work] /\ ThreadOK(t)'
        /\ \A u \in Threads \ {t} : thread'[u] = thread[u]
    <3>1. CASE Fail(t)
      BY <1>0, <3>1
    <3>2. CASE ~Fail(t)
      <4> DEFINE key == KeyOf[seed][thread[t].path]
                 acc == IF thread[t].account \in Accounts THEN thread[t].account ELSE key
                 w   == [pc |-> "bind", op |-> "connect", path |-> thread[t].path, key |-> key,
                         seed |-> seed, account |-> acc]
      <4>1. thread[t] \in ConnectWork
        BY <2>1 DEF Work, Idle, ConnectWork, BindWork, SignWork
      <4>2. thread[t].path \in Paths /\ key \in Keys
        BY <4>1 DEF ConnectWork, Keys
      <4>3. acc \in Accounts \/ acc = key
        OBVIOUS
      <4>4. thread' = [thread EXCEPT ![t] = w]
        BY <1>5, <3>2 DEF GetKey
      <4>5. w \in BindWork
        BY <4>2, <4>3 DEF BindWork
      <4>6. w \notin SignWork
        BY DEF SignWork
      <4>7. /\ w.account \in Accounts \/ w.account = w.key
            /\ KeyOf[w.seed][w.path] = w.key
        BY <4>3
      <4> HIDE DEF w, acc, key
      <4>8. QED
        BY <4>4, <4>5, <4>6, <4>7 DEF Work, ThreadOK
    <3>3. QED
      BY <3>1, <3>2
  <2>3. (\A u \in Threads : ThreadOK(u))'
    BY <2>2, OthersKeep
  <2>4. Exclusive => t \notin open
    BY <2>1 DEF TransportOK
  <2>5. open' \subseteq open
    BY <1>0, <2>1
  <2>6. QED
    BY <2>1, <2>2, <2>3, <2>4, <2>5
       DEF device, RecordIsOwned, SignatureVerifies, OneTransport, TransportOK, PayloadWellFormed
<1>6. ASSUME NEW t \in Threads, Bind(t)
      PROVE  IInv'
  <2>1. /\ thread[t].pc = "bind"
        /\ UNCHANGED <<device, signed, malformed, requests, events>>
        /\ Fail(t) \/ UNCHANGED open
        /\ Fail(t) \/ thread' = [thread EXCEPT ![t] = Idle]
    BY <1>6 DEF Bind, Fail
  <2>2. /\ thread' \in [Threads -> Work] /\ ThreadOK(t)'
        /\ \A u \in Threads \ {t} : thread'[u] = thread[u]
    <3>1. CASE Fail(t)
      BY <1>0, <3>1
    <3>2. CASE thread' = [thread EXCEPT ![t] = Idle]
      BY <3>2 DEF Work, ThreadOK, Idle, SignWork
    <3>3. QED
      BY <2>1, <3>1, <3>2
  <2>3. (\A u \in Threads : ThreadOK(u))'
    BY <2>2, OthersKeep
  <2>4. Exclusive => t \notin open
    BY <2>1 DEF TransportOK
  <2>5. open' \subseteq open
    BY <1>0, <2>1
  <2>6. /\ RecordIsOwned'
        /\ index' \subseteq [account : Accounts \cup Keys, key : Keys, path : Paths, seed : Seeds]
    <3>1. CASE Fail(t)
      BY <1>0, <3>1 DEF RecordIsOwned
    <3>2. CASE ~Fail(t)
      <4> DEFINE r == Record(thread[t])
      <4>1. thread[t] \in BindWork
        BY <2>1 DEF Work, Idle, ConnectWork, BindWork, SignWork
      <4>2. /\ r \in [account : Accounts \cup Keys, key : Keys, path : Paths, seed : Seeds]
            /\ r.account = thread[t].account /\ r.key = thread[t].key
            /\ r.path = thread[t].path /\ r.seed = thread[t].seed
        BY <4>1 DEF BindWork, Record
      <4>3. index' = Upsert(r) /\ (r.account \in Accounts => r.key \in OnChain[r.account])
        BY <1>6, <3>2, <4>2 DEF Bind
      <4>4. /\ r.account = r.key \/ (r.account \in Accounts /\ r.key \in OnChain[r.account])
            /\ KeyOf[r.seed][r.path] = r.key
        BY <2>1, <4>2, <4>3 DEF ThreadOK
      <4> HIDE DEF r
      <4>5. QED
        BY <4>2, <4>3, <4>4 DEF Upsert, RecordIsOwned
    <3>3. QED
      BY <3>1, <3>2
  <2>7. QED
    BY <2>1, <2>2, <2>3, <2>4, <2>5, <2>6
       DEF device, SignatureVerifies, OneTransport, TransportOK, PayloadWellFormed
<1>7. ASSUME NEW t \in Threads, OpenToSign(t)
      PROVE  IInv'
  <2>1. /\ thread[t].pc = "work" /\ thread[t].op = "sign"
        /\ UNCHANGED <<index, signed, malformed, requests, events>>
        /\ \/ Fail(t) /\ UNCHANGED device
           \/ /\ CanOpen /\ open' = open \cup {t} /\ buffer' \in {<<>>, buffer}
              /\ thread' = [thread EXCEPT ![t].pc = "chunk", ![t].mixed = (buffer' # <<>>)]
              /\ UNCHANGED <<seed, deviceApp>>
    BY <1>7 DEF OpenToSign, Fail
  <2>2. CASE Fail(t) /\ UNCHANGED device
    <3>1. (\A u \in Threads : ThreadOK(u))'
      BY <1>0, <2>2, OthersKeep
    <3>2. Exclusive => t \notin open
      BY <2>1 DEF TransportOK
    <3>3. QED
      BY <1>0, <2>1, <2>2, <3>1, <3>2
         DEF device, RecordIsOwned, SignatureVerifies, OneTransport, TransportOK, PayloadWellFormed
  <2>3. CASE ~(Fail(t) /\ UNCHANGED device)
    <3> DEFINE left == buffer' # <<>>
               w    == [thread[t] EXCEPT !.pc = "chunk", !.mixed = left]
    <3>1. thread[t] \in SignWork
      BY <2>1 DEF Work, Idle, ConnectWork, BindWork, SignWork
    <3>2. thread[t].next = 1 \/ thread[t].next \in Nat \ {0}
      BY <3>1 DEF SignWork
    <3>3. /\ w \in SignWork /\ w.pc = "chunk" /\ w.path = thread[t].path /\ w.key = thread[t].key
          /\ w.next = thread[t].next /\ w.mixed = left
      <4>1. left \in BOOLEAN
        OBVIOUS
      <4> HIDE DEF left
      <4>2. QED
        BY <3>1, <4>1 DEF SignWork
    <3>4. thread' = [thread EXCEPT ![t] = w]
      BY <2>1, <2>3
    <3> HIDE DEF w
    <3>5. ThreadOK(t)' /\ thread' \in [Threads -> Work]
          /\ \A u \in Threads \ {t} : thread'[u] = thread[u]
      BY <3>1, <3>3, <3>4 DEF ThreadOK, Work
    <3>6. (\A u \in Threads : ThreadOK(u))'
      BY <3>5, OthersKeep
    <3>7. Exclusive => open' = {t}
      BY <2>1, <2>3 DEF CanOpen
    <3>8. buffer' \in Seq(Chunks) /\ (~ left => buffer' = <<>>)
      BY <2>1, <2>3, NothingSent
    <3> HIDE DEF left
    <3>9. Exclusive => (OneTransport /\ TransportOK)'
      <4>1. \A tx, path : Prefix(tx, path, 0) = <<>>
        BY DEF Prefix
      <4>2. thread[t].next = 1
        BY <3>1, <2>1 DEF ThreadOK
      <4>3. QED
        BY <2>1, <2>3, <3>3, <3>4, <3>7, <3>8, <4>1, <4>2 DEF OneTransport, TransportOK
    <3>10. QED
      BY <2>1, <2>3, <3>5, <3>6, <3>8, <3>9 DEF RecordIsOwned, SignatureVerifies, PayloadWellFormed
  <2>4. QED
    BY <2>2, <2>3
<1>8. ASSUME NEW t \in Threads, SendChunk(t)
      PROVE  IInv'
  <2>1. /\ thread[t].pc = "chunk"
        /\ UNCHANGED <<index, signed, malformed, requests, events>>
        /\ \/ Fail(t) /\ UNCHANGED device
           \/ /\ t \in open /\ deviceApp = "NEAR" /\ buffer' = Append(buffer, Chunk(thread[t]))
              /\ UNCHANGED <<seed, deviceApp>>
              /\ \/ Fail(t)
                 \/ /\ thread' = [thread EXCEPT ![t].next = @ + 1]
                    /\ UNCHANGED open
    BY <1>8 DEF SendChunk, Fail
  <2>2. CASE Fail(t) /\ UNCHANGED device
    <3>1. (\A u \in Threads : ThreadOK(u))'
      BY <1>0, <2>2, OthersKeep
    <3>2. QED
      BY <1>0, <2>1, <2>2, <3>1
         DEF device, RecordIsOwned, SignatureVerifies, OneTransport, TransportOK, PayloadWellFormed
  <2>5. /\ thread[t] \in SignWork
        /\ buffer' = Append(buffer, Chunk(thread[t])) => buffer' \in Seq(Chunks)
    <3>1. thread[t] \in SignWork
      BY <2>1 DEF Work, Idle, ConnectWork, BindWork, SignWork
    <3>2. Chunk(thread[t]) \in Chunks
      BY <3>1 DEF SignWork, Chunks, Chunk
    <3>3. Append(buffer, Chunk(thread[t])) \in Seq(Chunks)
      BY <3>2
    <3>4. QED
      BY <3>1, <3>3
  <2>4. CASE Fail(t) /\ t \in open /\ buffer' = Append(buffer, Chunk(thread[t]))
             /\ UNCHANGED <<seed, deviceApp>>
    <3>1. (\A u \in Threads : ThreadOK(u))'
      BY <1>0, <2>4, OthersKeep
    <3>2. Exclusive => open' = {}
      BY <1>0, <2>4 DEF OneTransport
    <3>3. QED
      BY <1>0, <2>1, <2>4, <2>5, <3>1, <3>2
         DEF RecordIsOwned, SignatureVerifies, OneTransport, TransportOK, PayloadWellFormed
  <2>3. CASE /\ t \in open /\ deviceApp = "NEAR" /\ buffer' = Append(buffer, Chunk(thread[t]))
             /\ thread' = [thread EXCEPT ![t].next = @ + 1]
             /\ UNCHANGED <<seed, deviceApp, open>>
    <3> DEFINE w == [thread[t] EXCEPT !.next = @ + 1]
    <3>1. thread[t] \in SignWork
      BY <2>1 DEF Work, Idle, ConnectWork, BindWork, SignWork
    <3>2. /\ thread[t].tx \in Txs /\ thread[t].path \in Paths /\ thread[t].next \in Nat \ {0}
          /\ Chunk(thread[t]) \in Chunks
      BY <3>1 DEF SignWork, Chunks, Chunk
    <3>3. /\ w \in SignWork /\ w.pc = "chunk" /\ w.path = thread[t].path /\ w.key = thread[t].key
          /\ w.tx = thread[t].tx /\ w.next = thread[t].next + 1 /\ w.mixed = thread[t].mixed
      <4>1. thread[t].next + 1 \in Nat \ {0}
        BY <3>2
      <4>2. w = [thread[t] EXCEPT !.next = thread[t].next + 1]
        OBVIOUS
      <4>3. QED
        BY <2>1, <3>1, <4>1, <4>2 DEF SignWork
    <3>4. thread' = [thread EXCEPT ![t] = w]
      BY <2>1, <2>3
    <3> HIDE DEF w
    <3>5. ThreadOK(t)' /\ thread' \in [Threads -> Work]
          /\ \A u \in Threads \ {t} : thread'[u] = thread[u]
      BY <3>1, <3>3, <3>4 DEF ThreadOK, Work
    <3>6. (\A u \in Threads : ThreadOK(u))'
      BY <3>5, OthersKeep
    <3>7. buffer' \in Seq(Chunks)
      BY <2>3, <2>5
    <3>8. Exclusive => (OneTransport /\ TransportOK)'
      <4>1. SUFFICES ASSUME Exclusive PROVE (OneTransport /\ TransportOK)'
        OBVIOUS
      <4>2. open = {t} /\ open' = {t} /\ deviceApp' = deviceApp
        BY <2>1, <2>3, <4>1 DEF OneTransport
      <4>4. ASSUME ~ thread[t].mixed PROVE buffer' = Prefix(thread[t].tx, thread[t].path, thread[t].next)
        <5>4. buffer = Prefix(thread[t].tx, thread[t].path, thread[t].next - 1)
          BY <2>1, <2>3, <4>1, <4>2, <4>4 DEF TransportOK
        <5> DEFINE n == thread[t].next - 1
        <5>1. n \in Nat /\ n + 1 = thread[t].next
          BY <3>2
        <5>2. Append(Prefix(thread[t].tx, thread[t].path, n),
                     [tx |-> thread[t].tx, path |-> thread[t].path, part |-> n + 1])
                = Prefix(thread[t].tx, thread[t].path, n + 1)
          <6>1. thread[t].tx \in Txs /\ thread[t].path \in Paths
            BY <3>2
          <6> HIDE DEF n
          <6>2. QED
            BY <5>1, <6>1, AppendToPrefix, Zenon
        <5>3. QED
          BY <2>1, <2>3, <5>1, <5>2, <5>4 DEF Chunk
      <4>5. w.next - 1 = thread[t].next
        BY <3>2, <3>3
      <4>6. QED
        BY <3>3, <3>4, <4>2, <4>4, <4>5 DEF OneTransport, TransportOK
    <3>9. QED
      BY <2>1, <2>3, <3>5, <3>6, <3>7, <3>8 DEF RecordIsOwned, SignatureVerifies, PayloadWellFormed
  <2>6. QED
    BY <2>1, <2>2, <2>3, <2>4
<1>9. ASSUME NEW t \in Threads, SendLastChunk(t)
      PROVE  IInv'
  <2> DEFINE w     == thread[t]
             whole == Append(buffer, Chunk(w))
             decodes == whole = Payload(whole[1].tx, whole[1].path)
             s     == [tx |-> w.tx, key |-> w.key, by |-> KeyOf[seed][whole[1].path],
                       over |-> whole[1].tx, seed |-> seed]
  <2>1. /\ w.pc = "chunk" /\ w.next = Size[w.tx]
        /\ thread' = [thread EXCEPT ![t] = Idle] /\ open' = open \ {t}
        /\ UNCHANGED <<seed, deviceApp, index, requests, events>>
        /\ buffer' \in {buffer, <<>>} /\ (t \notin open => buffer' = buffer)
        /\ \/ malformed' = malformed
           \/ /\ t \in open /\ deviceApp = "NEAR"
              /\ malformed' = (malformed \/ ~ (decodes \/ w.mixed))
        /\ signed' = signed \/ (decodes /\ signed' = signed \cup {s})
    BY <1>9 DEF SendLastChunk, Fail, device
  <2>2. w \in SignWork
    <3>1. w \in Work
      OBVIOUS
    <3> HIDE DEF w
    <3>2. QED
      BY <2>1, <3>1 DEF Work, Idle, ConnectWork, BindWork
  <2>3. /\ w.tx \in Txs /\ w.path \in Paths /\ w.next \in Nat \ {0} /\ Chunk(w) \in Chunks
        /\ Chunk(w).tx = w.tx /\ Chunk(w).path = w.path
    BY <2>2 DEF SignWork, Chunks, Chunk
  <2>4. ThreadOK(t)' /\ thread' \in [Threads -> Work]
        /\ \A u \in Threads \ {t} : thread'[u] = thread[u]
    BY <2>1 DEF ThreadOK, Work, Idle, SignWork
  <2>5. (\A u \in Threads : ThreadOK(u))'
    BY <2>4, OthersKeep
  <2>6. SignatureVerifies'
    <3>1. CASE signed' = signed
      BY <3>1 DEF SignatureVerifies
    <3>2. CASE decodes /\ signed' = signed \cup {s}
      <4>1. whole[1].tx = w.tx /\ whole[1].path = w.path
        BY <2>3, <3>2, DecodedIsOwn
      <4>2. s.over = s.tx /\ s.by = KeyOf[seed][w.path] /\ s.key = w.key /\ s.seed = seed
        BY <4>1
      <4>3. PICK q \in Seeds : KeyOf[q][w.path] = w.key
        BY <2>2 DEF ThreadOK
      <4>4. ASSUME NEW p \in Paths, w.key = KeyOf[seed][p] PROVE s.by = s.key
        BY <2>3, <4>2, <4>3, <4>4
      <4> HIDE DEF s, whole, w
      <4>5. QED
        BY <3>2, <4>2, <4>4 DEF SignatureVerifies
    <3>3. QED
      BY <2>1, <3>1, <3>2
  <2>7. Exclusive => (OneTransport /\ TransportOK /\ PayloadWellFormed)'
    <3>1. SUFFICES ASSUME Exclusive PROVE (OneTransport /\ TransportOK /\ PayloadWellFormed)'
      OBVIOUS
    <3>2. ASSUME t \in open, deviceApp = "NEAR", ~ w.mixed PROVE decodes
      <4>1. buffer = Prefix(w.tx, w.path, w.next - 1)
        BY <3>1, <3>2 DEF TransportOK
      <4>2. PICK n \in Nat : n = w.next - 1 /\ n + 1 = w.next
        BY <2>3
      <4>3. Append(Prefix(w.tx, w.path, n), [tx |-> w.tx, path |-> w.path, part |-> n + 1])
              = Prefix(w.tx, w.path, n + 1)
        <5>1. w.tx \in Txs /\ w.path \in Paths /\ n \in Nat
          BY <2>3
        <5> HIDE DEF w
        <5>2. QED
          BY <5>1, AppendToPrefix, Zenon
      <4>4. whole = Prefix(w.tx, w.path, Size[w.tx])
        BY <2>1, <4>1, <4>2, <4>3 DEF Chunk
      <4>5. whole = Payload(w.tx, w.path)
        BY <2>3, <4>4, PayloadIsPrefix
      <4>6. whole[1] = [tx |-> w.tx, path |-> w.path, part |-> 1]
        BY <2>3, <4>4 DEF Prefix
      <4> HIDE DEF whole, w
      <4>7. QED
        BY <4>5, <4>6
    <3>3. PayloadWellFormed'
      BY <2>1, <3>1, <3>2 DEF PayloadWellFormed
    <3>4. OneTransport'
      BY <2>1, <3>1 DEF OneTransport
    <3>5. TransportOK'
      <4>1. CASE t \in open
        <5>1. open' = {}
          BY <2>1, <3>1, <4>1 DEF OneTransport
        <5>2. QED
          BY <5>1 DEF TransportOK
      <4>2. CASE t \notin open
        <5>1. buffer' = buffer
          BY <2>1, <4>2
        <5>2. QED
          BY <2>1, <2>4, <3>1, <4>2, <5>1 DEF TransportOK
      <4>3. QED
        BY <4>1, <4>2
    <3>6. QED
      BY <3>3, <3>4, <3>5
  <2>8. /\ buffer' \in Seq(Chunks) /\ malformed' \in BOOLEAN
        /\ seed' \in Seeds /\ deviceApp' \in {"BOLOS", "NEAR", "other"}
        /\ requests' \in Nat /\ events' \in Nat /\ open' \subseteq Threads
    <3> HIDE DEF decodes, s
    <3>1. malformed' \in BOOLEAN
      <4>1. malformed \in BOOLEAN /\ (malformed \/ ~ (decodes \/ w.mixed)) \in BOOLEAN
        BY Zenon
      <4>2. QED
        BY <2>1, <4>1, Zenon
    <3>2. buffer' \in Seq(Chunks)
      BY <2>1, NothingSent
    <3>3. QED
      BY <2>1, <3>1, <3>2
  <2>9. RecordIsOwned'
    BY <2>1 DEF RecordIsOwned
  <2>10. TypeOK'
    BY <2>1, <2>4, <2>8
  <2>11. QED
    BY <2>5, <2>6, <2>7, <2>9, <2>10
<1>10. CASE Crash
  <2>1. /\ thread' = [t \in Threads |-> Idle] /\ open' = {} /\ events' \in Nat
        /\ UNCHANGED <<device, index, signed, malformed, requests>>
    BY <1>10 DEF Crash
  <2>2. (\A t \in Threads : ThreadOK(t))'
    BY <2>1 DEF ThreadOK, Idle, SignWork
  <2>3. QED
    BY <2>1, <2>2 DEF device, Work, RecordIsOwned, SignatureVerifies, OneTransport, TransportOK,
       PayloadWellFormed
<1>11. ASSUME \/ \E app \in {"BOLOS", "NEAR", "other"} : UserStarts(app)
              \/ \E q \in Seeds : PlugIn(q)
       PROVE  IInv'
  <2>1. /\ seed' \in Seeds /\ deviceApp' \in {"BOLOS", "NEAR", "other"} /\ buffer' = <<>>
        /\ open' = {} /\ events' \in Nat
        /\ UNCHANGED <<thread, index, signed, malformed, requests>>
    BY <1>11 DEF UserStarts, PlugIn, ChangeApp
  <2>2. (\A t \in Threads : ThreadOK(t))'
    BY <2>1 DEF ThreadOK
  <2>3. QED
    BY <2>1, <2>2 DEF RecordIsOwned, SignatureVerifies, OneTransport, TransportOK, PayloadWellFormed
<1>12. CASE UNCHANGED vars
  BY <1>12 DEF vars, device, ThreadOK, RecordIsOwned, SignatureVerifies, OneTransport, TransportOK,
     PayloadWellFormed
<1>13. QED
  BY <1>1, <1>2, <1>3, <1>4, <1>5, <1>6, <1>7, <1>8, <1>9, <1>10, <1>11, <1>12 DEF Next

\* The inductive invariant holds in every reachable state.
THEOREM InvariantHolds == Spec => []IInv
BY InitInv, StepInv, PTL DEF Spec

\* A record of the hardware wallet index binds a key to an account that has it,
\* at the path it was read from.
THEOREM RecordsOwned == Spec => []RecordIsOwned
BY InvariantHolds, PTL DEF IInv

\* A signature that is answered is over the request's transaction, and by its
\* key if the device is one that has it, also where transports do not exclude
\* each other.
THEOREM SignaturesVerify == Spec => []SignatureVerifies
BY InvariantHolds, PTL DEF IInv

\* Where transports exclude each other, the device is only asked to sign whole
\* transactions, by requests that found or made its buffer empty.
THEOREM PayloadsWhole == ASSUME Exclusive PROVE Spec => []PayloadWellFormed
<1>1. IInv => PayloadWellFormed
  BY DEF IInv
<1>2. QED
  BY <1>1, InvariantHolds, PTL
=============================================================================
