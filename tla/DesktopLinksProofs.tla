------------------------- MODULE DesktopLinksProofs -------------------------
(***************************************************************************)
(* The router's round trip, for every set of tokens and every link: the    *)
(* canonical form of a route parses to that route.  On it rests what the   *)
(* extension's host and nearxd promise about a link they were asked to open*)
(***************************************************************************)
EXTENDS DesktopLinks, SequenceTheorems, TLAPS

PathKinds == {"tx", "block", "account", "key"}
Kinds     == PathKinds \cup {"method", "network"}

LEMMA TheArgKinds ==
    /\ ArgKinds("home") = <<>> /\ ArgKinds("staking") = <<>>
    /\ ArgKinds("tx") = <<"tx">> /\ ArgKinds("block") = <<"block">>
    /\ ArgKinds("account") = <<"account">> /\ ArgKinds("contract") = <<"account">>
    /\ ArgKinds("access-key") = <<"account", "key">>
<1>1. ArgKinds("home") = <<>> /\ ArgKinds("staking") = <<>>
  BY Zenon DEF ArgKinds
<1>2. ArgKinds("tx") = <<"tx">> /\ ArgKinds("block") = <<"block">>
  BY Zenon DEF ArgKinds
<1>3. ArgKinds("account") = <<"account">> /\ ArgKinds("contract") = <<"account">>
  BY Zenon DEF ArgKinds
<1>4. ArgKinds("access-key") = <<"account", "key">>
  BY Zenon DEF ArgKinds
<1>5. QED
  BY <1>1, <1>2, <1>3, <1>4

LEMMA TheOptKeys ==
    /\ OptKeys("home") = {} /\ OptKeys("tx") = {"block", "network"}
    /\ OptKeys("contract") = {"method", "network"}
    /\ OptKeys("staking") = {"account", "network"}
    /\ OptKeys("block") = {"network"} /\ OptKeys("account") = {"network"}
    /\ OptKeys("access-key") = {"network"}
<1>1. OptKeys("home") = {} /\ OptKeys("tx") = {"block", "network"}
  BY Zenon DEF OptKeys
<1>2. OptKeys("contract") = {"method", "network"}
  BY Zenon DEF OptKeys
<1>3. OptKeys("staking") = {"account", "network"}
  BY Zenon DEF OptKeys
<1>4. OptKeys("block") = {"network"} /\ OptKeys("account") = {"network"}
  BY Zenon DEF OptKeys
<1>5. OptKeys("access-key") = {"network"}
  BY Zenon DEF OptKeys
<1>6. QED
  BY <1>1, <1>2, <1>3, <1>4, <1>5

LEMMA TheIdentifiers ==
    ASSUME NEW t
    PROVE  /\ Identifier("tx", t) = Accepted(t, TxHashes)
           /\ Identifier("block", t) = BlockRef[t]
           /\ Identifier("account", t) = Accepted(t, Accounts)
           /\ Identifier("key", t) = Accepted(t, PublicKeys)
           /\ Identifier("method", t) = Accepted(t, Methods)
           /\ Identifier("network", t) = Accepted(Lower[t], Networks)
<1>1. Identifier("tx", t) = Accepted(t, TxHashes)
  BY Zenon DEF Identifier
<1>2. Identifier("block", t) = BlockRef[t]
  BY Zenon DEF Identifier
<1>3. Identifier("account", t) = Accepted(t, Accounts)
  BY Zenon DEF Identifier
<1>4. Identifier("key", t) = Accepted(t, PublicKeys)
  BY Zenon DEF Identifier
<1>5. Identifier("method", t) = Accepted(t, Methods)
  BY Zenon DEF Identifier
<1>6. Identifier("network", t) = Accepted(Lower[t], Networks)
  BY Zenon DEF Identifier
<1>7. QED
  BY <1>1, <1>2, <1>3, <1>4, <1>5, <1>6
-----------------------------------------------------------------------------
\* An identifier as a route holds it: reading it again changes nothing, and
\* one of the path needs no escape.
OptOk(kind, v) == v \in Text /\ v # None /\ Identifier(kind, v) = v
ArgOk(kind, v) == OptOk(kind, v) /\ v \in Raw /\ v # "" /\ Decode[v] = v

LEMMA PlainTokens ==
    ASSUME NEW t \in TxHashes \cup Accounts \cup PublicKeys
    PROVE  t \in Text /\ t # None /\ t \in Raw /\ t # "" /\ Decode[t] = t
<1>1. t \in Text /\ t \in Raw /\ Decode[t] = t
  BY RouterAssumption DEF RouterAssumption
<1>2. None \notin Text /\ "" \notin TxHashes \cup Accounts \cup PublicKeys
  BY RouterAssumption DEF RouterAssumption
<1>3. QED
  BY <1>1, <1>2

LEMMA IdentifierFixed ==
    ASSUME NEW kind \in Kinds, NEW t \in Text, Identifier(kind, t) # None
    PROVE  /\ OptOk(kind, Identifier(kind, t))
           /\ kind \in PathKinds => ArgOk(kind, Identifier(kind, t))
<1>1. CASE kind = "tx"
  BY <1>1, TheIdentifiers, PlainTokens DEF Accepted, OptOk, ArgOk
<1>2. CASE kind = "block"
  <2>1. BlockRef[t] # None /\ Identifier(kind, t) = BlockRef[t]
    BY <1>2, TheIdentifiers
  <2>2. BlockRef[t] \in Text
    BY <2>1, RouterAssumption DEF RouterAssumption
  <2>3. BlockRef[BlockRef[t]] = BlockRef[t] /\ BlockRef[t] \in Raw
    BY <2>1, <2>2, RouterAssumption DEF RouterAssumption
  <2>4. Decode[BlockRef[t]] = BlockRef[t] /\ BlockRef[t] # ""
    BY <2>1, RouterAssumption DEF RouterAssumption
  <2>5. Identifier("block", BlockRef[t]) = BlockRef[t]
    BY <2>3, TheIdentifiers
  <2>6. QED
    BY <1>2, <2>1, <2>2, <2>3, <2>4, <2>5 DEF OptOk, ArgOk
<1>3. CASE kind = "account"
  BY <1>3, TheIdentifiers, PlainTokens DEF Accepted, OptOk, ArgOk
<1>4. CASE kind = "key"
  BY <1>4, TheIdentifiers, PlainTokens DEF Accepted, OptOk, ArgOk
<1>5. CASE kind = "method"
  <2>1. Identifier(kind, t) = t
    BY <1>5, TheIdentifiers DEF Accepted
  <2>2. QED
    BY <1>5, <2>1 DEF OptOk, PathKinds
<1>6. CASE kind = "network"
  <2>1. Lower[t] \in Networks /\ Identifier(kind, t) = Lower[t]
    BY <1>6, TheIdentifiers DEF Accepted
  <2>2. Lower[t] \in Words
    BY <2>1 DEF Words
  <2>3. Lower[t] \in Text /\ Lower[Lower[t]] = Lower[t]
    BY <2>2, RouterAssumption DEF RouterAssumption
  <2>4. Identifier("network", Lower[t]) = Lower[t]
    BY <2>1, <2>3, TheIdentifiers DEF Accepted
  <2>5. QED
    BY <1>6, <2>1, <2>3, <2>4 DEF OptOk, PathKinds
<1>7. QED
  BY <1>1, <1>2, <1>3, <1>4, <1>5, <1>6 DEF Kinds, PathKinds

LEMMA KindsOfPage ==
    ASSUME NEW pg \in Pages
    PROVE  /\ ArgKinds(pg) \in Seq(PathKinds)
           /\ OptKeys(pg) \subseteq Kinds
           /\ \E k \in Kinds : OptKeys(pg) \subseteq {k, "network"}
<1>1. "tx" \in PathKinds /\ "block" \in PathKinds /\ "account" \in PathKinds /\ "key" \in PathKinds
  BY DEF PathKinds
<1>2. "network" \in Kinds /\ "method" \in Kinds /\ PathKinds \subseteq Kinds
  BY DEF Kinds
<1>3. /\ <<>> \in Seq(PathKinds) /\ <<"tx">> \in Seq(PathKinds) /\ <<"block">> \in Seq(PathKinds)
      /\ <<"account">> \in Seq(PathKinds) /\ <<"account", "key">> \in Seq(PathKinds)
  BY <1>1, EmptySeq
<1>4. ArgKinds(pg) \in Seq(PathKinds)
  BY <1>3, TheArgKinds DEF Pages
<1>5. \E k \in Kinds : OptKeys(pg) \subseteq {k, "network"}
  BY <1>1, <1>2, TheOptKeys DEF Pages
<1>6. QED
  BY <1>2, <1>4, <1>5

\* A route as PageRoute makes it, field by field.
Sound(pg, args, opts) ==
    /\ pg \in Pages
    /\ args \in Seq(Text) /\ Len(args) = Len(ArgKinds(pg))
    /\ \A i \in 1..Len(args) : ArgOk(ArgKinds(pg)[i], args[i])
    /\ DOMAIN opts \subseteq OptKeys(pg) /\ opts = [k \in DOMAIN opts |-> opts[k]]
    /\ \A k \in DOMAIN opts : OptOk(k, opts[k])

IsRoute(r) ==
    /\ r = [page |-> r.page, args |-> r.args, opts |-> r.opts]
    /\ Sound(r.page, r.args, r.opts)

\* What PageRoute accepts is a route.
LEMMA PageRouteSound ==
    ASSUME NEW pg, NEW args \in Seq(Text), NEW query,
           \A k \in DOMAIN query : query[k] \in Text,
           PageRoute(pg, args, query) # NoRoute
    PROVE  IsRoute(PageRoute(pg, args, query))
<1> DEFINE A == [i \in DOMAIN args |-> Identifier(ArgKinds(pg)[i], args[i])]
           O == [k \in DOMAIN query |-> Identifier(k, query[k])]
<1>1. /\ pg \in Pages /\ Len(args) = Len(ArgKinds(pg)) /\ DOMAIN query \subseteq OptKeys(pg)
      /\ \A i \in DOMAIN args : Identifier(ArgKinds(pg)[i], args[i]) # None
      /\ \A k \in DOMAIN query : Identifier(k, query[k]) # None
  BY Zenon DEF PageRoute
<1>2. PageRoute(pg, args, query) = [page |-> pg, args |-> A, opts |-> O]
  BY Zenon DEF PageRoute
<1>3. DOMAIN args = 1..Len(args) /\ Len(args) \in Nat /\ \A i \in 1..Len(args) : args[i] \in Text
  OBVIOUS
<1>4. \A i \in 1..Len(args) : ArgKinds(pg)[i] \in PathKinds
  BY <1>1, <1>3, KindsOfPage
<1>5. ASSUME NEW i \in 1..Len(args) PROVE ArgOk(ArgKinds(pg)[i], A[i])
  <2>1. ArgKinds(pg)[i] \in Kinds /\ ArgKinds(pg)[i] \in PathKinds
    BY <1>4 DEF Kinds
  <2>2. Identifier(ArgKinds(pg)[i], args[i]) # None /\ args[i] \in Text
    BY <1>1, <1>3
  <2>3. A[i] = Identifier(ArgKinds(pg)[i], args[i])
    BY <1>3
  <2>4. QED
    BY <2>1, <2>2, <2>3, IdentifierFixed
<1>6. A \in Seq(Text) /\ Len(A) = Len(args)
  <2>1. DOMAIN A = 1..Len(args) /\ A = [i \in 1..Len(args) |-> A[i]]
    BY <1>3
  <2>2. \A i \in 1..Len(args) : A[i] \in Text
    BY <1>5 DEF ArgOk, OptOk
  <2> HIDE DEF A
  <2>3. QED
    BY <1>3, <2>1, <2>2
<1>7. ASSUME NEW k \in DOMAIN query PROVE OptOk(k, O[k])
  <2>1. k \in Kinds
    BY <1>1, KindsOfPage
  <2>2. Identifier(k, query[k]) # None /\ query[k] \in Text
    BY <1>1
  <2>3. O[k] = Identifier(k, query[k])
    OBVIOUS
  <2>4. QED
    BY <2>1, <2>2, <2>3, IdentifierFixed
<1>8. DOMAIN O = DOMAIN query /\ O = [k \in DOMAIN O |-> O[k]]
  OBVIOUS
<1> HIDE DEF A, O
<1>9. Sound(pg, A, O)
  BY <1>1, <1>5, <1>6, <1>7, <1>8 DEF Sound
<1>10. QED
  BY <1>2, <1>9 DEF IsRoute

\* Reading a route's fields again gives the route.
LEMMA PageRouteFixed ==
    ASSUME NEW pg, NEW args, NEW opts, Sound(pg, args, opts)
    PROVE  PageRoute(pg, args, opts) = [page |-> pg, args |-> args, opts |-> opts]
<1>1. DOMAIN args = 1..Len(args) /\ args = [i \in DOMAIN args |-> args[i]]
  BY DEF Sound
<1>2. \A i \in DOMAIN args : /\ Identifier(ArgKinds(pg)[i], args[i]) = args[i]
                             /\ Identifier(ArgKinds(pg)[i], args[i]) # None
  BY <1>1 DEF Sound, ArgOk, OptOk
<1>3. \A k \in DOMAIN opts : Identifier(k, opts[k]) = opts[k] /\ Identifier(k, opts[k]) # None
  BY DEF Sound, OptOk
<1>4. [i \in DOMAIN args |-> Identifier(ArgKinds(pg)[i], args[i])] = args
  BY <1>1, <1>2, Zenon
<1>5. [k \in DOMAIN opts |-> Identifier(k, opts[k])] = opts
  <2>1. opts = [k \in DOMAIN opts |-> opts[k]]
    BY DEF Sound
  <2>2. QED
    BY <1>3, <2>1, Zenon
<1>6. /\ pg \in Pages /\ Len(args) = Len(ArgKinds(pg)) /\ DOMAIN opts \subseteq OptKeys(pg)
  BY DEF Sound
<1>7. QED
  BY <1>2, <1>3, <1>4, <1>5, <1>6, Zenon DEF PageRoute
-----------------------------------------------------------------------------
\* What decode_segments and parse_query_map make of a link.
LEMMA LinkDecodes ==
    ASSUME NEW link \in RawLink, Decodable(link)
    PROVE  /\ Segments(link) \in Seq(Text) /\ Len(Segments(link)) = Len(link.segs)
           /\ \A k \in DOMAIN Query(link) : Query(link)[k] \in Text
<1>1. /\ link.segs \in Seq(Raw) /\ DOMAIN link.segs = 1..Len(link.segs) /\ Len(link.segs) \in Nat
      /\ \A i \in DOMAIN link.segs : link.segs[i] \in Raw
      /\ \A i \in DOMAIN link.pairs : link.pairs[i].value \in Raw
  <2>1. link.segs \in Seq(Raw \ {""}) /\ link.pairs \in Seq([key : Raw, value : Raw])
    BY DEF RawLink
  <2>2. \A i \in DOMAIN link.pairs : link.pairs[i] \in [key : Raw, value : Raw]
    BY <2>1, ElementOfSeq, LenProperties
  <2>3. link.segs \in Seq(Raw)
    BY <2>1, SeqMonotonic
  <2>4. QED
    BY <2>2, <2>3
<1>2. \A r \in Raw : Decode[r] # Undecodable => Decode[r] \in Text
  BY RouterAssumption DEF RouterAssumption
<1>3. \A i \in 1..Len(link.segs) : Decode[link.segs[i]] \in Text
  BY <1>1, <1>2 DEF Decodable
<1>4. Segments(link) \in Seq(Text) /\ Len(Segments(link)) = Len(link.segs)
  BY <1>1, <1>3 DEF Segments
<1>5. ASSUME NEW k \in DOMAIN Query(link) PROVE Query(link)[k] \in Text
  <2> DEFINE j == CHOOSE j \in DOMAIN link.pairs : Decode[link.pairs[j].key] = k
  <2>1. k \in {Decode[link.pairs[i].key] : i \in DOMAIN link.pairs}
    BY <1>5, Zenon DEF Query
  <2>2. j \in DOMAIN link.pairs
    BY <2>1, Zenon
  <2>3. Query(link)[k] = Decode[link.pairs[j].value]
    BY <2>1, Zenon DEF Query
  <2> HIDE DEF j
  <2>4. QED
    BY <1>1, <1>2, <2>2, <2>3 DEF Decodable
<1>6. QED
  BY <1>4, <1>5

\* Whatever the router accepts, canonical or alias, is a route.
LEMMA ParsedIsRoute ==
    ASSUME NEW link \in RawLink, ParseDeepLink(link) # NoRoute
    PROVE  IsRoute(ParseDeepLink(link))
<1> DEFINE segs  == Segments(link)
           query == Query(link)
<1>1. Decodable(link) /\ ParseDeepLink(link) = ParseRoute(segs, query)
  BY Zenon DEF ParseDeepLink
<1>2. segs \in Seq(Text) /\ \A k \in DOMAIN query : query[k] \in Text
  BY <1>1, LinkDecodes
<1> HIDE DEF segs, query
<1>3. segs # <<>>
  BY <1>1, Zenon DEF ParseRoute
<1>4. CASE Lower[segs[1]] = "v1"
  <2>1. ParseRoute(segs, query) = ParseCanonical(segs, query)
    BY <1>3, <1>4, Zenon DEF ParseRoute
  <2>2. CASE Len(segs) = 1
    <3>1. ParseDeepLink(link) = PageRoute("home", <<>>, query)
      BY <1>1, <2>1, <2>2, Zenon DEF ParseCanonical
    <3>2. <<>> \in Seq(Text)
      BY EmptySeq
    <3>3. QED
      BY <1>2, <3>1, <3>2, PageRouteSound
  <2>3. CASE Len(segs) # 1
    <3>1. ParseDeepLink(link) = PageRoute(Lower[segs[2]], SubSeq(segs, 3, Len(segs)), query)
      BY <1>1, <2>1, <2>3, Zenon DEF ParseCanonical
    <3>2. SubSeq(segs, 3, Len(segs)) \in Seq(Text)
      BY <1>2
    <3>3. QED
      BY <1>2, <3>1, <3>2, PageRouteSound
  <2>4. QED
    BY <2>2, <2>3
<1>5. CASE Lower[segs[1]] # "v1"
  <2>1. ParseDeepLink(link) = ParseAlias(segs, query)
    BY <1>1, <1>3, <1>5, Zenon DEF ParseRoute
  <2>2. CASE Lower[segs[1]] = "tx" /\ Len(segs) = 3
    <3> DEFINE q == [k \in DOMAIN query \cup {"block"} |-> IF k = "block" THEN segs[2] ELSE query[k]]
    <3>1. ParseDeepLink(link) = PageRoute("tx", <<segs[3]>>, q)
      BY <2>1, <2>2, Zenon DEF ParseAlias
    <3>2. segs[2] \in Text /\ segs[3] \in Text
      BY <1>2, <2>2
    <3>3. <<segs[3]>> \in Seq(Text) /\ \A k \in DOMAIN q : q[k] \in Text
      BY <1>2, <3>2
    <3> HIDE DEF q
    <3>4. QED
      BY <3>1, <3>3, PageRouteSound
  <2>3. CASE ~ (Lower[segs[1]] = "tx" /\ Len(segs) = 3)
    <3>1. ParseDeepLink(link) = PageRoute(Lower[segs[1]], SubSeq(segs, 2, Len(segs)), query)
      BY <2>1, <2>3, Zenon DEF ParseAlias
    <3>2. SubSeq(segs, 2, Len(segs)) \in Seq(Text)
      BY <1>2
    <3>3. QED
      BY <1>2, <3>1, <3>2, PageRouteSound
  <2>4. QED
    BY <2>2, <2>3
<1>6. QED
  BY <1>4, <1>5

-----------------------------------------------------------------------------
LEMMA TwoParts ==
    ASSUME NEW a, NEW b
    PROVE  <<a>> \o <<b>> = <<a, b>>
<1> DEFINE S == {a, b}
           s == <<a>>
           t == <<b>>
           u == <<a, b>>
<1>1. s \in Seq(S) /\ t \in Seq(S) /\ u \in Seq(S)
  OBVIOUS
<1>2. Len(s) = 1 /\ Len(t) = 1 /\ Len(u) = 2 /\ s[1] = a /\ t[1] = b /\ u[1] = a /\ u[2] = b
  OBVIOUS
<1> HIDE DEF s, t, u, S
<1>3. /\ s \o t \in Seq(S) /\ Len(s \o t) = Len(s) + Len(t)
      /\ \A i \in 1..Len(s) + Len(t) : (s \o t)[i] = IF i <= Len(s) THEN s[i] ELSE t[i - Len(s)]
  BY <1>1, ConcatProperties
<1>4. s \o t = u
  BY <1>1, <1>2, <1>3, SeqEqual
<1>5. QED
  BY <1>4 DEF s, t, u

\* The query that CanonicalUri writes has each option once.
LEMMA CanonicalPairs ==
    ASSUME NEW r, IsRoute(r)
    PROVE  LET pairs == CanonicalUri(r).pairs
           IN  /\ pairs \in Seq([key : Raw, value : Raw])
               /\ \A i \in DOMAIN pairs : /\ pairs[i].key \in DOMAIN r.opts
                                          /\ Decode[pairs[i].key] = pairs[i].key
                                          /\ Decode[pairs[i].value] = r.opts[pairs[i].key]
               /\ \A i, j \in DOMAIN pairs : pairs[i].key = pairs[j].key => i = j
               /\ \A k \in DOMAIN r.opts : \E i \in DOMAIN pairs : pairs[i].key = k
<1> DEFINE pair(k) == [key |-> k, value |-> Encode[r.opts[k]]]
           others  == DOMAIN r.opts \ {"network"}
           o       == CHOOSE k \in others : TRUE
           fst     == IF others = {} THEN <<>> ELSE <<pair(o)>>
           rest    == IF "network" \in DOMAIN r.opts THEN <<pair("network")>> ELSE <<>>
           ps      == fst \o rest
<1>1. CanonicalUri(r).pairs = ps
  BY DEF CanonicalUri
<1>2. r.page \in Pages /\ DOMAIN r.opts \subseteq OptKeys(r.page)
  BY DEF IsRoute, Sound
<1>3. \A k \in DOMAIN r.opts : k \in Words /\ r.opts[k] \in Text
  <2>1. \A k \in OptKeys(r.page) : k \in Words
    BY <1>2, TheOptKeys DEF Words, Pages
  <2>2. QED
    BY <1>2, <2>1 DEF IsRoute, Sound, OptOk
<1>4. \A k \in DOMAIN r.opts : /\ pair(k) \in [key : Raw, value : Raw]
                               /\ pair(k).key = k /\ Decode[k] = k
                               /\ Decode[pair(k).value] = r.opts[k]
  <2> SUFFICES ASSUME NEW k \in DOMAIN r.opts
               PROVE  /\ k \in Raw /\ Decode[k] = k /\ Encode[r.opts[k]] \in Raw
                      /\ Decode[Encode[r.opts[k]]] = r.opts[k]
    OBVIOUS
  <2>1. k \in Words /\ r.opts[k] \in Text
    BY <1>3
  <2>2. k \in Raw /\ Decode[k] = k
    BY <2>1, RouterAssumption DEF RouterAssumption
  <2>3. Encode[r.opts[k]] \in Raw /\ Decode[Encode[r.opts[k]]] = r.opts[k]
    BY <2>1, RouterAssumption DEF RouterAssumption
  <2>4. QED
    BY <2>2, <2>3
<1>5. others # {} => o \in others /\ others = {o}
  <2>1. PICK k \in Kinds : OptKeys(r.page) \subseteq {k, "network"}
    BY <1>2, KindsOfPage
  <2>2. others \subseteq {k}
    BY <1>2, <2>1
  <2>3. others # {} => o \in others
    BY Zenon
  <2> HIDE DEF o, others
  <2>4. QED
    BY <2>2, <2>3
<1>6. o # "network" \/ others = {}
  BY <1>5
<1>7. DOMAIN r.opts = others \cup ({"network"} \cap DOMAIN r.opts)
  OBVIOUS
<1> HIDE DEF pair, o, others
<1>8. CASE others = {} /\ "network" \notin DOMAIN r.opts
  <2>1. ps = <<>>
    BY <1>8
  <2>2. DOMAIN r.opts = {}
    BY <1>7, <1>8
  <2>3. <<>> \in Seq([key : Raw, value : Raw]) /\ DOMAIN <<>> = {}
    BY EmptySeq
  <2> HIDE DEF ps
  <2>4. QED
    BY <1>1, <2>1, <2>2, <2>3
<1>9. CASE others = {} /\ "network" \in DOMAIN r.opts
  <2>1. ps = <<pair("network")>>
    BY <1>9
  <2>2. DOMAIN r.opts = {"network"}
    BY <1>7, <1>9
  <2> HIDE DEF ps
  <2>3. QED
    BY <1>1, <1>4, <2>1, <2>2
<1>10. CASE others # {} /\ "network" \notin DOMAIN r.opts
  <2>1. ps = <<pair(o)>>
    BY <1>10
  <2>2. DOMAIN r.opts = {o}
    BY <1>5, <1>7, <1>10
  <2> HIDE DEF ps
  <2>3. QED
    BY <1>1, <1>4, <2>1, <2>2
<1>11. CASE others # {} /\ "network" \in DOMAIN r.opts
  <2>1. ps = <<pair(o)>> \o <<pair("network")>>
    BY <1>11
  <2>3. ps = <<pair(o), pair("network")>>
    BY <2>1, TwoParts
  <2>2. DOMAIN r.opts = {o, "network"} /\ o # "network"
    BY <1>5, <1>6, <1>7, <1>11
  <2> HIDE DEF ps
  <2>4. QED
    BY <1>1, <1>4, <2>2, <2>3
<1>12. QED
  BY <1>8, <1>9, <1>10, <1>11

LEMMA SeqRetype ==
    ASSUME NEW S, NEW T, NEW s \in Seq(S), \A i \in 1..Len(s) : s[i] \in T
    PROVE  s \in Seq(T)
<1>1. s \in [1..Len(s) -> S] /\ Len(s) \in Nat
  BY LenProperties
<1>2. s \in [1..Len(s) -> T]
  BY <1>1
<1>3. QED
  BY <1>1, <1>2, SeqDef

\* The path that CanonicalUri writes, segment by segment.
LEMMA CanonicalSegments ==
    ASSUME NEW r, IsRoute(r)
    PROVE  LET segs == CanonicalUri(r).segs
           IN  /\ segs \in Seq(Raw \ {""}) /\ segs \in Seq(Text)
               /\ \A i \in 1..Len(segs) : Decode[segs[i]] = segs[i]
               /\ Len(segs) = Len(r.args) + 2 /\ Len(r.args) \in Nat
               /\ segs[1] = "v1" /\ segs[2] = r.page
               /\ SubSeq(segs, 3, Len(segs)) = r.args
<1> DEFINE head == <<"v1", r.page>>
           segs == head \o r.args
           S    == {t \in Text \cap Raw : t # "" /\ Decode[t] = t}
<1>1. CanonicalUri(r).segs = segs
  BY DEF CanonicalUri
<1>2. "v1" \in S /\ r.page \in S
  <2>1. r.page \in Words /\ "v1" \in Words /\ "v1" # "" /\ r.page # ""
    BY DEF IsRoute, Sound, Words, Pages
  <2>2. \A t \in Words : t \in Text /\ t \in Raw /\ Decode[t] = t
    BY RouterAssumption DEF RouterAssumption
  <2>3. QED
    BY <2>1, <2>2
<1>3. r.args \in Seq(Text) /\ \A i \in 1..Len(r.args) : r.args[i] \in S
  BY DEF IsRoute, Sound, ArgOk, OptOk
<1>4. Len(r.args) \in Nat /\ r.args \in Seq(S)
  <2> HIDE DEF S
  <2>1. QED
    BY <1>3, LenProperties, SeqRetype
<1>5. head \in Seq(S) /\ Len(head) = 2 /\ head[1] = "v1" /\ head[2] = r.page
  <2> HIDE DEF S
  <2>1. QED
    BY <1>2
<1> HIDE DEF head, S
<1>6. /\ segs \in Seq(S) /\ Len(segs) = 2 + Len(r.args)
      /\ \A i \in 1..2 + Len(r.args) : segs[i] = IF i <= 2 THEN head[i] ELSE r.args[i - 2]
  <2>1. /\ segs \in Seq(S) /\ Len(segs) = Len(head) + Len(r.args)
        /\ \A i \in 1..Len(head) + Len(r.args) :
              segs[i] = IF i <= Len(head) THEN head[i] ELSE r.args[i - Len(head)]
    BY <1>4, <1>5, ConcatProperties
  <2>2. QED
    BY <1>5, <2>1
<1> HIDE DEF segs
<1>7. segs[1] = "v1" /\ segs[2] = r.page
  BY <1>4, <1>5, <1>6
<1>8. SubSeq(segs, 3, Len(segs)) = r.args
  <2>1. \A i \in 3..Len(segs) : segs[i] \in S
    BY <1>4, <1>6, ElementOfSeq
  <2>2. /\ SubSeq(segs, 3, Len(segs)) \in Seq(S)
        /\ Len(SubSeq(segs, 3, Len(segs))) = Len(r.args)
        /\ \A i \in 1..Len(segs) - 3 + 1 : SubSeq(segs, 3, Len(segs))[i] = segs[3 + i - 1]
    BY <1>4, <1>6, <2>1, SubSeqProperties
  <2>3. ASSUME NEW i \in 1..Len(r.args) PROVE SubSeq(segs, 3, Len(segs))[i] = r.args[i]
    BY <1>4, <1>6, <2>2
  <2>4. QED
    BY <1>4, <2>2, <2>3, SeqEqual
<1>9. S \subseteq Raw \ {""} /\ S \subseteq Text /\ \A t \in S : Decode[t] = t
  BY DEF S
<1>10. segs \in Seq(Raw \ {""}) /\ segs \in Seq(Text)
  BY <1>6, <1>9, SeqMonotonic
<1>11. \A i \in 1..Len(segs) : Decode[segs[i]] = segs[i]
  BY <1>6, <1>9, ElementOfSeq
<1>12. Len(segs) = Len(r.args) + 2
  BY <1>4, <1>6
<1>13. QED
  BY <1>1, <1>4, <1>7, <1>8, <1>10, <1>11, <1>12

\* A canonical link parses to its route.
LEMMA CanonicalParses ==
    ASSUME NEW r, IsRoute(r)
    PROVE  ParseDeepLink(CanonicalUri(r)) = r /\ CanonicalUri(r) \in RawLink
<1> DEFINE link  == CanonicalUri(r)
           segs  == link.segs
           pairs == link.pairs
<1>1. link.scheme = "nearx" /\ link = [scheme |-> "nearx", slashes |-> 2, segs |-> segs, pairs |-> pairs]
  BY DEF CanonicalUri
<1>2. /\ segs \in Seq(Raw \ {""}) /\ segs \in Seq(Text)
      /\ \A i \in 1..Len(segs) : Decode[segs[i]] = segs[i]
      /\ Len(segs) = Len(r.args) + 2 /\ Len(r.args) \in Nat
      /\ segs[1] = "v1" /\ segs[2] = r.page
      /\ SubSeq(segs, 3, Len(segs)) = r.args
  BY CanonicalSegments
<1>3. /\ pairs \in Seq([key : Raw, value : Raw])
      /\ \A i \in DOMAIN pairs : /\ pairs[i].key \in DOMAIN r.opts
                                 /\ Decode[pairs[i].key] = pairs[i].key
                                 /\ Decode[pairs[i].value] = r.opts[pairs[i].key]
      /\ \A i, j \in DOMAIN pairs : pairs[i].key = pairs[j].key => i = j
      /\ \A k \in DOMAIN r.opts : \E i \in DOMAIN pairs : pairs[i].key = k
  BY CanonicalPairs
<1> HIDE DEF segs, pairs
<1>4. link \in RawLink
  <2> HIDE DEF link
  <2>1. "nearx" \in Schemes
    BY DEF Schemes
  <2>2. 2 \in 0..3
    OBVIOUS
  <2>3. QED
    BY <1>1, <1>2, <1>3, <2>1, <2>2 DEF RawLink
<1> SUFFICES ParseDeepLink(link) = r
  BY <1>4
<1>5. link.segs = segs /\ link.pairs = pairs
  BY DEF segs, pairs
<1> HIDE DEF link
<1>6. Undecodable \notin Text
  BY RouterAssumption DEF RouterAssumption
<1>7. Segments(link) = segs
  <2>1. segs = [i \in DOMAIN segs |-> segs[i]] /\ DOMAIN segs = 1..Len(segs)
    BY <1>2, LenProperties
  <2>2. \A i \in DOMAIN segs : Decode[segs[i]] = segs[i]
    BY <1>2, <2>1
  <2>3. QED
    BY <1>5, <2>1, <2>2, Zenon DEF Segments
<1>8. Query(link) = r.opts
  <2>1. {Decode[pairs[i].key] : i \in DOMAIN pairs} = DOMAIN r.opts
    BY <1>3
  <2>2. ASSUME NEW k \in DOMAIN r.opts
        PROVE  Decode[pairs[CHOOSE j \in DOMAIN pairs : Decode[pairs[j].key] = k].value] = r.opts[k]
    <3> DEFINE j == CHOOSE j \in DOMAIN pairs : Decode[pairs[j].key] = k
    <3>1. \E i \in DOMAIN pairs : Decode[pairs[i].key] = k
      BY <1>3
    <3>2. j \in DOMAIN pairs /\ Decode[pairs[j].key] = k
      BY <3>1, Zenon
    <3> HIDE DEF j
    <3>3. Decode[pairs[j].value] = r.opts[k]
      BY <1>3, <3>2
    <3>4. QED
      BY <3>3 DEF j
  <2>3. r.opts = [k \in DOMAIN r.opts |-> r.opts[k]]
    BY DEF IsRoute, Sound
  <2>4. Query(link) = [k \in DOMAIN r.opts |->
                          Decode[pairs[CHOOSE j \in DOMAIN pairs : Decode[pairs[j].key] = k].value]]
    <3>1. Query(link) = [k \in {Decode[pairs[i].key] : i \in DOMAIN pairs} |->
                          Decode[pairs[CHOOSE j \in DOMAIN pairs : Decode[pairs[j].key] = k].value]]
      BY <1>5 DEF Query
    <3>2. QED
      BY <2>1, <3>1
  <2>5. QED
    BY <2>2, <2>3, <2>4, Zenon
<1>9. Decodable(link)
  <2>1. \A i \in DOMAIN segs : Decode[segs[i]] \in Text
    BY <1>2, LenProperties, ElementOfSeq
  <2>2. \A k \in DOMAIN r.opts : k \in Text /\ r.opts[k] \in Text
    <3>1. \A k \in OptKeys(r.page) : k \in Words
      BY TheOptKeys DEF IsRoute, Sound, Words, Pages
    <3>2. QED
      BY <3>1, RouterAssumption DEF IsRoute, Sound, OptOk, RouterAssumption
  <2>3. QED
    BY <1>3, <1>5, <1>6, <2>1, <2>2 DEF Decodable
<1>10. KeysOnce(link)
  BY <1>3, <1>5 DEF KeysOnce
<1>11. ParseDeepLink(link) = ParseRoute(segs, r.opts)
  <2>1. link.scheme \in Schemes
    BY <1>1 DEF Schemes
  <2>2. QED
    BY <1>7, <1>8, <1>9, <1>10, <2>1, Zenon DEF ParseDeepLink
<1>12. Lower["v1"] = "v1" /\ Lower[r.page] = r.page
  BY RouterAssumption DEF RouterAssumption, IsRoute, Sound, Words
<1>13. segs # <<>> /\ Len(segs) # 1
  <2>1. Len(segs) = Len(r.args) + 2 /\ Len(r.args) \in Nat
    BY <1>2
  <2>2. Len(<<>>) = 0
    BY EmptySeq
  <2>3. Len(segs) # 1 /\ Len(segs) # 0
    BY <2>1
  <2>4. QED
    BY <2>2, <2>3
<1>14. ParseRoute(segs, r.opts) = ParseCanonical(segs, r.opts)
  BY <1>2, <1>12, <1>13, Zenon DEF ParseRoute
<1>15. ParseCanonical(segs, r.opts) = PageRoute(r.page, r.args, r.opts)
  BY <1>2, <1>12, <1>13, Zenon DEF ParseCanonical
<1>16. QED
  BY <1>11, <1>14, <1>15, PageRouteFixed DEF IsRoute

\* canonicalize(parse(link)): whatever the router accepts, in either form and
\* in any spelling, the canonical URI it writes parses to the same route
\* (src/router.rs; its round-trip tests try a few links).
THEOREM RoundTrip ==
    ASSUME NEW link \in RawLink, ParseDeepLink(link) # NoRoute
    PROVE  /\ ParseDeepLink(CanonicalUri(ParseDeepLink(link))) = ParseDeepLink(link)
           /\ CanonicalUri(ParseDeepLink(link)) \in RawLink
<1>1. QED
  BY ParsedIsRoute, CanonicalParses
-----------------------------------------------------------------------------
Blank == ""

PageOK(p) == p.page \in {"tx", "block", "account"} => p.arg # Blank

LEMMA FixedPages == PageOK(NoPage) /\ PageOK(HomePage)
<1>1. NoPage.page = "none" /\ HomePage.page = "home"
  BY Zenon DEF NoPage, HomePage
<1>2. QED
  BY <1>1 DEF PageOK

\* The front end's own parser makes no page with an empty argument: its
\* argument is the second part of the URL or a later one, and so a segment.
LEMMA MappedPageOK ==
    ASSUME NEW link \in RawLink
    PROVE  PageOK(MapToPage(link))
<1> DEFINE S     == Text \cup {Undecodable}
           segs  == [i \in DOMAIN link.segs |-> Decode[link.segs[i]]]
           parts == UrlParts(link)
           base  == IF parts # <<>> /\ parts[1] = "v1" THEN 1 ELSE 0
           rest  == Len(parts) - base
<1>1. link.segs \in Seq(Raw \ {Blank})
  BY Zenon DEF RawLink, Blank
<1>2. /\ DOMAIN link.segs = 1..Len(link.segs) /\ Len(link.segs) \in Nat
      /\ \A i \in 1..Len(link.segs) : link.segs[i] \in Raw \ {Blank}
  BY <1>1, LenProperties, ElementOfSeq
<1>3. \A r \in Raw \ {Blank} : Decode[r] \in S /\ Decode[r] # Blank
  <2>1. \A r \in Raw : Decode[r] = Blank => r = Blank
    BY RouterAssumption, Zenon DEF RouterAssumption, Blank
  <2>2. \A r \in Raw : Decode[r] \in S
    BY RouterAssumption DEF RouterAssumption
  <2>3. QED
    BY <2>1, <2>2
<1>4. segs \in Seq(S) /\ Len(segs) = Len(link.segs) /\ \A i \in 1..Len(segs) : segs[i] # Blank
  <2> HIDE DEF S
  <2>1. QED
    BY <1>2, <1>3
<1>5. Blank \in S
  BY JsAssumption, Zenon DEF JsAssumption, Blank
<1> HIDE DEF S, segs
<1>6. <<Blank>> \in Seq(S) /\ Len(<<Blank>>) = 1
  BY <1>5
<1>7. parts = IF link.slashes = 2 THEN segs ELSE <<Blank>> \o segs
  BY Zenon DEF UrlParts, segs, Blank
<1>8. Len(parts) \in Nat /\ \A i \in 2..Len(parts) : parts[i] # Blank
  <2>1. CASE link.slashes = 2
    BY <1>4, <1>7, <2>1
  <2>2. CASE link.slashes # 2
    <3>1. /\ Len(parts) = Len(<<Blank>>) + Len(segs)
          /\ \A i \in 1..Len(<<Blank>>) + Len(segs) :
                parts[i] = IF i <= Len(<<Blank>>) THEN <<Blank>>[i] ELSE segs[i - Len(<<Blank>>)]
      BY <1>4, <1>6, <1>7, <2>2, ConcatProperties
    <3>2. Len(segs) \in Nat /\ Len(parts) = 1 + Len(segs)
      BY <1>4, <1>6, <3>1
    <3>3. ASSUME NEW i \in 2..Len(parts) PROVE parts[i] # Blank
      <4>1. i \in 1..Len(<<Blank>>) + Len(segs) /\ ~ (i <= Len(<<Blank>>)) /\ i - Len(<<Blank>>) \in 1..Len(segs)
        BY <1>6, <3>2
      <4>2. parts[i] = segs[i - Len(<<Blank>>)]
        BY <3>1, <4>1
      <4>3. QED
        BY <1>4, <4>1, <4>2
    <3>4. QED
      BY <3>2, <3>3
  <2>3. QED
    BY <2>1, <2>2
<1> HIDE DEF parts
<1>9. base \in {0, 1}
  OBVIOUS
<1> HIDE DEF base
<1>10. rest = 2 => base + 2 \in 2..Len(parts)
  BY <1>8, <1>9
<1> HIDE DEF rest
<1>11. \/ MapToPage(link) \in {NoPage, HomePage}
       \/ rest = 2 /\ MapToPage(link) = [page |-> parts[base + 1], arg |-> parts[base + 2]]
       \/ MapToPage(link) = [page |-> "staking", arg |-> AccountParam(link)]
  BY Zenon DEF MapToPage, parts, base, rest
<1>12. CASE MapToPage(link) \in {NoPage, HomePage}
  BY <1>12, FixedPages
<1>13. CASE rest = 2 /\ MapToPage(link) = [page |-> parts[base + 1], arg |-> parts[base + 2]]
  BY <1>8, <1>10, <1>13 DEF PageOK
<1>14. CASE MapToPage(link) = [page |-> "staking", arg |-> AccountParam(link)]
  BY <1>14 DEF PageOK
<1>15. QED
  BY <1>11, <1>12, <1>13, <1>14

-----------------------------------------------------------------------------
(***************************************************************************)
(* The two parsers agree: what the front end makes of a link that the      *)
(* router accepts is the page of its route, or home.                       *)
(***************************************************************************)

\* The page that Show shows.
Shown(p) == IF p = NoPage THEN HomePage ELSE p

ArgPages == {"tx", "block", "account"}

\* A plainly spelled link, part by part.
LEMMA PlainParts ==
    ASSUME NEW link \in RawLink, ParseDeepLink(link) # NoRoute,
           Plain(link, ParseDeepLink(link))
    PROVE  LET S == Segments(link)
               route == ParseDeepLink(link)
               n == Len(ArgKinds(route.page))
           IN  /\ Has(route) /\ link.scheme \in {"nearx", "near"} /\ link.slashes = 2
               /\ \/ S[1] = route.page /\ Len(S) = n + 1
                  \/ S[1] = "v1" /\ S[2] = route.page /\ Len(S) = n + 2
<1> DEFINE route == ParseDeepLink(link)
           S == Segments(link)
           n == Len(route.args)
<1>1. Decodable(link) /\ IsRoute(route)
  BY ParsedIsRoute, Zenon DEF ParseDeepLink
<1>2. n = Len(ArgKinds(route.page)) /\ n \in Nat
  <2>1. n = Len(ArgKinds(route.page)) /\ route.args \in Seq(Text)
    BY <1>1 DEF IsRoute, Sound
  <2> HIDE DEF route
  <2>2. QED
    BY <2>1, LenProperties
<1>3. S \in Seq(Text) /\ Len(S) = Len(link.segs) /\ Len(S) \in Nat
  <2>1. S \in Seq(Text) /\ Len(S) = Len(link.segs)
    BY <1>1, LinkDecodes
  <2> HIDE DEF S
  <2>2. QED
    BY <2>1, LenProperties
<1>4. /\ Has(route) /\ link.scheme \in {"nearx", "near"} /\ link.slashes = 2
      /\ SubSeq(S, 1, Len(S) - n) \in {<<route.page>>, <<"v1", route.page>>}
  <2>1. Len(link.segs) - n = Len(S) - n
    BY <1>3
  <2>2. /\ Has(route) /\ link.scheme \in {"nearx", "near"} /\ link.slashes = 2
        /\ SubSeq(S, 1, Len(link.segs) - n) \in {<<route.page>>, <<"v1", route.page>>}
    BY Zenon DEF Plain
  <2>3. QED
    BY <2>1, <2>2
<1> DEFINE pg == route.page
           m == Len(S) - n
<1> HIDE DEF S, n, route
<1>5. \/ S[1] = pg /\ Len(S) = n + 1
      \/ S[1] = "v1" /\ S[2] = pg /\ Len(S) = n + 2
  <2>1. m \in Int /\ m <= Len(S)
    <3>1. n \in Nat /\ Len(S) \in Nat
      BY <1>2, <1>3
    <3>2. \A x, y \in Nat : x - y \in Int /\ x - y <= x
      OBVIOUS
    <3>3. QED
      BY <3>1, <3>2, Zenon DEF m
  <2> DEFINE T == SubSeq(S, 1, m)
  <2>2. T \in {<<pg>>, <<"v1", pg>>}
    BY <1>4
  <2> HIDE DEF pg, m
  <2>3. /\ Len(T) = IF 1 <= m THEN m ELSE 0
        /\ \A i \in 1..m : T[i] = S[i]
    BY <1>3, <2>1
  <2> HIDE DEF T
  <2>4. CASE T = <<pg>>
    <3>1. Len(T) = 1 /\ T[1] = pg
      BY <2>4
    <3>2. m = 1
      BY <2>1, <2>3, <3>1
    <3>3. S[1] = pg
      BY <2>3, <3>1, <3>2
    <3>4. QED
      BY <1>2, <1>3, <3>2, <3>3 DEF m
  <2>5. CASE T = <<"v1", pg>>
    <3>1. Len(T) = 2 /\ T[1] = "v1" /\ T[2] = pg
      BY <2>5
    <3> DEFINE l == Len(T)
    <3>2. m = 2
      <4>1. l = 2 /\ l = IF 1 <= m THEN m ELSE 0
        BY <2>3, <3>1
      <4> HIDE DEF l
      <4>2. QED
        BY <2>1, <4>1
    <3>3. S[1] = "v1" /\ S[2] = pg
      BY <2>3, <3>1, <3>2
    <3>4. QED
      BY <1>2, <1>3, <3>2, <3>3 DEF m
  <2>6. QED
    BY <2>2, <2>4, <2>5
<1>6. QED
  BY <1>2, <1>4, <1>5 DEF S, n, route, pg

\* The page of a route, by kind.
LEMMA TheRoutePages ==
    ASSUME NEW route
    PROVE  /\ route.page = "home" => RoutePage(route) = HomePage
           /\ route.page = "staking" /\ "account" \in DOMAIN route.opts
              => RoutePage(route) = [page |-> "staking", arg |-> route.opts["account"]]
           /\ route.page = "staking" /\ "account" \notin DOMAIN route.opts
              => RoutePage(route) = [page |-> "staking", arg |-> Blank]
           /\ route.page \in ArgPages
              => RoutePage(route) = [page |-> route.page, arg |-> route.args[1]]
<1>1. CASE route.page = "home"
  <2>1. route.page # "staking" /\ route.page \notin ArgPages
    BY <1>1 DEF ArgPages
  <2>2. RoutePage(route) = HomePage
    BY <1>1, <2>1, Zenon DEF RoutePage
  <2>3. QED
    BY <1>1, <2>1, <2>2
<1>2. CASE route.page = "staking"
  <2>1. route.page # "home" /\ route.page \notin ArgPages
    BY <1>2 DEF ArgPages
  <2>2. RoutePage(route) = [page |-> "staking",
                            arg |-> IF "account" \in DOMAIN route.opts
                                    THEN route.opts["account"] ELSE Blank]
    BY <1>2, <2>1, Zenon DEF RoutePage, Blank
  <2>3. QED
    BY <2>1, <2>2
<1>3. CASE route.page \in ArgPages
  <2>1. route.page # "home" /\ route.page # "staking"
    BY <1>3 DEF ArgPages
  <2>2. RoutePage(route) = [page |-> route.page, arg |-> route.args[1]]
    BY <2>1, Zenon DEF RoutePage
  <2>3. QED
    BY <2>1, <2>2
<1>4. QED
  BY <1>1, <1>2, <1>3

\* A route to a page with one argument.
LEMMA ArgPage ==
    ASSUME NEW pg \in ArgPages, NEW args \in Seq(Text), NEW query, NEW route,
           route = PageRoute(pg, args, query), route # NoRoute
    PROVE  /\ Len(args) = 1 /\ route.page = pg
           /\ RoutePage(route).page = pg
           /\ pg = "block" => RoutePage(route).arg = BlockRef[args[1]]
           /\ pg # "block" => RoutePage(route) = [page |-> pg, arg |-> args[1]]
<1> DEFINE A == [i \in DOMAIN args |-> Identifier(ArgKinds(pg)[i], args[i])]
           O == [k \in DOMAIN query |-> Identifier(k, query[k])]
<1>1. /\ Len(args) = Len(ArgKinds(pg))
      /\ \A i \in DOMAIN args : Identifier(ArgKinds(pg)[i], args[i]) # None
  BY Zenon DEF PageRoute
<1>2. route = [page |-> pg, args |-> A, opts |-> O]
  BY Zenon DEF PageRoute
<1>3. ArgKinds(pg) = <<pg>>
  BY TheArgKinds DEF ArgPages
<1>4. Len(args) = 1 /\ DOMAIN args = 1..1 /\ ArgKinds(pg)[1] = pg
  BY <1>1, <1>3
<1>5. A[1] = Identifier(pg, args[1]) /\ A[1] # None
  BY <1>1, <1>4
<1> HIDE DEF A, O
<1>6. route.page = pg /\ route.args[1] = A[1]
  BY <1>2
<1>7. RoutePage(route) = [page |-> pg, arg |-> A[1]]
  BY <1>6, TheRoutePages
<1>8. /\ pg = "block" => A[1] = BlockRef[args[1]]
      /\ pg # "block" => A[1] = args[1]
  BY <1>5, TheIdentifiers DEF ArgPages, Accepted
<1>9. QED
  BY <1>4, <1>6, <1>7, <1>8

\* A route to the staking page: both parsers take its account from the query.
LEMMA StakingPage ==
    ASSUME NEW link \in RawLink, KeysOnce(link), NEW args \in Seq(Text), NEW route,
           route = PageRoute("staking", args, Query(link)), route # NoRoute
    PROVE  /\ Len(args) = 0 /\ route.page = "staking"
           /\ RoutePage(route) = [page |-> "staking", arg |-> AccountParam(link)]
<1> DEFINE A == [i \in DOMAIN args |-> Identifier(ArgKinds("staking")[i], args[i])]
           Q == Query(link)
           O == [k \in DOMAIN Q |-> Identifier(k, Q[k])]
           hits == {i \in DOMAIN link.pairs : Decode[link.pairs[i].key] = "account"}
<1>1. /\ Len(args) = Len(ArgKinds("staking"))
      /\ \A k \in DOMAIN Q : Identifier(k, Q[k]) # None
  BY Zenon DEF PageRoute
<1>2. route = [page |-> "staking", args |-> A, opts |-> O]
  BY Zenon DEF PageRoute
<1>3. Len(args) = 0
  BY <1>1, TheArgKinds, EmptySeq
<1> HIDE DEF A
<1>4. route.page = "staking" /\ route.opts = O
  BY <1>2
<1>5. DOMAIN Q = {Decode[link.pairs[i].key] : i \in DOMAIN link.pairs}
  BY DEF Query
<1>6. DOMAIN link.pairs = 1..Len(link.pairs) /\ Len(link.pairs) \in Nat
  BY LenProperties DEF RawLink
<1>7. CASE hits = {}
  <2>1. AccountParam(link) = Blank
    BY <1>7, Zenon DEF AccountParam, Blank
  <2>2. "account" \notin DOMAIN route.opts
    BY <1>4, <1>5, <1>7
  <2>3. QED
    BY <1>3, <1>4, <2>1, <2>2, TheRoutePages
<1>8. CASE hits # {}
  <2>1. PICK i \in DOMAIN link.pairs : Decode[link.pairs[i].key] = "account"
    BY <1>8
  <2>2. \A j \in DOMAIN link.pairs : Decode[link.pairs[j].key] = "account" => j = i
    BY <2>1, Zenon DEF KeysOnce
  <2>3. hits = {i} /\ i \in Nat
    BY <1>6, <2>1, <2>2
  <2> DEFINE h == CHOOSE n \in hits : \A j \in hits : n <= j
             j == CHOOSE j \in DOMAIN link.pairs : Decode[link.pairs[j].key] = "account"
  <2>4. AccountParam(link) = Decode[link.pairs[h].value]
    BY <1>8, Zenon DEF AccountParam
  <2>5. h = i
    <3>1. \E n \in hits : \A m \in hits : n <= m
      BY <2>3
    <3>2. h \in hits
      BY <3>1, Zenon
    <3>3. QED
      BY <2>3, <3>2
  <2>6. "account" \in DOMAIN Q /\ Q["account"] = Decode[link.pairs[j].value]
    <3>1. "account" \in DOMAIN Q
      BY <1>5, <2>1
    <3>2. Q["account"] = Decode[link.pairs[j].value]
      BY <1>5, <3>1, Zenon DEF Query
    <3>3. QED
      BY <3>1, <3>2
  <2>7. j = i
    BY <2>1, <2>2, Zenon
  <2> HIDE DEF h, j, Q, hits
  <2>8. Identifier("account", Q["account"]) # None
    BY <1>1, <2>6
  <2>9. O["account"] = AccountParam(link) /\ "account" \in DOMAIN O
    BY <2>4, <2>5, <2>6, <2>7, <2>8, TheIdentifiers DEF Accepted
  <2> HIDE DEF O
  <2>10. QED
    BY <1>3, <1>4, <2>9, TheRoutePages
<1>9. QED
  BY <1>7, <1>8

\* mapCanonicalDeepLinkToRoute, for a link whose parts are its segments.
LEMMA TheMappedPages ==
    ASSUME NEW link, NEW parts, parts = UrlParts(link), Len(parts) \in Nat,
           NEW base \in {0, 1}, base = IF parts # <<>> /\ parts[1] = "v1" THEN 1 ELSE 0
    PROVE  /\ link.scheme \notin {"nearx", "near"} => MapToPage(link) = NoPage
           /\ Len(parts) - base = 0 => MapToPage(link) = NoPage
           /\ link.scheme \in {"nearx", "near"} /\ Len(parts) - base # 0 =>
                 /\ parts[base + 1] = "home" =>
                       \/ MapToPage(link) = NoPage /\ Len(parts) - base # 1
                       \/ MapToPage(link) = HomePage
                 /\ parts[base + 1] \in ArgPages =>
                       \/ MapToPage(link) = NoPage /\ Len(parts) - base # 2
                       \/ /\ MapToPage(link) = [page |-> parts[base + 1], arg |-> parts[base + 2]]
                          /\ Len(parts) - base = 2
                 /\ parts[base + 1] = "staking" =>
                       MapToPage(link) = [page |-> "staking", arg |-> AccountParam(link)]
                 /\ parts[base + 1] \notin ArgPages \cup {"home", "staking"} =>
                       MapToPage(link) = NoPage
<1> DEFINE rest == Len(parts) - base
           word == parts[base + 1]
           next == [page |-> word, arg |-> parts[base + 2]]
           stake == [page |-> "staking", arg |-> AccountParam(link)]
<1>1. MapToPage(link) =
          IF link.scheme \notin {"nearx", "near"} \/ rest = 0 THEN NoPage
          ELSE IF word = "home" /\ rest = 1 THEN HomePage
          ELSE IF word \in {"tx", "block", "account"} /\ rest = 2 THEN next
          ELSE IF word = "staking" THEN stake
          ELSE NoPage
  BY Zenon DEF MapToPage
<1> HIDE DEF next, stake
<1>2. QED
  BY <1>1 DEF ArgPages, next, stake

\* A page with an argument, and the staking page, are shown as they are mapped.
LEMMA ShownPages ==
    /\ Shown(NoPage) = HomePage /\ Shown(HomePage) = HomePage
    /\ \A word, a : word \in ArgPages \cup {"staking"} =>
          Shown([page |-> word, arg |-> a]) = [page |-> word, arg |-> a]
<1>1. NoPage.page = "none" /\ HomePage.page = "home"
  BY Zenon DEF NoPage, HomePage
<1>2. QED
  BY <1>1 DEF Shown, ArgPages

\* An argument page and the staking page, from the word in the link and the
\* segments behind it.
LEMMA WordFits ==
    ASSUME NEW link \in RawLink, KeysOnce(link), NEW word \in ArgPages \cup {"staking"},
           NEW args \in Seq(Text), NEW route, route # NoRoute,
           route = PageRoute(word, args, Query(link))
    PROVE  /\ route.page = word
           /\ word \in ArgPages => /\ Len(args) = 1
                                   /\ Fits(route, [page |-> word, arg |-> args[1]])
           /\ word = "staking" => /\ Len(args) = 0
                                  /\ Fits(route, [page |-> "staking", arg |-> AccountParam(link)])
<1>1. CASE word \in ArgPages
  <2>1. /\ Len(args) = 1 /\ route.page = word /\ RoutePage(route).page = word
        /\ word = "block" => RoutePage(route).arg = BlockRef[args[1]]
        /\ word # "block" => RoutePage(route) = [page |-> word, arg |-> args[1]]
    BY <1>1, ArgPage
  <2>2. Has(route) /\ word # "staking"
    BY <1>1, <2>1 DEF Has, ArgPages
  <2>3. QED
    BY <2>1, <2>2 DEF Fits
<1>2. CASE word = "staking"
  <2>1. /\ Len(args) = 0 /\ route.page = "staking"
        /\ RoutePage(route) = [page |-> "staking", arg |-> AccountParam(link)]
    BY <1>2, StakingPage
  <2>2. Has(route) /\ word \notin ArgPages
    BY <1>2, <2>1 DEF Has, ArgPages
  <2>3. QED
    BY <1>2, <2>1, <2>2 DEF Fits
<1>3. QED
  BY <1>1, <1>2

LEMMA MappedAgrees ==
    ASSUME NEW link \in RawLink
    PROVE  Agrees(link, Shown(MapToPage(link)))
<1> DEFINE route == ParseDeepLink(link)
           p == Shown(MapToPage(link))
           plain == Plain(link, route)
<1> SUFFICES ASSUME route # NoRoute
             PROVE  (p = HomePage /\ ~plain) \/ Fits(route, p)
  BY Zenon DEF Agrees
<1> DEFINE S == Segments(link)
           Q == Query(link)
<1>1. /\ link.scheme \in Schemes /\ Decodable(link) /\ KeysOnce(link)
      /\ route = ParseRoute(S, Q)
  BY Zenon DEF ParseDeepLink
<1>2. S \in Seq(Text) /\ S # <<>> /\ Len(S) \in Nat /\ Len(S) # 0
  <2>1. S \in Seq(Text) /\ S # <<>>
    BY <1>1, LinkDecodes, Zenon DEF ParseRoute
  <2> HIDE DEF S
  <2>2. QED
    BY <2>1, EmptySeq, LenProperties
<1>3. plain =>
          /\ Has(route) /\ link.scheme \in {"nearx", "near"} /\ link.slashes = 2
          /\ \/ S[1] = route.page /\ Len(S) = Len(ArgKinds(route.page)) + 1
             \/ S[1] = "v1" /\ S[2] = route.page /\ Len(S) = Len(ArgKinds(route.page)) + 2
  BY PlainParts, Zenon
<1>4. /\ \A word \in ArgPages \cup {"home", "staking", "v1"} : Lower[word] = word
      /\ \A word \in ArgPages \cup {"home", "staking"} : word # "v1"
      /\ Blank \notin ArgPages \cup {"home", "staking", "v1"}
  <2>1. ArgPages \cup {"home", "staking", "v1"} \subseteq Words
    BY DEF ArgPages, Words, Pages
  <2>2. Blank \notin ArgPages \cup {"home", "staking", "v1"}
    BY Zenon DEF Blank, ArgPages
  <2>3. QED
    BY <2>1, <2>2, RouterAssumption DEF RouterAssumption, ArgPages
<1>5. UrlParts(link) = IF link.slashes = 2 THEN S ELSE <<Blank>> \o S
  BY Zenon DEF UrlParts, Segments, Blank
<1> HIDE DEF S, Q, route, plain
<1>6. ASSUME MapToPage(link) = NoPage, ~plain PROVE p = HomePage /\ ~plain
  BY <1>6, ShownPages
<1>7. CASE link.scheme \notin {"nearx", "near"}
  <2>1. MapToPage(link) = NoPage
    BY <1>7, Zenon DEF MapToPage
  <2>2. QED
    BY <1>3, <1>6, <1>7, <2>1
<1>8. CASE link.scheme \in {"nearx", "near"} /\ link.slashes # 2
  <2>1. PICK parts : parts = <<Blank>> \o S
    OBVIOUS
  <2>2. parts[1] = Blank /\ Len(parts) = Len(S) + 1 /\ Len(parts) \in Nat
    BY <1>2, <2>1
  <2>3. parts # <<>> /\ parts = UrlParts(link)
    BY <1>2, <1>5, <1>8, <2>1, <2>2, EmptySeq
  <2>4. 0 = IF parts # <<>> /\ parts[1] = "v1" THEN 1 ELSE 0
    BY <1>4, <2>2
  <2>5. Len(parts) - 0 # 0 /\ parts[0 + 1] \notin ArgPages \cup {"home", "staking"}
    BY <1>2, <1>4, <2>2
  <2>6. MapToPage(link) = NoPage
    BY <1>8, <2>2, <2>3, <2>4, <2>5, TheMappedPages
  <2>7. QED
    BY <1>3, <1>6, <1>8, <2>6
<1>9. CASE link.scheme \in {"nearx", "near"} /\ link.slashes = 2 /\ S[1] # "v1"
  <2>0. plain => Has(route) /\ S[1] = route.page /\ Len(S) = Len(ArgKinds(route.page)) + 1
    BY <1>3, <1>9
  <2>1. S = UrlParts(link) /\ 0 = IF S # <<>> /\ S[1] = "v1" THEN 1 ELSE 0
    BY <1>5, <1>9
  <2>2. S[0 + 1] = S[1] /\ S[0 + 2] = S[2] /\ Len(S) - 0 = Len(S)
    BY <1>2
  <2>3. CASE S[1] \notin ArgPages \cup {"staking"}
    <3>1. MapToPage(link) \in {NoPage, HomePage}
      BY <1>2, <1>9, <2>1, <2>2, <2>3, TheMappedPages
    <3>2. p = HomePage
      BY <3>1, ShownPages
    <3>3. CASE plain
      <4>1. route.page = "home"
        BY <2>0, <2>3, <3>3 DEF Has, ArgPages
      <4>2. RoutePage(route) = HomePage /\ HomePage.page = "home"
        BY <4>1, TheRoutePages, Zenon DEF HomePage
      <4>3. QED
        BY <3>2, <4>1, <4>2 DEF Fits, Has
    <3>4. QED
      BY <3>2, <3>3
  <2>4. CASE S[1] \in ArgPages \cup {"staking"} /\ MapToPage(link) # NoPage
    <3> DEFINE word == S[1]
               args == SubSeq(S, 2, Len(S))
    <3>1. Lower[word] = word /\ word # "v1"
      BY <1>4, <2>4
    <3>2. route = ParseAlias(S, Q)
      BY <1>1, <1>2, <3>1, Zenon DEF ParseRoute
    <3>3. word \in ArgPages =>
              Len(S) = 2 /\ MapToPage(link) = [page |-> word, arg |-> S[2]]
      BY <1>2, <1>9, <2>1, <2>2, <2>4, TheMappedPages
    <3>4. word = "staking" =>
              MapToPage(link) = [page |-> "staking", arg |-> AccountParam(link)]
      BY <1>2, <1>9, <2>1, <2>2, TheMappedPages
    <3>5. ~ (Lower[word] = "tx" /\ Len(S) = 3)
      BY <3>1, <3>3 DEF ArgPages
    <3>6. route = PageRoute(word, args, Query(link))
      BY <3>1, <3>2, <3>5, Zenon DEF ParseAlias, Q
    <3>7. args \in Seq(Text) /\ (Len(S) = 2 => args[1] = S[2])
      BY <1>2
    <3> HIDE DEF args
    <3>8. /\ word \in ArgPages => Fits(route, [page |-> word, arg |-> args[1]])
          /\ word = "staking" => Fits(route, [page |-> "staking", arg |-> AccountParam(link)])
      <4>1. args \in Seq(Text) /\ word \in ArgPages \cup {"staking"} /\ KeysOnce(link)
        BY <1>1, <2>4, <3>7
      <4>2. QED
        BY <3>6, <4>1, WordFits, SMTT(30)
    <3>9. CASE word \in ArgPages
      BY <3>3, <3>7, <3>8, <3>9, ShownPages
    <3>10. CASE word = "staking"
      BY <3>4, <3>8, <3>10, ShownPages
    <3>11. QED
      BY <2>4, <3>9, <3>10
  <2>5. CASE S[1] \in ArgPages \cup {"staking"} /\ MapToPage(link) = NoPage
    <3>1. S[1] \in ArgPages /\ Len(S) # 2
      <4>1. CASE S[1] \in ArgPages
        <5>1. NoPage.page = "none" /\ NoPage # [page |-> S[1], arg |-> S[2]]
          BY <4>1 DEF NoPage, ArgPages
        <5>2. QED
          BY <1>2, <1>9, <2>1, <2>2, <2>5, <4>1, <5>1, TheMappedPages
      <4>2. CASE S[1] = "staking"
        <5>1. NoPage # [page |-> "staking", arg |-> AccountParam(link)]
          BY DEF NoPage
        <5>2. QED
          BY <1>2, <1>9, <2>1, <2>2, <2>5, <4>2, <5>1, TheMappedPages
      <4>3. QED
        BY <2>5, <4>1, <4>2
    <3>2. Len(ArgKinds(S[1])) = 1
      BY <3>1, TheArgKinds DEF ArgPages
    <3>3. ~plain
      <4>1. SUFFICES ASSUME plain PROVE FALSE
        OBVIOUS
      <4>2. Len(S) = Len(ArgKinds(S[1])) + 1
        BY <2>0, <4>1, Zenon
      <4>3. QED
        BY <3>1, <3>2, <4>2
    <3>4. QED
      BY <1>6, <2>5, <3>3
  <2>6. QED
    BY <2>3, <2>4, <2>5
<1>10. CASE link.scheme \in {"nearx", "near"} /\ link.slashes = 2 /\ S[1] = "v1" /\ Len(S) = 1
  <2>1. S = UrlParts(link) /\ 1 = IF S # <<>> /\ S[1] = "v1" THEN 1 ELSE 0
    BY <1>2, <1>5, <1>10
  <2>2. MapToPage(link) = NoPage
    BY <1>2, <1>10, <2>1, TheMappedPages
  <2>3. route = PageRoute("home", <<>>, Q)
    <3>1. Lower[S[1]] = "v1"
      BY <1>4, <1>10
    <3>2. QED
      BY <1>1, <1>2, <1>10, <3>1, Zenon DEF ParseRoute, ParseCanonical
  <2>4. ~plain
    <3>1. route.page = "home"
      BY <2>3, Zenon DEF PageRoute
    <3>2. Len(ArgKinds("home")) = 0
      BY TheArgKinds, EmptySeq
    <3>3. route.page # "v1" /\ ~ (Len(S) = 0 + 2)
      BY <1>10, <3>1
    <3>4. QED
      BY <1>3, <1>10, <3>1, <3>2, <3>3
  <2>5. QED
    BY <1>6, <2>2, <2>4
<1>11. CASE link.scheme \in {"nearx", "near"} /\ link.slashes = 2 /\ S[1] = "v1" /\ Len(S) # 1
  <2> DEFINE word == S[2]
             args == SubSeq(S, 3, Len(S))
  <2>1. S = UrlParts(link) /\ 1 = IF S # <<>> /\ S[1] = "v1" THEN 1 ELSE 0
    BY <1>2, <1>5, <1>11
  <2>2. S[1 + 1] = word /\ S[1 + 2] = S[3] /\ Len(S) - 1 # 0
    BY <1>2, <1>11
  <2>3. route = PageRoute(Lower[word], args, Q)
    <3>1. Lower[S[1]] = "v1"
      BY <1>4, <1>11
    <3>2. QED
      BY <1>1, <1>2, <1>11, <3>1, Zenon DEF ParseRoute, ParseCanonical
  <2>4. args \in Seq(Text) /\ (Len(S) - 1 = 2 => args[1] = S[3])
    BY <1>2, <1>11
  <2>5. route.page = Lower[word]
    BY <2>3, Zenon DEF PageRoute
  <2>6. plain => Has(route) /\ word = route.page /\ Len(S) = Len(ArgKinds(word)) + 2
    <3>1. Has(route) => route.page # "v1"
      BY DEF Has
    <3>2. QED
      BY <1>3, <1>11, <3>1
  <2> HIDE DEF args
  <2>7. CASE word \in ArgPages \cup {"staking"}
    <3>1. Lower[word] = word
      BY <1>4, <2>7
    <3>2. /\ word \in ArgPages => Fits(route, [page |-> word, arg |-> args[1]])
          /\ word = "staking" => Fits(route, [page |-> "staking", arg |-> AccountParam(link)])
      <4>1. route = PageRoute(word, args, Query(link))
        BY <2>3, <3>1, Zenon DEF Q
      <4> HIDE DEF word
      <4>2. QED
        BY <1>1, <2>4, <2>7, <4>1, WordFits
    <3>3. CASE word = "staking"
      <4>1. MapToPage(link) = [page |-> "staking", arg |-> AccountParam(link)]
        BY <1>2, <1>11, <2>1, <2>2, <3>3, TheMappedPages
      <4>2. QED
        BY <3>2, <3>3, <4>1, ShownPages
    <3>4. CASE word \in ArgPages
      <4>1. \/ MapToPage(link) = NoPage /\ Len(S) - 1 # 2
            \/ MapToPage(link) = [page |-> word, arg |-> S[3]] /\ Len(S) - 1 = 2
        BY <1>2, <1>11, <2>1, <2>2, <3>4, TheMappedPages
      <4>2. Len(ArgKinds(word)) = 1
        BY <3>4, TheArgKinds DEF ArgPages
      <4>3. CASE Len(S) - 1 # 2
        <5>1. ~plain
          BY <1>2, <2>6, <4>2, <4>3
        <5>2. QED
          BY <1>6, <4>1, <4>3, <5>1
      <4>4. CASE Len(S) - 1 = 2
        BY <2>4, <3>2, <3>4, <4>1, <4>4, ShownPages
      <4>5. QED
        BY <4>3, <4>4
    <3>5. QED
      BY <2>7, <3>3, <3>4
  <2>8. CASE word = "home"
    <3>1. MapToPage(link) \in {NoPage, HomePage}
      BY <1>2, <1>11, <2>1, <2>2, <2>8, TheMappedPages
    <3>2. p = HomePage
      BY <3>1, ShownPages
    <3>3. route.page = "home"
      BY <1>4, <2>5, <2>8
    <3>4. RoutePage(route) = HomePage /\ HomePage.page = "home"
      BY <3>3, TheRoutePages, Zenon DEF HomePage
    <3>5. QED
      BY <3>2, <3>3, <3>4 DEF Fits, Has
  <2>9. CASE word \notin ArgPages \cup {"home", "staking"}
    <3>1. MapToPage(link) = NoPage
      BY <1>2, <1>11, <2>1, <2>2, <2>9, TheMappedPages
    <3>2. ~plain
      BY <2>6, <2>9 DEF Has, ArgPages
    <3>3. QED
      BY <1>6, <3>1, <3>2
  <2>10. QED
    BY <2>7, <2>8, <2>9
<1>12. QED
  BY <1>7, <1>8, <1>9, <1>10, <1>11
-----------------------------------------------------------------------------
\* The host's request: nothing is opened while it can still be opened by two
\* programs, and what is opened is the link or the canonical form of it.
HostRecord ==
    [state  : {"sent", "direct", "opened", "done"}, link : HostLinks \cup {SessionLink},
     opened : Seq(RawLink), reply : {"none", "ok", "err"}]

OpenedOnce(q) ==
    /\ q.state \in {"sent", "direct"} => q.opened = <<>>
    /\ q.state = "opened" \/ q.reply = "ok" => q.opened # <<>>
    /\ \/ q.opened = <<>>
       \/ q.opened = <<q.link>>
       \/ /\ ParseDeepLink(q.link) # NoRoute
          /\ q.opened = <<CanonicalUri(ParseDeepLink(q.link))>>

HostPart == host = Idle \/ (host \in HostRecord /\ OpenedOnce(host))

\* A sidecar runs only beside its app, and the front end only in it.
AppPart ==
    /\ standalone \in BOOLEAN /\ sidecar \in BOOLEAN /\ own \in BOOLEAN /\ moved \in BOOLEAN
    /\ sidecar => own
    /\ app \in {"off", "current", "spawn", "drain", "on"}
    /\ sub \in {"none", "ask", "gap", "on", "deaf"}
    /\ app # "on" => sub = "none"

Arrival == [link : RawLink, fate : Fates]

\* The plugin's current link is the last one that arrived, and only that one
\* can be waiting.
LinkPart ==
    /\ arrivals \in Seq(Arrival)
    /\ \A i \in 1..Len(arrivals) : i # Len(arrivals) => arrivals[i].fate # "waiting"
    /\ current = <<>> \/ (arrivals # <<>> /\ current = <<arrivals[Len(arrivals)].link>>)

PagePart == PageOK(page) /\ PageOK(saved)

IInv == HostPart /\ AppPart /\ LinkPart /\ PagePart

LEMMA InitInv == Init => IInv
<1> SUFFICES ASSUME Init PROVE IInv
  OBVIOUS
<1>1. HostPart /\ AppPart
  BY DEF Init, HostPart, AppPart
<1>2. LinkPart
  BY EmptySeq DEF Init, LinkPart
<1>3. PageOK(HomePage) /\ \A p \in UserPages : PageOK(p)
  <2>1. \A p \in UserPages : PageOK(p)
    BY LinksAssumption, Zenon DEF LinksAssumption, PageOK, Blank
  <2>2. QED
    BY <2>1, FixedPages
<1>4. PagePart
  BY <1>3 DEF Init, PagePart
<1>5. QED
  BY <1>1, <1>2, <1>4 DEF IInv

\* A link that arrives is appended; earlier ones keep their link.
LEMMA ArriveKeeps ==
    ASSUME LinkPart, NEW link \in RawLink, NEW fate \in Fates, Arrive(link, fate)
    PROVE  LinkPart'
<1> DEFINE A == [i \in DOMAIN arrivals |->
                    IF arrivals[i].fate = "waiting"
                    THEN [arrivals[i] EXCEPT !.fate = "replaced"] ELSE arrivals[i]]
           e == [link |-> link, fate |-> fate]
<1>1. current' = <<link>> /\ arrivals' = Append(A, e)
  BY DEF Arrive
<1>2. DOMAIN arrivals = 1..Len(arrivals) /\ Len(arrivals) \in Nat
  BY LenProperties DEF LinkPart
<1>3. \A i \in 1..Len(arrivals) : A[i] \in Arrival /\ A[i].fate # "waiting"
  <2>1. \A i \in 1..Len(arrivals) : arrivals[i] \in Arrival
    BY ElementOfSeq DEF LinkPart
  <2>2. QED
    BY <1>2, <2>1 DEF Arrival, Fates
<1>4. A \in Seq(Arrival) /\ Len(A) = Len(arrivals)
  <2>1. A = [i \in 1..Len(arrivals) |-> A[i]]
    BY <1>2
  <2> HIDE DEF A
  <2>2. QED
    BY <1>2, <1>3, <2>1
<1>5. e \in Arrival /\ e.link = link
  BY DEF Arrival
<1> HIDE DEF A, e
<1>6. /\ arrivals' \in Seq(Arrival) /\ Len(arrivals') = Len(A) + 1
      /\ arrivals'[Len(A) + 1] = e /\ arrivals' # <<>>
      /\ \A i \in 1..Len(A) : arrivals'[i] = A[i]
  BY <1>1, <1>4, <1>5, AppendProperties
<1>7. \A i \in 1..Len(arrivals') : i # Len(arrivals') => arrivals'[i].fate # "waiting"
  BY <1>2, <1>3, <1>4, <1>6
<1>8. QED
  BY <1>1, <1>5, <1>6, <1>7 DEF LinkPart

LEMMA ShowKeeps ==
    ASSUME AppPart, PagePart, NEW p, PageOK(p), Show(p)
    PROVE  PagePart' /\ moved' \in BOOLEAN
<1>1. PageOK(HomePage)
  BY FixedPages
<1>2. page' = (IF p = NoPage THEN HomePage ELSE p) /\ saved' = page'
  BY DEF Show
<1>3. moved' \in BOOLEAN
  BY Zenon DEF Show, AppPart
<1>4. QED
  BY <1>1, <1>2, <1>3 DEF PagePart

\* Delivering a link, in every state of the app and of the front end.
LEMMA DeliverKeeps ==
    ASSUME AppPart, LinkPart, PagePart, NEW link \in RawLink, Deliver(link), UNCHANGED nearxd
    PROVE  AppPart' /\ LinkPart' /\ PagePart'
<1>1. Heard(link) /\ UNCHANGED own /\ app' = IF app = "off" THEN "current" ELSE app
  BY DEF Deliver
<1>2. \/ sub = "on" /\ ~ Throws(link)
      \/ sub = "on" /\ Throws(link)
      \/ sub \in {"none", "ask"}
      \/ sub \in {"gap", "deaf"}
  BY DEF AppPart
<1>3. \/ Arrive(link, "shown") /\ Show(MapToPage(link)) /\ UNCHANGED sub
      \/ \E fate \in Fates : Arrive(link, fate) /\ UNCHANGED front
  <2>1. CASE sub = "on" /\ ~ Throws(link)
    BY <1>1, <2>1, Zenon DEF Heard
  <2>2. CASE sub = "on" /\ Throws(link)
    <3>1. Arrive(link, "threw") /\ UNCHANGED front
      BY <1>1, <2>2, Zenon DEF Heard
    <3>2. QED
      BY <3>1, Zenon DEF Fates
  <2>3. CASE sub \in {"none", "ask"}
    <3>1. Arrive(link, "waiting") /\ UNCHANGED front
      BY <1>1, <2>3, Zenon DEF Heard
    <3>2. QED
      BY <3>1, Zenon DEF Fates
  <2>4. CASE sub \in {"gap", "deaf"}
    <3>1. Arrive(link, "missed") /\ UNCHANGED front
      BY <1>1, <2>4, Zenon DEF Heard
    <3>2. QED
      BY <3>1, Zenon DEF Fates
  <2>5. QED
    BY <1>2, <2>1, <2>2, <2>3, <2>4
<1>4. CASE Arrive(link, "shown") /\ Show(MapToPage(link)) /\ UNCHANGED sub
  <2>1. LinkPart'
    BY <1>4, ArriveKeeps DEF Fates
  <2>2. PagePart' /\ moved' \in BOOLEAN
    BY <1>4, MappedPageOK, ShowKeeps
  <2>3. AppPart'
    BY <1>1, <1>4, <2>2 DEF AppPart, nearxd
  <2>4. QED
    BY <2>1, <2>2, <2>3
<1>5. CASE \E fate \in Fates : Arrive(link, fate) /\ UNCHANGED front
  <2>1. LinkPart'
    BY <1>5, ArriveKeeps
  <2>2. AppPart' /\ PagePart'
    BY <1>1, <1>5 DEF AppPart, PagePart, nearxd, front
  <2>3. QED
    BY <2>1, <2>2
<1>6. QED
  BY <1>3, <1>4, <1>5
-----------------------------------------------------------------------------
\* What the extension asks for is a link.
LEMMA HostLinkIsRaw == ASSUME HostPart, host # Idle PROVE host.link \in RawLink
<1>1. QED
  BY LinksAssumption DEF LinksAssumption, HostPart, HostRecord

\* The steps of the host's request.
LEMMA HostKeeps == ASSUME HostPart, [Next]_vars PROVE HostPart'
<1>1. ASSUME UNCHANGED host PROVE HostPart'
  BY <1>1 DEF HostPart
<1>2. CASE UNCHANGED vars
  BY <1>1, <1>2 DEF vars
<1>3. ASSUME NEW link \in Links, OpenLink(link) PROVE HostPart'
  BY <1>1, <1>3 DEF OpenLink
<1>4. <<>> \in Seq(RawLink)
  BY EmptySeq
<1>5. ASSUME NEW link \in HostLinks, HostAsks(link) PROVE HostPart'
  <2>1. PICK st \in {"sent", "direct"} :
            host' = [state |-> st, link |-> link, opened |-> <<>>, reply |-> "none"]
    BY <1>5 DEF HostAsks
  <2>2. QED
    BY <1>4, <2>1 DEF HostPart, HostRecord, OpenedOnce
<1>6. CASE HostAsksSession
  <2>1. host' = [state |-> "direct", link |-> SessionLink, opened |-> <<>>, reply |-> "none"]
    BY <1>6 DEF HostAsksSession
  <2>2. QED
    BY <1>4, <2>1 DEF HostPart, HostRecord, OpenedOnce
<1>7. ASSUME host.state \in {"sent", "direct", "opened"},
             host' = [host EXCEPT !.state = "done", !.reply = "err"]
      PROVE  HostPart'
  <2>1. host \in HostRecord /\ OpenedOnce(host)
    BY <1>7 DEF HostPart, Idle
  <2>2. QED
    BY <1>7, <2>1 DEF HostPart, HostRecord, OpenedOnce
<1>8. CASE HostOpens
  <2>1. host.state = "direct" /\ host \in HostRecord /\ OpenedOnce(host) /\ host # Idle
    BY <1>8 DEF HostOpens, HostPart, Idle
  <2>2. CASE host' = [host EXCEPT !.state = "done", !.opened = Append(@, host.link), !.reply = "ok"]
    <3>1. host.opened = <<>> /\ host.link \in RawLink
      BY <2>1, HostLinkIsRaw DEF OpenedOnce
    <3>2. Append(host.opened, host.link) = <<host.link>> /\ <<host.link>> \in Seq(RawLink)
      BY <3>1
    <3>3. host' \in HostRecord /\ host'.opened = <<host'.link>> /\ host'.state = "done"
      BY <2>1, <2>2, <3>2 DEF HostRecord
    <3>4. QED
      BY <3>3 DEF HostPart, OpenedOnce
  <2>3. CASE Fail
    BY <1>7, <2>1, <2>3 DEF Fail
  <2>4. QED
    BY <1>8, <2>2, <2>3 DEF HostOpens
<1>9. CASE BrokerOpens
  <2> DEFINE route == ParseDeepLink(host.link)
             uri   == CanonicalUri(route)
  <2>1. host.state = "sent" /\ host \in HostRecord /\ OpenedOnce(host) /\ host # Idle
    BY <1>9 DEF BrokerOpens, HostPart, Idle
  <2>2. CASE /\ route # NoRoute
             /\ host' = [host EXCEPT !.state = "opened", !.opened = Append(@, uri)]
    <3>1. host.opened = <<>> /\ uri \in RawLink
      BY <2>1, <2>2, HostLinkIsRaw, RoundTrip DEF OpenedOnce
    <3>2. Append(host.opened, uri) = <<uri>> /\ <<uri>> \in Seq(RawLink)
      <4> HIDE DEF uri
      <4>1. QED
        BY <3>1
    <3>3. /\ host' \in HostRecord /\ host'.opened = <<uri>> /\ host'.link = host.link
          /\ host'.state = "opened" 
      <4> HIDE DEF uri
      <4>1. QED
        BY <2>1, <2>2, <3>2 DEF HostRecord
    <3>4. ParseDeepLink(host'.link) # NoRoute /\ host'.opened = <<CanonicalUri(ParseDeepLink(host'.link))>>
      BY <2>2, <3>3
    <3>5. host'.opened # <<>>
      <4> HIDE DEF uri
      <4>1. QED
        BY <3>3
    <3>6. QED
      BY <3>3, <3>4, <3>5 DEF HostPart, OpenedOnce
  <2>3. CASE Fail
    BY <1>7, <2>1, <2>3 DEF Fail
  <2>4. CASE host' = [host EXCEPT !.state = "direct"]
    BY <2>1, <2>4 DEF HostPart, HostRecord, OpenedOnce
  <2>5. QED
    BY <1>9, <2>2, <2>3, <2>4 DEF BrokerOpens
<1>10. CASE BrokerAnswers
  <2>1. host.state = "opened" /\ host' = [host EXCEPT !.state = "done", !.reply = "ok"]
    BY <1>10 DEF BrokerAnswers
  <2>2. host \in HostRecord /\ OpenedOnce(host)
    BY <2>1 DEF HostPart, Idle
  <2>3. QED
    BY <2>1, <2>2 DEF HostPart, HostRecord, OpenedOnce
<1>11. CASE HostReadsNothing
  BY <1>7, <1>11 DEF HostReadsNothing, Fail
<1>12. CASE HostNext
  BY <1>12 DEF HostNext, HostPart
<1>13. CASE StandaloneFlips \/ SidecarFlips \/ Launch \/ Quit \/ EffectRunsAgain
  BY <1>1, <1>13 DEF StandaloneFlips, SidecarFlips, Launch, Quit, EffectRunsAgain
<1>14. CASE SetupReadsCurrent \/ SetupSpawns \/ SetupDrains
  BY <1>1, <1>14 DEF SetupReadsCurrent, SetupSpawns, SetupDrains
<1>15. CASE FrontLoads \/ FrontReadsCurrent \/ FrontListens \/ (\E p \in UserPages : UserGoes(p))
  BY <1>1, <1>15 DEF FrontLoads, FrontReadsCurrent, FrontListens, UserGoes
<1>16. QED
  BY <1>2, <1>3, <1>5, <1>6, <1>8, <1>9, <1>10, <1>11, <1>12, <1>13, <1>14, <1>15 DEF Next

\* A link of arrivals is given another fate.
LEMMA FateKeeps ==
    ASSUME LinkPart, NEW n \in 1..Len(arrivals), NEW fate \in Fates \ {"waiting"},
           arrivals' = [arrivals EXCEPT ![n].fate = fate], UNCHANGED current
    PROVE  LinkPart'
<1> DEFINE e == [arrivals[n] EXCEPT !.fate = fate]
<1>1. arrivals \in Seq(Arrival) /\ arrivals[n] \in Arrival /\ Len(arrivals) \in Nat
  BY ElementOfSeq, LenProperties DEF LinkPart
<1>2. e \in Arrival /\ e.link = arrivals[n].link /\ e.fate # "waiting"
  BY <1>1 DEF Arrival
<1>3. arrivals' = [arrivals EXCEPT ![n] = e]
  OBVIOUS
<1> HIDE DEF e
<1>4. /\ arrivals' \in Seq(Arrival) /\ Len(arrivals') = Len(arrivals)
      /\ \A j \in 1..Len(arrivals) : arrivals'[j] = IF j = n THEN e ELSE arrivals[j]
  BY <1>1, <1>2, <1>3, ExceptSeq
<1>5. \A j \in 1..Len(arrivals) : arrivals'[j].link = arrivals[j].link
  BY <1>2, <1>4
<1>6. Len(arrivals) \in 1..Len(arrivals) /\ arrivals' # <<>>
  BY <1>1, <1>4, EmptySeq
<1>7. \A i \in 1..Len(arrivals') : i # Len(arrivals') => arrivals'[i].fate # "waiting"
  BY <1>2, <1>4 DEF LinkPart
<1>8. QED
  BY <1>4, <1>5, <1>6, <1>7 DEF LinkPart

\* The steps of the shell and of the front end.
LEMMA FrontKeeps ==
    ASSUME IInv, [Next]_vars
    PROVE  AppPart' /\ LinkPart' /\ PagePart'
<1>1. HostPart /\ AppPart /\ LinkPart /\ PagePart
  BY DEF IInv
<1>2. ASSUME UNCHANGED <<nearxd, shell, os, front>> PROVE AppPart' /\ LinkPart' /\ PagePart'
  BY <1>1, <1>2 DEF nearxd, shell, os, front, AppPart, LinkPart, PagePart
<1>3. CASE UNCHANGED vars
  BY <1>2, <1>3 DEF vars
<1>4. ASSUME NEW link \in Links, OpenLink(link) PROVE AppPart' /\ LinkPart' /\ PagePart'
  BY <1>1, <1>4, LinksAssumption, DeliverKeeps DEF OpenLink, LinksAssumption
<1>5. CASE (\E link \in HostLinks : HostAsks(link)) \/ HostAsksSession
  BY <1>2, <1>5 DEF HostAsks, HostAsksSession
<1>6. CASE HostOpens
  <2>1. host # Idle /\ UNCHANGED nearxd
    BY <1>6 DEF HostOpens, Idle
  <2>2. CASE Deliver(host.link)
    BY <1>1, <2>1, <2>2, HostLinkIsRaw, DeliverKeeps
  <2>3. CASE Fail
    BY <1>2, <2>1, <2>3 DEF Fail
  <2>4. QED
    BY <1>6, <2>2, <2>3 DEF HostOpens
<1>7. CASE BrokerOpens
  <2>1. host # Idle /\ UNCHANGED nearxd
    BY <1>7 DEF BrokerOpens, Idle
  <2>2. CASE ParseDeepLink(host.link) # NoRoute /\ Deliver(CanonicalUri(ParseDeepLink(host.link)))
    <3>1. CanonicalUri(ParseDeepLink(host.link)) \in RawLink
      BY <1>1, <2>1, <2>2, HostLinkIsRaw, RoundTrip
    <3>2. QED
      BY <1>1, <2>1, <2>2, <3>1, DeliverKeeps
  <2>3. CASE Fail \/ UNCHANGED <<shell, os, front>>
    BY <1>2, <2>1, <2>3 DEF Fail
  <2>4. QED
    BY <1>7, <2>2, <2>3 DEF BrokerOpens
<1>8. CASE BrokerAnswers \/ HostReadsNothing \/ HostNext
  BY <1>2, <1>8 DEF BrokerAnswers, HostReadsNothing, HostNext, Fail
<1>9. CASE StandaloneFlips
  <2>1. standalone' = ~ standalone /\ UNCHANGED <<sidecar, shell, os, front>>
    BY <1>9 DEF StandaloneFlips
  <2>2. standalone' \in BOOLEAN
    BY <2>1, Zenon
  <2>3. QED
    BY <1>1, <2>1, <2>2 DEF shell, os, front, AppPart, LinkPart, PagePart
<1>10. CASE SidecarFlips
  <2>1. own /\ sidecar' = ~ sidecar /\ UNCHANGED <<standalone, shell, os, front>>
    BY <1>10 DEF SidecarFlips
  <2>2. sidecar' \in BOOLEAN
    BY <2>1, Zenon
  <2>3. QED
    BY <1>1, <2>1, <2>2 DEF shell, os, front, AppPart, LinkPart, PagePart
<1>11. CASE Launch \/ SetupReadsCurrent \/ SetupDrains
  BY <1>1, <1>11 DEF Launch, SetupReadsCurrent, SetupDrains, nearxd, os, front,
                     AppPart, LinkPart, PagePart
<1>12. CASE SetupSpawns
  <2>1. app = "spawn" /\ app' = "drain" /\ UNCHANGED <<standalone, flips, host, pending, os, front>>
    BY <1>12 DEF SetupSpawns
  <2>2. \/ UNCHANGED <<own, sidecar>>
        \/ own' = TRUE /\ sidecar' \in BOOLEAN
    BY <1>12 DEF SetupSpawns
  <2>3. own' \in BOOLEAN /\ sidecar' \in BOOLEAN /\ (sidecar' => own')
    <3>1. CASE UNCHANGED <<own, sidecar>>
      BY <1>1, <3>1 DEF AppPart
    <3>2. CASE own' = TRUE /\ sidecar' \in BOOLEAN
      BY <3>2, Zenon
    <3>3. QED
      BY <2>2, <3>1, <3>2
  <2>4. QED
    BY <1>1, <2>1, <2>3 DEF os, front, AppPart, LinkPart, PagePart
<1>13. CASE Quit
  <2> DEFINE A == [i \in DOMAIN arrivals |->
                       IF arrivals[i].fate = "waiting" THEN [arrivals[i] EXCEPT !.fate = "quit"]
                       ELSE arrivals[i]]
  <2>1. arrivals' = A /\ current' = <<>> /\ page' = HomePage /\ UNCHANGED saved
    BY <1>13 DEF Quit
  <2>2. AppPart'
    BY <1>1, <1>13 DEF Quit, AppPart
  <2>3. DOMAIN arrivals = 1..Len(arrivals) /\ Len(arrivals) \in Nat
    BY <1>1, LenProperties DEF LinkPart
  <2>4. \A i \in 1..Len(arrivals) : A[i] \in Arrival /\ A[i].fate # "waiting"
    <3>1. \A i \in 1..Len(arrivals) : arrivals[i] \in Arrival
      BY <1>1, ElementOfSeq DEF LinkPart
    <3>2. QED
      BY <2>3, <3>1 DEF Arrival, Fates
  <2>5. A \in Seq(Arrival) /\ Len(A) = Len(arrivals)
    <3>1. A = [i \in 1..Len(arrivals) |-> A[i]]
      BY <2>3
    <3> HIDE DEF A
    <3>2. QED
      BY <2>3, <2>4, <3>1
  <2>6. LinkPart' /\ PagePart'
    <3> HIDE DEF A
    <3>1. QED
      BY <1>1, <2>1, <2>4, <2>5, FixedPages DEF LinkPart, PagePart
  <2>7. QED
    BY <2>2, <2>6
<1>14. CASE FrontLoads
  <2>1. moved' = (saved # HomePage)
    BY <1>14 DEF FrontLoads
  <2>2. moved' \in BOOLEAN
    BY <2>1, Zenon
  <2>3. QED
    BY <1>1, <1>14, <2>2 DEF FrontLoads, nearxd, shell, os, AppPart, LinkPart, PagePart
<1>15. CASE FrontReadsCurrent
  <2> DEFINE n == Len(arrivals)
  <2>1. /\ UNCHANGED <<nearxd, host, shell, current>> /\ sub = "ask"
        /\ \/ sub' = "gap" /\ UNCHANGED <<arrivals, page, saved, moved>>
           \/ /\ current # <<>> /\ sub' = "deaf"
              /\ arrivals' = [arrivals EXCEPT ![n].fate = "threw"] /\ UNCHANGED <<page, saved, moved>>
           \/ /\ current # <<>> /\ sub' = "gap"
              /\ arrivals' = [arrivals EXCEPT ![n].fate = "shown"] /\ Show(MapToPage(current[1]))
    BY <1>15 DEF FrontReadsCurrent
  <2>2. current # <<>> => /\ n \in 1..Len(arrivals) /\ current[1] = arrivals[n].link
                          /\ current[1] \in RawLink
    <3>1. current # <<>> => n \in 1..Len(arrivals) /\ current[1] = arrivals[n].link
      BY <1>1, EmptySeq DEF LinkPart
    <3>2. current # <<>> => arrivals[n] \in Arrival
      BY <1>1, <3>1, ElementOfSeq DEF LinkPart
    <3>3. QED
      BY <3>1, <3>2 DEF Arrival
  <2>3. LinkPart'
    <3>1. CASE UNCHANGED arrivals
      BY <1>1, <2>1, <3>1 DEF LinkPart
    <3>2. CASE current # <<>> /\ arrivals' = [arrivals EXCEPT ![n].fate = "threw"]
      BY <1>1, <2>1, <2>2, <3>2, FateKeeps DEF Fates
    <3>3. CASE current # <<>> /\ arrivals' = [arrivals EXCEPT ![n].fate = "shown"]
      BY <1>1, <2>1, <2>2, <3>3, FateKeeps DEF Fates
    <3>4. QED
      BY <2>1, <3>1, <3>2, <3>3
  <2>4. PagePart' /\ moved' \in BOOLEAN
    <3>1. CASE UNCHANGED <<page, saved, moved>>
      BY <1>1, <3>1 DEF PagePart, AppPart
    <3>2. CASE current # <<>> /\ Show(MapToPage(current[1]))
      BY <1>1, <2>2, <3>2, MappedPageOK, ShowKeeps
    <3>3. QED
      BY <2>1, <3>1, <3>2
  <2>5. AppPart'
    <3>1. sub' \in {"gap", "deaf"} /\ app = "on"
      BY <1>1, <2>1 DEF AppPart
    <3>2. QED
      BY <1>1, <2>1, <2>4, <3>1 DEF AppPart, nearxd, shell
  <2>6. QED
    BY <2>3, <2>4, <2>5
<1>16. CASE FrontListens
  BY <1>1, <1>16 DEF FrontListens, nearxd, shell, os, AppPart, LinkPart, PagePart
<1>17. ASSUME NEW p \in UserPages, UserGoes(p) PROVE AppPart' /\ LinkPart' /\ PagePart'
  <2>1. Show(p) /\ UNCHANGED <<nearxd, shell, os, sub>>
    BY <1>17 DEF UserGoes
  <2>2. PageOK(p)
    BY LinksAssumption, Zenon DEF LinksAssumption, PageOK, Blank
  <2>3. PagePart' /\ moved' \in BOOLEAN
    BY <1>1, <2>1, <2>2, ShowKeeps
  <2>4. QED
    BY <1>1, <2>1, <2>3 DEF nearxd, shell, os, AppPart, LinkPart
<1>18. CASE EffectRunsAgain
  BY <1>1, <1>18 DEF EffectRunsAgain, nearxd, shell, os, AppPart, LinkPart, PagePart
<1>19. QED
  BY <1>3, <1>4, <1>5, <1>6, <1>7, <1>8, <1>9, <1>10, <1>11, <1>12, <1>13, <1>14, <1>15, <1>16,
     <1>17, <1>18 DEF Next

LEMMA StepInv == IInv /\ [Next]_vars => IInv'
<1>1. QED
  BY HostKeeps, FrontKeeps DEF IInv

\* The inductive invariant: the host's request, the shell and the front end,
\* the links that arrived, and the pages.
THEOREM InvariantHolds == Spec => []IInv
<1>1. QED
  BY InitInv, StepInv, PTL DEF Spec

\* The variables have their types, and no page that takes an argument is shown
\* without one, whatever link arrives and whatever route was saved.
THEOREM TypeCorrect == Spec => []TypeOK
<1>1. IInv => TypeOK
  <2> SUFFICES ASSUME IInv PROVE TypeOK
    OBVIOUS
  <2>1. HostOK
    BY DEF IInv, HostPart, HostRecord, HostOK
  <2>2. current # <<>> => current = <<arrivals[Len(arrivals)].link>>
    BY DEF IInv, LinkPart
  <2>3. \A i \in DOMAIN arrivals : arrivals[i].fate \in Fates
    <3>1. \A i \in DOMAIN arrivals : arrivals[i] \in Arrival
      BY ElementOfSeq, LenProperties DEF IInv, LinkPart
    <3>2. QED
      BY <3>1 DEF Arrival
  <2>4. page.page \in {"tx", "block", "account"} => page.arg # ""
    BY Zenon DEF IInv, PagePart, PageOK, Blank
  <2>5. QED
    BY <2>1, <2>2, <2>3, <2>4, Zenon DEF IInv, AppPart, TypeOK
<1>2. QED
  BY <1>1, InvariantHolds, PTL

\* What the system is made to open for the extension parses to the route of
\* the link it asked for, whichever of the host and nearxd opens it.
THEOREM OpensWhatWasAsked == Spec => []OpenedAsAsked
<1>1. IInv => OpenedAsAsked
  <2> SUFFICES ASSUME IInv, host # Idle, NEW i \in DOMAIN host.opened
               PROVE  ParseDeepLink(host.opened[i]) = ParseDeepLink(host.link)
    BY DEF OpenedAsAsked
  <2>1. host.link \in RawLink /\ OpenedOnce(host)
    BY HostLinkIsRaw DEF IInv, HostPart
  <2>2. CASE host.opened = <<>>
    BY <2>2, EmptySeq
  <2>3. CASE host.opened = <<host.link>>
    BY <2>3
  <2>4. CASE /\ ParseDeepLink(host.link) # NoRoute
             /\ host.opened = <<CanonicalUri(ParseDeepLink(host.link))>>
    <3>1. ParseDeepLink(CanonicalUri(ParseDeepLink(host.link))) = ParseDeepLink(host.link)
      BY <2>1, <2>4, RoundTrip
    <3>2. host.opened[i] = CanonicalUri(ParseDeepLink(host.link))
      BY <2>4
    <3>3. QED
      BY <3>1, <3>2
  <2>5. QED
    BY <2>1, <2>2, <2>3, <2>4 DEF OpenedOnce
<1>2. QED
  BY <1>1, InvariantHolds, PTL

\* The extension's link is opened at most once, by nearxd or by the host when
\* nearxd cannot be reached or cannot open it, and "ok" says that it was,
\* wherever nearxd stops between its steps.
THEOREM AnswersAreTrue == Spec => []AnswerIsTrue
<1>1. IInv => AnswerIsTrue
  <2> SUFFICES ASSUME IInv, host # Idle
               PROVE  Len(host.opened) <= 1 /\ (host.reply = "ok" => Len(host.opened) = 1)
    BY DEF AnswerIsTrue
  <2>1. OpenedOnce(host)
    BY DEF IInv, HostPart
  <2>2. \/ host.opened = <<>> /\ Len(host.opened) = 0
        \/ Len(host.opened) = 1
    <3>1. Len(<<>>) = 0 /\ \A x : Len(<<x>>) = 1
      BY EmptySeq
    <3>2. host.opened = <<>> \/ \E x : host.opened = <<x>>
      BY <2>1, Zenon DEF OpenedOnce
    <3>3. QED
      BY <3>1, <3>2
  <2>3. host.reply = "ok" => host.opened # <<>>
    BY <2>1 DEF OpenedOnce
  <2>4. Len(host.opened) <= 1
    <3>1. Len(host.opened) \in {0, 1}
      BY <2>2
    <3>2. \A n \in {0, 1} : n <= 1
      OBVIOUS
    <3>3. QED
      BY <3>1, <3>2
  <2>5. host.reply = "ok" => Len(host.opened) = 1
    BY <2>2, <2>3
  <2>6. QED
    BY <2>4, <2>5
<1>2. QED
  BY <1>1, InvariantHolds, PTL

-----------------------------------------------------------------------------
\* What a link that is shown at once shows.
LEMMA DeliverShows ==
    ASSUME IInv, NEW link \in RawLink, Deliver(link), arrivals'[Len(arrivals')].fate = "shown"
    PROVE  Agrees(arrivals'[Len(arrivals')].link, page')
<1>1. PICK fate : /\ Arrive(link, fate)
                  /\ fate = "shown" => Show(MapToPage(link))
  <2>1. Heard(link)
    BY DEF Deliver
  <2>2. CASE sub = "on" /\ ~ Throws(link)
    <3>1. Arrive(link, "shown") /\ Show(MapToPage(link))
      BY <2>1, <2>2, Zenon DEF Heard
    <3>2. QED
      BY <3>1
  <2>3. CASE sub = "on" /\ Throws(link)
    <3>1. Arrive(link, "threw")
      BY <2>1, <2>3, Zenon DEF Heard
    <3>2. QED
      BY <3>1
  <2>4. CASE sub \in {"none", "ask"}
    <3>1. Arrive(link, "waiting")
      BY <2>1, <2>4, Zenon DEF Heard
    <3>2. QED
      BY <3>1
  <2>5. CASE sub \in {"gap", "deaf"}
    <3>1. Arrive(link, "missed")
      BY <2>1, <2>5, Zenon DEF Heard
    <3>2. QED
      BY <3>1
  <2>6. QED
    BY <2>2, <2>3, <2>4, <2>5 DEF IInv, AppPart
<1> DEFINE A == [i \in DOMAIN arrivals |->
                    IF arrivals[i].fate = "waiting"
                    THEN [arrivals[i] EXCEPT !.fate = "replaced"] ELSE arrivals[i]]
           e == [link |-> link, fate |-> fate]
<1>2. arrivals' = Append(A, e)
  BY <1>1 DEF Arrive
<1>3. DOMAIN A = 1..Len(arrivals) /\ Len(arrivals) \in Nat
  BY LenProperties DEF IInv, LinkPart
<1>4. Len(arrivals') = Len(arrivals) + 1 /\ arrivals'[Len(arrivals) + 1] = e
  <2> HIDE DEF A, e
  <2>1. PICK B : B = {A[i] : i \in DOMAIN A} \cup {e}
    OBVIOUS
  <2>2. A \in Seq(B) /\ Len(A) = Len(arrivals)
    <3>1. A = [i \in 1..Len(arrivals) |-> A[i]]
      BY <1>3 DEF A
    <3>2. \A i \in 1..Len(arrivals) : A[i] \in B
      BY <1>3, <2>1
    <3>3. QED
      BY <1>3, <3>1, <3>2
  <2>3. QED
    BY <1>2, <2>1, <2>2, AppendProperties
<1>5. fate = "shown" /\ arrivals'[Len(arrivals')].link = link
  BY <1>4
<1>6. page' = Shown(MapToPage(link))
  BY <1>1, <1>5 DEF Show, Shown
<1>7. QED
  BY <1>5, <1>6, MappedAgrees

\* When the front end follows a link that the router accepts, it shows the
\* page of the route; it falls back to home only for a page it has not and for a
\* spelling it does not read (Plain): the router and the front end's own parser
\* agree on every other link (web/src/tauri, src/router.rs).
THEOREM LinksShowTheirPage == Spec => ShownIsAsked
<1> DEFINE A == /\ arrivals' # arrivals /\ Len(arrivals') > 0
                /\ arrivals'[Len(arrivals')].fate = "shown"
                => Agrees(arrivals'[Len(arrivals')].link, page')
<1>1. ASSUME IInv, [Next]_vars PROVE A
  <2> SUFFICES ASSUME arrivals' # arrivals, arrivals'[Len(arrivals')].fate = "shown"
               PROVE  Agrees(arrivals'[Len(arrivals')].link, page')
    OBVIOUS
  <2>0. HostPart
    BY <1>1 DEF IInv
  <2>1. ASSUME NEW link \in Links, OpenLink(link)
        PROVE  Agrees(arrivals'[Len(arrivals')].link, page')
    BY <1>1, <2>1, LinksAssumption, DeliverShows DEF OpenLink, LinksAssumption
  <2>2. CASE HostOpens
    BY <1>1, <2>0, <2>2, HostLinkIsRaw, DeliverShows DEF HostOpens, Fail, os, Idle
  <2>3. CASE BrokerOpens
    <3>1. host # Idle
      BY <2>3 DEF BrokerOpens, Idle
    <3>2. /\ ParseDeepLink(host.link) # NoRoute
          /\ Deliver(CanonicalUri(ParseDeepLink(host.link)))
      BY <2>3 DEF BrokerOpens, Fail, os
    <3>3. CanonicalUri(ParseDeepLink(host.link)) \in RawLink
      BY <2>0, <3>1, <3>2, HostLinkIsRaw, RoundTrip
    <3>4. QED
      BY <1>1, <3>2, <3>3, DeliverShows
  <2>4. CASE FrontReadsCurrent
    <3> DEFINE n == Len(arrivals)
    <3>1. \/ /\ current # <<>> /\ arrivals' = [arrivals EXCEPT ![n].fate = "threw"]
          \/ /\ current # <<>> /\ arrivals' = [arrivals EXCEPT ![n].fate = "shown"]
             /\ Show(MapToPage(current[1]))
      BY <2>4 DEF FrontReadsCurrent
    <3>2. /\ arrivals \in Seq(Arrival) /\ arrivals # <<>> /\ current[1] = arrivals[n].link
      BY <1>1, <3>1 DEF IInv, LinkPart
    <3>3. n \in 1..Len(arrivals) /\ arrivals[n] \in Arrival
      <4>1. n \in 1..Len(arrivals)
        BY <3>2, EmptySeq, LenProperties
      <4>2. QED
        BY <3>2, <4>1, ElementOfSeq
    <3>4. PICK fate : /\ arrivals' = [arrivals EXCEPT ![n].fate = fate]
                      /\ fate = "threw" \/ (fate = "shown" /\ Show(MapToPage(current[1])))
      BY <3>1
    <3>5. Len(arrivals') = n /\ arrivals'[n] = [arrivals[n] EXCEPT !.fate = fate]
      BY <3>2, <3>3, <3>4, LenProperties
    <3>6. arrivals'[n].fate = fate /\ arrivals'[n].link = arrivals[n].link
      BY <3>3, <3>5 DEF Arrival
    <3>7. page' = Shown(MapToPage(current[1]))
      BY <3>4, <3>5, <3>6 DEF Show, Shown
    <3>8. current[1] \in RawLink
      BY <3>2, <3>3 DEF Arrival
    <3>9. QED
      BY <3>2, <3>5, <3>6, <3>7, <3>8, MappedAgrees
  <2>5. CASE Quit
    <3> DEFINE n == Len(arrivals)
               B == [i \in DOMAIN arrivals |->
                       IF arrivals[i].fate = "waiting" THEN [arrivals[i] EXCEPT !.fate = "quit"]
                       ELSE arrivals[i]]
    <3>1. arrivals' = B
      BY <2>5 DEF Quit
    <3>2. /\ arrivals \in Seq(Arrival) /\ n \in Nat /\ DOMAIN arrivals = 1..n
          /\ arrivals = [i \in 1..n |-> arrivals[i]]
          /\ \A i \in 1..n : arrivals[i] \in Arrival /\ (i # n => arrivals[i].fate # "waiting")
      BY <1>1, LenProperties, ElementOfSeq DEF IInv, LinkPart
    <3>3. PICK i \in 1..n : arrivals[i].fate = "waiting"
      <4>1. (\A i \in 1..n : arrivals[i].fate # "waiting") => B = arrivals
        BY <3>2
      <4>2. QED
        BY <3>1, <4>1
    <3>4. Len(B) = n /\ B[n].fate = "quit"
      BY <3>2, <3>3 DEF Arrival
    <3>5. QED
      BY <3>1, <3>4
  <2>6. CASE UNCHANGED vars
    BY <2>6 DEF vars, os
  <2>7. CASE \/ \E link \in HostLinks : HostAsks(link)
             \/ HostAsksSession \/ BrokerAnswers \/ HostReadsNothing \/ HostNext
             \/ StandaloneFlips \/ SidecarFlips \/ Launch
    BY <2>7 DEF HostAsks, HostAsksSession, BrokerAnswers, HostReadsNothing, HostNext, Fail,
                StandaloneFlips, SidecarFlips, Launch, os
  <2>8. CASE \/ SetupReadsCurrent \/ SetupSpawns \/ SetupDrains \/ FrontLoads \/ FrontListens
             \/ \E p \in UserPages : UserGoes(p)
             \/ EffectRunsAgain
    BY <2>8 DEF SetupReadsCurrent, SetupSpawns, SetupDrains, FrontLoads, FrontListens, UserGoes,
                EffectRunsAgain, os
  <2>9. QED
    BY <1>1, <2>1, <2>2, <2>3, <2>4, <2>5, <2>6, <2>7, <2>8 DEF Next
<1>2. ASSUME IInv, [Next]_vars PROVE [A]_vars
  BY <1>1, <1>2
<1>3. ShownIsAsked <=> [][A]_vars
  BY DEF ShownIsAsked
<1>4. QED
  BY <1>2, <1>3, InvariantHolds, PTL DEF Spec
=============================================================================
