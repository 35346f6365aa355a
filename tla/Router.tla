------------------------------- MODULE Router -------------------------------
(***************************************************************************)
(* The deep-link router (src/router.rs), which nearxd, the desktop shell   *)
(* and the terminal program share, and the web front end's own map from a  *)
(* deep link to a page (web/src/tauri/deeplink.ts).                        *)
(*                                                                         *)
(* A link is taken apart at its separators; what stands between them are   *)
(* raw tokens, still percent-encoded.  A route is a page with its path     *)
(* identifiers and the query arguments it was given: the seven variants of *)
(* RouteV1 differ only in which of those they have (ArgKinds, OptKeys).    *)
(* Every error is NoRoute: which one it is only words the answer.          *)
(***************************************************************************)
EXTENDS Naturals, Sequences

CONSTANTS
    Raw,            \* percent-encoded tokens
    Text,           \* decoded tokens
    Undecodable,    \* what urlencoding::decode says of bytes that are not UTF-8
    NoRoute,        \* a ParseError
    None,           \* an identifier that does not parse
    Decode,         \* urlencoding::decode of each raw token
    Encode,         \* urlencoding::encode of each text
    Lower,          \* to_ascii_lowercase of each text
    BlockRef,       \* parse_block_ref, spelled as as_string spells it, or None
    TxHashes, Accounts, PublicKeys, Methods,    \* what the validators accept
    OtherVersions   \* "v0", "v2", ... in lower case

Pages == {"home", "tx", "block", "account", "contract", "access-key", "staking"}
Networks == {"mainnet", "testnet", "betanet", "localnet", "custom"}
Schemes == {"nearx", "near", "web+nearx", "web+near"}

(* The path identifiers of a page, in order, and its query arguments.      *)
ArgKinds(page) ==
    CASE page \in {"home", "staking"}      -> <<>>
      [] page = "tx"                       -> <<"tx">>
      [] page = "block"                    -> <<"block">>
      [] page \in {"account", "contract"}  -> <<"account">>
      [] page = "access-key"               -> <<"account", "key">>

OptKeys(page) ==
    CASE page = "home"     -> {}
      [] page = "tx"       -> {"block", "network"}
      [] page = "contract" -> {"method", "network"}
      [] page = "staking"  -> {"account", "network"}
      [] page \in {"block", "account", "access-key"} -> {"network"}

Words == Pages \cup Networks \cup {"v1", "method", "network"}

(* Identifiers and the router's own words are written with characters that *)
(* percent-encoding leaves alone.  A block reference is spelled one way.   *)
ASSUME RouterAssumption ==
    /\ Decode \in [Raw -> Text \cup {Undecodable}] /\ Undecodable \notin Text
    /\ Encode \in [Text -> Raw]
    /\ Lower \in [Text -> Text]
    /\ BlockRef \in [Text -> Text \cup {None}] /\ None \notin Text
    /\ \A t \in Text : Decode[Encode[t]] = t
    /\ \A t \in Text : BlockRef[t] # None => BlockRef[BlockRef[t]] = BlockRef[t]
    /\ TxHashes \cup Accounts \cup PublicKeys \cup Words \subseteq Text \cap Raw
    /\ \A t \in Text : BlockRef[t] \in Text => BlockRef[t] \in Raw
    /\ Methods \subseteq Text
    /\ \A t \in TxHashes \cup Accounts \cup PublicKeys \cup Words : Decode[t] = t
    /\ \A t \in Text : BlockRef[t] # None => Decode[BlockRef[t]] = BlockRef[t]
    /\ \A t \in Words : Lower[t] = t
    /\ OtherVersions \cap Words = {}
    /\ \A r \in Raw : Decode[r] = "" => r = ""
    /\ "" \notin TxHashes \cup Accounts \cup PublicKeys /\ \A t \in Text : BlockRef[t] # ""

(* raw: what stands before the first colon, how many slashes follow it,    *)
(* the segments that are not empty, and the pairs of the query.  "other"   *)
(* is every scheme but the four.                                           *)
RawLink == [scheme : Schemes \cup {"other"}, slashes : 0..3, segs : Seq(Raw \ {""}),
            pairs : Seq([key : Raw, value : Raw])]

(* Reading one identifier, of the path or of the query.                    *)
Accepted(t, texts) == IF t \in texts THEN t ELSE None

Identifier(kind, t) ==
    CASE kind = "tx"      -> Accepted(t, TxHashes)
      [] kind = "block"   -> BlockRef[t]
      [] kind = "account" -> Accepted(t, Accounts)
      [] kind = "key"     -> Accepted(t, PublicKeys)
      [] kind = "method"  -> Accepted(t, Methods)
      [] kind = "network" -> Accepted(Lower[t], Networks)

(* One arm of parse_v1_canonical or parse_v1_alias.                        *)
PageRoute(page, args, query) ==
    IF /\ page \in Pages
       /\ Len(args) = Len(ArgKinds(page))
       /\ DOMAIN query \subseteq OptKeys(page)
       /\ \A i \in DOMAIN args : Identifier(ArgKinds(page)[i], args[i]) # None
       /\ \A k \in DOMAIN query : Identifier(k, query[k]) # None
    THEN [page |-> page,
          args |-> [i \in DOMAIN args |-> Identifier(ArgKinds(page)[i], args[i])],
          opts |-> [k \in DOMAIN query |-> Identifier(k, query[k])]]
    ELSE NoRoute

ParseCanonical(segs, query) ==
    IF Len(segs) = 1
    THEN PageRoute("home", <<>>, query)
    ELSE PageRoute(Lower[segs[2]], SubSeq(segs, 3, Len(segs)), query)

(* near://tx/<block>/<hash> names the block in the path and then takes no  *)
(* notice of a block in the query.                                         *)
ParseAlias(segs, query) ==
    IF Lower[segs[1]] = "tx" /\ Len(segs) = 3
    THEN PageRoute("tx", <<segs[3]>>, [k \in DOMAIN query \cup {"block"} |->
                                           IF k = "block" THEN segs[2] ELSE query[k]])
    ELSE PageRoute(Lower[segs[1]], SubSeq(segs, 2, Len(segs)), query)

ParseRoute(segs, query) ==
    IF segs = <<>> THEN NoRoute
    ELSE IF Lower[segs[1]] = "v1" THEN ParseCanonical(segs, query)
    ELSE IF Lower[segs[1]] \in OtherVersions THEN NoRoute
    ELSE ParseAlias(segs, query)

(* decode_segments and parse_query_map; a key given twice is an error.     *)
Decodable(link) ==
    /\ \A i \in DOMAIN link.segs : Decode[link.segs[i]] # Undecodable
    /\ \A i \in DOMAIN link.pairs :
          Decode[link.pairs[i].key] # Undecodable /\ Decode[link.pairs[i].value] # Undecodable

KeysOnce(link) ==
    \A i, j \in DOMAIN link.pairs :
        Decode[link.pairs[i].key] = Decode[link.pairs[j].key] => i = j

Segments(link) == [i \in DOMAIN link.segs |-> Decode[link.segs[i]]]

Query(link) ==
    [k \in {Decode[link.pairs[i].key] : i \in DOMAIN link.pairs} |->
        LET i == CHOOSE j \in DOMAIN link.pairs : Decode[link.pairs[j].key] = k
        IN  Decode[link.pairs[i].value]]

ParseDeepLink(link) ==
    IF link.scheme \in Schemes /\ Decodable(link) /\ KeysOnce(link)
    THEN ParseRoute(Segments(link), Query(link))
    ELSE NoRoute

(* Faulty variant: a transaction's block is left out.                      *)
CanonicalUriOfHash(route) ==
    [scheme |-> "nearx", slashes |-> 2, segs |-> <<"v1", route.page>> \o route.args,
     pairs  |-> IF "network" \in DOMAIN route.opts
                THEN <<[key |-> "network", value |-> Encode[route.opts["network"]]]>> ELSE <<>>]

(* The path is written as it is, the query is encoded, and its keys come in*)
(* the order of a BTreeMap: no page has two keys besides "network", and    *)
(* all of them sort before it.                                             *)
CanonicalUri(route) ==
    LET pair(k) == [key |-> k, value |-> Encode[route.opts[k]]]
        own     == DOMAIN route.opts \ {"network"}
    IN  [scheme  |-> "nearx",
         slashes |-> 2,
         segs    |-> <<"v1", route.page>> \o route.args,
         pairs   |-> (IF own = {} THEN <<>> ELSE <<pair(CHOOSE k \in own : TRUE)>>)
                     \o (IF "network" \in DOMAIN route.opts THEN <<pair("network")>> ELSE <<>>)]

-----------------------------------------------------------------------------
(* mapCanonicalDeepLinkToRoute.  URL puts the first segment in hostname    *)
(* when two slashes come before it; otherwise hostname is "".              *)
CONSTANT JsThrows   \* the tokens decodeURIComponent throws at

ASSUME JsAssumption ==
    /\ {r \in Raw : Decode[r] = Undecodable} \subseteq JsThrows
    /\ \A r \in JsThrows \cap Raw :
          Decode[r] \notin TxHashes \cup Accounts \cup PublicKeys \cup Words
    /\ "" \in Text

NoPage == [page |-> "none", arg |-> ""]
HomePage == [page |-> "home", arg |-> ""]

Throws(link) ==
    link.scheme \in {"nearx", "near"} /\ \E i \in DOMAIN link.segs : link.segs[i] \in JsThrows

UrlParts(link) ==
    LET segs == [i \in DOMAIN link.segs |-> Decode[link.segs[i]]]
    IN  IF link.slashes = 2 THEN segs ELSE <<"">> \o segs

AccountParam(link) ==
    LET hits == {i \in DOMAIN link.pairs : Decode[link.pairs[i].key] = "account"}
    IN  IF hits = {} THEN ""
        ELSE Decode[link.pairs[CHOOSE i \in hits : \A j \in hits : i <= j].value]

(* Faulty variant: "v1" is not skipped.                                    *)
MapToPageUnversioned(link) ==
    LET parts == UrlParts(link)
    IN  IF link.scheme \notin {"nearx", "near"} THEN NoPage
        ELSE IF Len(parts) = 2 /\ parts[1] \in {"tx", "block", "account"}
             THEN [page |-> parts[1], arg |-> parts[2]]
        ELSE IF parts # <<>> /\ parts[1] = "staking"
             THEN [page |-> "staking", arg |-> AccountParam(link)]
        ELSE NoPage

MapToPage(link) ==
    LET parts == UrlParts(link)
        base  == IF parts # <<>> /\ parts[1] = "v1" THEN 1 ELSE 0
        rest  == Len(parts) - base      \* the route and what follows it
    IN  IF link.scheme \notin {"nearx", "near"} \/ rest = 0 THEN NoPage
        ELSE IF parts[base + 1] = "home" /\ rest = 1 THEN HomePage
        ELSE IF parts[base + 1] \in {"tx", "block", "account"} /\ rest = 2
             THEN [page |-> parts[base + 1], arg |-> parts[base + 2]]
        ELSE IF parts[base + 1] = "staking"
             THEN [page |-> "staking", arg |-> AccountParam(link)]
        ELSE NoPage
=============================================================================
