--------------------------- MODULE MCDesktopLinks ---------------------------
(***************************************************************************)
(* Bounds for DesktopLinks.  The links are aliases, in upper case, with    *)
(* escapes and with a block spelled with leading zeros, a link the router  *)
(* rejects but the fallback lets through, and one that cannot be decoded.  *)
(* The canonical links are those that nearxd opens.  MCNested is a link    *)
(* of DEEP_LINK_URI_SPEC.md that the front end shows as home.              *)
(***************************************************************************)
EXTENDS DesktopLinks

CONSTANTS U, N      \* what Undecodable and None stand for

MCTexts ==
    Words \cup {"TX", "MAINNET", "hash", "hash2", "7", "007", "alice", "al ice", "key",
                "get$x", "open", "session", "id", ""}
MCRaw == MCTexts \cup {"al%69ce", "get%24x", "%ff"}

MCDecode == [r \in MCRaw |-> CASE r = "al%69ce" -> "alice" [] r = "get%24x" -> "get$x"
                               [] r = "%ff" -> U [] OTHER -> r]
MCEncode == [t \in MCTexts |-> IF t = "get$x" THEN "get%24x" ELSE t]
MCLower  == [t \in MCTexts |-> CASE t = "TX" -> "tx" [] t = "MAINNET" -> "mainnet" [] OTHER -> t]
MCBlockRef == [t \in MCTexts |-> CASE t \in {"7", "007"} -> "7" [] t = "hash2" -> "hash2"
                                   [] OTHER -> N]
MCHashes == {"hash", "hash2"}
MCAccounts == {"alice"}
MCKeys == {"key"}
MCMethods == {"get$x"}
MCVersions == {"v2"}
MCJsThrows == {"%ff"}

Link(scheme, slashes, segs, pairs) ==
    [scheme |-> scheme, slashes |-> slashes, segs |-> segs, pairs |-> pairs]
Pair(key, value) == [key |-> key, value |-> value]

MCAlias == Link("near", 2, <<"TX", "007", "hash2">>, <<Pair("network", "MAINNET")>>)
MCStaking == Link("nearx", 2, <<"staking">>, <<Pair("network", "testnet"), Pair("account", "al%69ce")>>)
MCRejected == Link("near", 2, <<"v1", "block", "hash">>, <<>>)
MCBroken == Link("nearx", 2, <<"v1", "tx", "%ff">>, <<>>)
MCNested == Link("nearx", 2, <<"tx", "7", "hash2">>, <<>>)
MCLinks == {MCStaking, MCRejected, MCBroken, MCNested}
MCHostLinks == {MCAlias}
MCSession == Link("near", 2, <<"open", "session", "id">>, <<>>)
MCUserPages == {[page |-> "account", arg |-> "alice"]}
=============================================================================
