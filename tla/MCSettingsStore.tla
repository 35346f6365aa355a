--------------------------- MODULE MCSettingsStore ---------------------------
(***************************************************************************)
(* Instances of SettingsStore for TLC: two connections, one key, one label *)
(* and one account, and at least one request of every kind; a label and a  *)
(* whole document where set_signing_settings overlaps.                     *)
(***************************************************************************)
EXTENDS SettingsStore

CONSTANTS c1, c2, k1, l1, a1, p1

MCConns   == {c1, c2}
MCKeys    == {k1}
MCLabels  == {l1}
MCWatch   == {a1}
MCPrefs   == {p1}
MCRawDocs == {Scalar}

SetLabel   == [kind |-> "label", key |-> k1, label |-> l1]
ClearLabel == [kind |-> "label", key |-> k1, label |-> NoLabel]
Import     == [kind |-> "index", keys |-> {k1}]
ImportNone == [kind |-> "index", keys |-> {}]
Connect    == [kind |-> "connect", key |-> k1]
WatchIt    == [kind |-> "watch", account |-> a1]
UnwatchIt  == [kind |-> "unwatch", account |-> a1]
SetPrefs   == [kind |-> "prefs", prefs |-> p1]
SetRaw     == [kind |-> "raw", doc |-> Scalar]

MCRequests == {SetLabel, ClearLabel, Import, ImportNone, Connect, WatchIt,
               UnwatchIt, SetPrefs, SetRaw}
MCBeside   == {SetLabel, SetRaw}
=============================================================================
