---------------------------- MODULE DesktopLinks ----------------------------
(***************************************************************************)
(* A deep link on its way to a page of the desktop app.                    *)
(*                                                                         *)
(*   - the native messaging host (native-host/src/main.rs) hands a link of *)
(*     the browser extension to nearxd, or opens it itself when no nearxd  *)
(*     listens; nearxd (broker.rs) opens the canonical form;               *)
(*   - the operating system starts the app with the link, or gives it to   *)
(*     the one that runs (single instance and deep-link plugins);          *)
(*   - the desktop shell (tauri-workspace/src-tauri/src/main.rs) turns what*)
(*     it receives into "nearx://open" events, and spawns a nearxd of its  *)
(*     own, at an endpoint of its own, when no other runs;                 *)
(*   - the front end (web/src/App.tsx, web/src/tauri/) does not listen to  *)
(*     those events: it asks the plugin for the current link and then      *)
(*     subscribes to new ones.                                             *)
(***************************************************************************)
EXTENDS Router, FiniteSets

CONSTANTS
    Links,          \* the links people and programs open
    HostLinks,      \* the links the extension asks the native host to open
    SessionLink,    \* what the host's open_session opens
    MaxOpens,       \* how many links reach the app
    MaxFlips,       \* how often a nearxd starts or stops
    UserPages       \* the pages the user goes to from within the app

ASSUME LinksAssumption ==
    /\ Links \cup HostLinks \cup {SessionLink} \subseteq RawLink
    /\ Links # {} /\ MaxOpens \in Nat /\ MaxFlips \in Nat
    /\ \A p \in UserPages : p.page \in {"tx", "block", "account"} => p.arg # ""

VARIABLES
    standalone, \* does a nearxd listen at the default endpoint?
    sidecar,    \* does the app's own nearxd listen?
    flips,
    host,       \* the native host's request
    app,        \* where the shell's setup is
    own,        \* do the shell's requests go to the sidecar's endpoint?
    current,    \* the plugin's get_current: an Option, as a sequence
    pending,    \* PendingLinks
    arrivals,   \* history: the links the app was given, and what became of them
    sub,        \* the front end's subscription
    page,       \* the page that is shown
    moved,      \* has the page changed since the subscription was made?
    saved       \* the persisted last route

os     == <<current, arrivals>>
nearxd == <<standalone, sidecar, flips>>
shell  == <<app, own, pending>>
front  == <<sub, page, moved, saved>>
vars   == <<nearxd, host, shell, os, front>>

Idle == [state |-> "idle"]

Init ==
    /\ standalone \in BOOLEAN /\ sidecar = FALSE /\ flips = 0
    /\ host = Idle
    /\ app = "off" /\ own = FALSE /\ pending = {}
    /\ current = <<>> /\ arrivals = <<>>
    /\ sub = "none" /\ page = HomePage /\ moved = FALSE
    /\ saved \in {HomePage} \cup UserPages

-----------------------------------------------------------------------------
(* canonicalize_deep_link.  nearxd_request fails when nobody listens, and  *)
(* also when nearxd rejects the link.                                      *)
Listening == IF own THEN sidecar ELSE standalone

StrictV1(link) ==
    /\ link.scheme \in {"nearx", "near"} /\ link.slashes = 2
    /\ Len(link.segs) > 1 /\ link.segs[1] = "v1"

Canonicalize(link) ==
    IF Listening /\ ParseDeepLink(link) # NoRoute
    THEN {CanonicalUri(ParseDeepLink(link))}
    ELSE {[l EXCEPT !.scheme = "nearx"] : l \in {k \in {link} : StrictV1(k)}}

-----------------------------------------------------------------------------
(* A new page: the route history persists it, and when the path changes    *)
(* useNavigate has a new function for the components that called it.       *)
Show(p) ==
    LET shown == IF p = NoPage THEN HomePage ELSE p
    IN  page' = shown /\ saved' = shown /\ moved' = (moved \/ shown # page)

(* Faulty variant: the link remembered is the first one.                   *)
ArriveKeepsFirst(link, fate) ==
    /\ current' = IF current = <<>> THEN <<link>> ELSE current
    /\ arrivals' = Append(arrivals, [link |-> link, fate |-> fate])

(* The plugin remembers only the last link.  One that the front end was    *)
(* not told of waits to be read, unless the next one replaces it.          *)
Arrive(link, fate) ==
    /\ current' = <<link>>
    /\ arrivals' = Append([i \in DOMAIN arrivals |->
                              IF arrivals[i].fate = "waiting"
                              THEN [arrivals[i] EXCEPT !.fate = "replaced"]
                              ELSE arrivals[i]],
                          [link |-> link, fate |-> fate])

Heard(link) ==
    CASE sub = "on" /\ ~ Throws(link) ->
            Arrive(link, "shown") /\ Show(MapToPage(link)) /\ UNCHANGED sub
      [] sub = "on" /\ Throws(link)   -> Arrive(link, "threw") /\ UNCHANGED front
      [] sub \in {"none", "ask"}      -> Arrive(link, "waiting") /\ UNCHANGED front
      [] sub \in {"gap", "deaf"}      -> Arrive(link, "missed") /\ UNCHANGED front

(* The operating system starts the app with the link or hands it to the    *)
(* one that runs.  The shell emits the canonical form of what it sees, to  *)
(* nobody: the front end listens to the plugin only.                       *)
Deliver(link) ==
    /\ Len(arrivals) < MaxOpens
    /\ app' = IF app = "off" THEN "current" ELSE app
    /\ Heard(link)
    /\ UNCHANGED <<own, pending>>

(* Somebody opens a link: a web page, another program, the user.           *)
OpenLink(link) == Deliver(link) /\ UNCHANGED <<nearxd, host>>

-----------------------------------------------------------------------------
(* open_url_broker_first.  The host connects to the default endpoint: it   *)
(* knows nothing of the sidecar's.                                         *)
HostAsks(link) ==
    /\ host = Idle
    /\ Len(arrivals) < MaxOpens
    /\ host' = [state |-> IF standalone THEN "sent" ELSE "direct",
                link |-> link, opened |-> <<>>, reply |-> "none"]
    /\ UNCHANGED <<nearxd, shell, os, front>>

(* open_session asks no nearxd.                                            *)
HostAsksSession ==
    /\ host = Idle
    /\ Len(arrivals) < MaxOpens
    /\ host' = [state |-> "direct", link |-> SessionLink, opened |-> <<>>, reply |-> "none"]
    /\ UNCHANGED <<nearxd, shell, os, front>>

Fail == host' = [host EXCEPT !.state = "done", !.reply = "err"] /\ UNCHANGED <<shell, os, front>>

(* open_url spawns the system's opener, which may not be there.            *)
HostOpens ==
    /\ host.state = "direct"
    /\ \/ /\ Deliver(host.link)
          /\ host' = [host EXCEPT !.state = "done", !.opened = Append(@, host.link), !.reply = "ok"]
       \/ Fail
    /\ UNCHANGED nearxd

(* "open_deep_link" of the broker.  The host goes by the words of its      *)
(* answer: an opener that nearxd does not find makes "open failed: No such *)
(* file or directory" of ERR_OPEN, and then the host opens the link as it  *)
(* came.                                                                   *)
BrokerOpens ==
    /\ host.state = "sent" /\ standalone
    /\ LET route == ParseDeepLink(host.link)
       IN  \/ /\ route # NoRoute
              /\ Deliver(CanonicalUri(route))
              /\ host' = [host EXCEPT !.state = "opened",
                                      !.opened = Append(@, CanonicalUri(route))]
           \/ /\ route # NoRoute
              /\ host' = [host EXCEPT !.state = "direct"]
              /\ UNCHANGED <<shell, os, front>>
           \/ Fail      \* an ERR_ code of the router, or another ERR_OPEN
    /\ UNCHANGED nearxd

BrokerAnswers ==
    /\ host.state = "opened" /\ standalone
    /\ host' = [host EXCEPT !.state = "done", !.reply = "ok"]
    /\ UNCHANGED <<nearxd, shell, os, front>>

(* Faulty variant: the host opens the link itself.                         *)
HostReadsNothingAndOpens ==
    /\ host.state \in {"sent", "opened"} /\ ~ standalone
    /\ host' = [host EXCEPT !.state = "direct"]
    /\ UNCHANGED <<nearxd, shell, os, front>>

(* nearxd went away: what the host says of an answer it did not read has   *)
(* none of the words that make it open the link itself.                    *)
HostReadsNothing ==
    /\ host.state \in {"sent", "opened"} /\ ~ standalone
    /\ Fail
    /\ UNCHANGED nearxd

HostNext ==
    /\ host.state = "done"
    /\ host' = Idle
    /\ UNCHANGED <<nearxd, shell, os, front>>

(* A nearxd starts or stops; the sidecar may listen late, or die.          *)
StandaloneFlips ==
    /\ flips < MaxFlips
    /\ standalone' = ~ standalone
    /\ flips' = flips + 1
    /\ UNCHANGED <<sidecar, host, shell, os, front>>

SidecarFlips ==
    /\ own /\ flips < MaxFlips
    /\ sidecar' = ~ sidecar
    /\ flips' = flips + 1
    /\ UNCHANGED <<standalone, host, shell, os, front>>

-----------------------------------------------------------------------------
(* The shell's setup.  The link is canonicalized before the sidecar runs.  *)
Launch ==
    /\ app = "off"
    /\ app' = "current"
    /\ UNCHANGED <<nearxd, host, own, pending, os, front>>

SetupReadsCurrent ==
    /\ app = "current"
    /\ app' = "spawn"
    /\ pending' = UNION {Canonicalize(current[i]) : i \in DOMAIN current}
    /\ UNCHANGED <<nearxd, host, own, os, front>>

SetupSpawns ==
    /\ app = "spawn"
    /\ app' = "drain"
    /\ \/ UNCHANGED <<own, sidecar>>                    \* one runs already, or none is bundled
       \/ /\ ~ standalone
          /\ own' = TRUE
          /\ sidecar' \in BOOLEAN                       \* within a second, or not
    /\ UNCHANGED <<standalone, flips, host, pending, os, front>>

SetupDrains ==
    /\ app = "drain"
    /\ app' = "on"
    /\ pending' = {}                    \* emitted, to the main window
    /\ UNCHANGED <<nearxd, host, own, os, front>>

Quit ==
    /\ app = "on"
    /\ app' = "off" /\ own' = FALSE /\ sidecar' = FALSE
    /\ current' = <<>>
    /\ arrivals' = [i \in DOMAIN arrivals |->
                       IF arrivals[i].fate = "waiting" THEN [arrivals[i] EXCEPT !.fate = "quit"]
                       ELSE arrivals[i]]
    /\ sub' = "none" /\ page' = HomePage /\ moved' = FALSE
    /\ UNCHANGED <<standalone, flips, host, pending, saved>>

-----------------------------------------------------------------------------
(* The front end: DeepLinkBridge, whose effect begins to subscribe, and    *)
(* LastRouteRestore, whose effect runs before the first link can be read.  *)
FrontLoads ==
    /\ app = "on" /\ sub = "none"
    /\ sub' = "ask"
    /\ page' = saved /\ moved' = (saved # HomePage)
    /\ UNCHANGED <<nearxd, host, shell, os, saved>>

(* Faulty variant: the current link is not asked for.                      *)
FrontReadsNothing ==
    /\ sub = "ask"
    /\ sub' = "gap"
    /\ UNCHANGED <<nearxd, host, shell, os, page, saved, moved>>

(* subscribeDeepLinks: getCurrent first.  What forward throws is caught    *)
(* there, and then nothing is subscribed.                                  *)
FrontReadsCurrent ==
    /\ sub = "ask"
    /\ LET last == Len(arrivals)
       IN  \/ /\ current = <<>>
              /\ sub' = "gap" /\ UNCHANGED <<arrivals, page, saved, moved>>
           \/ /\ current # <<>> /\ Throws(current[1])
              /\ sub' = "deaf"
              /\ arrivals' = [arrivals EXCEPT ![last].fate = "threw"]
              /\ UNCHANGED <<page, saved, moved>>
           \/ /\ current # <<>> /\ ~ Throws(current[1])
              /\ sub' = "gap"
              /\ arrivals' = [arrivals EXCEPT ![last].fate = "shown"]
              /\ Show(MapToPage(current[1]))
    /\ UNCHANGED <<nearxd, host, shell, current>>

(* ... then onOpenUrl.                                                     *)
FrontListens ==
    /\ sub = "gap"
    /\ sub' = "on"
    /\ UNCHANGED <<nearxd, host, shell, os, page, moved, saved>>

UserGoes(p) ==
    /\ sub # "none"
    /\ p # page
    /\ Show(p)
    /\ UNCHANGED <<nearxd, host, shell, os, sub>>

(* The effect depends on navigate.  Whether that changes with the path is  *)
(* the router library's business; if it does, the effect runs again.       *)
EffectRunsAgain ==
    /\ sub # "none" /\ moved
    /\ sub' = "ask" /\ moved' = FALSE
    /\ UNCHANGED <<nearxd, host, shell, os, page, saved>>

Setup == SetupReadsCurrent \/ SetupSpawns \/ SetupDrains
FrontStep == FrontLoads \/ FrontReadsCurrent \/ FrontListens

Next ==
    \/ \E link \in Links : OpenLink(link)
    \/ \E link \in HostLinks : HostAsks(link)
    \/ HostAsksSession
    \/ HostOpens
    \/ BrokerOpens
    \/ BrokerAnswers
    \/ HostReadsNothing
    \/ HostNext
    \/ StandaloneFlips
    \/ SidecarFlips
    \/ Launch
    \/ SetupReadsCurrent
    \/ SetupSpawns
    \/ SetupDrains
    \/ Quit
    \/ FrontLoads
    \/ FrontReadsCurrent
    \/ FrontListens
    \/ \E p \in UserPages : UserGoes(p)
    \/ EffectRunsAgain

(* Setup runs to its end on the main thread, and the web view runs the     *)
(* front end's effects and answers its calls.                              *)
Spec == Init /\ [][Next]_vars /\ WF_vars(Setup) /\ WF_vars(FrontStep)

-----------------------------------------------------------------------------
Fates == {"waiting", "shown", "threw", "missed", "replaced", "quit"}
HostOK ==
    \/ host = Idle
    \/ /\ host.state \in {"sent", "direct", "opened", "done"}
       /\ host.link \in HostLinks \cup {SessionLink}
       /\ host.reply \in {"none", "ok", "err"}

(* A page has an argument exactly if its kind takes one: no link and no    *)
(* restored route leads to /tx/ or /block/ with nothing behind it.  The    *)
(* other conjuncts give the types.                                         *)
TypeOK ==
    /\ standalone \in BOOLEAN /\ sidecar \in BOOLEAN /\ own \in BOOLEAN /\ moved \in BOOLEAN
    /\ sidecar => own
    /\ HostOK
    /\ app \in {"off", "current", "spawn", "drain", "on"}
    /\ current # <<>> => current = <<arrivals[Len(arrivals)].link>>
    /\ sub \in {"none", "ask", "gap", "on", "deaf"}
    /\ page.page \in {"tx", "block", "account"} => page.arg # ""
    /\ app # "on" => sub = "none"
    /\ \A i \in DOMAIN arrivals : arrivals[i].fate \in Fates

(* What nearxd has the system open means what it was asked to open: the    *)
(* canonical form of a link, alias or not, parses to the link's own route. *)
OpenedAsAsked ==
    host # Idle => \A i \in DOMAIN host.opened :
                      ParseDeepLink(host.opened[i]) = ParseDeepLink(host.link)

(* The extension's request opens its link at most once, although host and  *)
(* nearxd can both do it and nearxd may vanish at any point; "ok" says     *)
(* that it was opened.                                                     *)
AnswerIsTrue ==
    host # Idle => /\ Len(host.opened) <= 1
                   /\ host.reply = "ok" => Len(host.opened) = 1

(* Two parsers read a link, the router's and the front end's.  When the    *)
(* front end follows a link that the router accepts, it shows the page of  *)
(* the route.  It falls back to home only for a page that it has not       *)
(* (contract, access-key) and for a spelling it does not read: a scheme    *)
(* web+..., other slashes than two, words in upper case, and tx with the   *)
(* block in the path.  The documents ask for more: DEEP_LINK_URI_SPEC.md   *)
(* maps the last to the transaction (line 197) and wants no silent fallback*)
(* to an unrelated route (259), QA_PLAYBOOK.md a contract and an access-key*)
(* link routed correctly (68-75).                                          *)
RoutePage(route) ==
    CASE route.page = "home"    -> HomePage
      [] route.page = "staking" -> [page |-> "staking",
                                    arg |-> IF "account" \in DOMAIN route.opts
                                            THEN route.opts["account"] ELSE ""]
      [] OTHER                  -> [page |-> route.page, arg |-> route.args[1]]

Has(route) == route.page \in {"home", "tx", "block", "account", "staking"}

Plain(link, route) ==
    /\ Has(route)
    /\ link.scheme \in {"nearx", "near"} /\ link.slashes = 2
    /\ SubSeq(Segments(link), 1, Len(link.segs) - Len(route.args))
          \in {<<route.page>>, <<"v1", route.page>>}

Fits(route, p) ==
    /\ Has(route) /\ p.page = RoutePage(route).page
    /\ p.page = "block" => BlockRef[p.arg] = RoutePage(route).arg
    /\ p.page # "block" => p = RoutePage(route)

Agrees(link, p) ==
    LET route == ParseDeepLink(link)
    IN  route # NoRoute => Fits(route, p) \/ (p = HomePage /\ ~ Plain(link, route))

ShownIsAsked ==
    [][LET last == Len(arrivals')
       IN  /\ arrivals' # arrivals /\ last > 0
           /\ arrivals'[last].fate = "shown"
           => Agrees(arrivals'[last].link, page')]_vars

(* A link the front end was not told of does not wait for ever: it is      *)
(* read with getCurrent, unless the next one replaces it or the user quits.*)
Waiting(i) == i \in DOMAIN arrivals /\ arrivals[i].fate = "waiting"

WaitingIsRead == \A i \in 1..MaxOpens : Waiting(i) ~> ~ Waiting(i)
=============================================================================
