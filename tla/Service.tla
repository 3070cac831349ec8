------------------------------ MODULE Service -------------------------------
(***************************************************************************)
(* The service around a Proxy (src/router/service.go) with its web         *)
(* forwards (src/router/forward.go): Start, ReloadConfig, Stop, and the    *)
(* dials by name that go on meanwhile.                                     *)
(*                                                                         *)
(* A local uri "name~scheme://at" of the configuration is a record; one    *)
(* without "~" has the scheme "alias".  Its remote uri is a member of Uris *)
(* that can be dialed as it is.  One goroutine owns the service and calls  *)
(* Start, ReloadConfig and Stop in turn.                                   *)
(***************************************************************************)
EXTENDS Forwards, FiniteSets

CONSTANTS
    Locs,       \* local uris: [name, scheme, at]
    Configs,    \* what the configuration file may hold: functions from some Locs to Uris
    NoUri,      \* no uri
    DialLists,  \* what is dialed: sequences of Names and Uris
    Found,      \* what the Finder finds: sequences of Names and Uris
    Listed,     \* [uri]: what DialAll makes of a uri, which it splits at its commas
    MaxEdits,   \* bound: edits of the configuration file
    MaxStarts   \* bound: calls of Start

Served   == {"socks", "proxy", "tcp", "rdp"}   \* by a listener of the Proxy; vnc is like rdp
WebKinds == {"web", "ws"}                      \* by the mappings of Forward; wss is like ws

ASSUME LocsAssumption ==
    \A l \in Locs : \/ l.scheme \in Served /\ l.name \in Names /\ l.at \in Ports
                    \/ l.scheme \in WebKinds \cup {"alias", "other"} /\ {l.name, l.at} \subseteq Names
ASSUME ConfigsAssumption ==
    \A c \in Configs : DOMAIN c \subseteq Locs /\ \A l \in DOMAIN c : c[l] \in Uris
ASSUME DialListsAssumption ==
    /\ DialLists \cup Found \subseteq Seq(Names \cup Uris) \ {<<>>}
    /\ Listed \in [Uris -> Seq(Names \cup Uris) \ {<<>>}]
ASSUME NamesAssumption == Names \cap Uris = {} /\ NoUri \notin Uris /\ Uris # {}

VARIABLES
    file,       \* the configuration file, and how often it was edited
    config,     \* Config.Forwards
    owner,      \* the goroutine in Start, ReloadConfig or Stop
    alias,      \* [name]: alias; kept over a restart
    web,        \* [host]: webMapping and wsMapping, never both
    shortcuts,  \* [name]: the listener a .rdp file was written for; 0 is none
    failed,     \* the locs whose last AddForward logged an error or a warning
    shared,     \* for a property: names two local uris of one configuration had
    dial        \* a goroutine in DialAll, or in ProcName and DialAll

configVars == <<file, config, owner>>
tableVars  == <<alias, web, shortcuts, failed, shared>>
vars == <<forwardVars, configVars, tableVars, dial>>

NoWeb == [kind |-> "none", uri |-> NoUri]

\* what AddForward adds a local uri under
Key(l) == IF l.scheme \in WebKinds THEN l.at ELSE l.name
SharedIn(c) == {Key(l) : l \in {x \in DOMAIN c : \E m \in DOMAIN c \ {x} : m.name = Key(x)}}

(***************************************************************************)
(* Start, ReloadConfig, Stop.                                              *)
(***************************************************************************)
\* An edit during a Start or a reload is only seen by the next.
EditFile ==
    /\ file.edits < MaxEdits /\ owner.pc \in {"up", "down"}
    /\ \E c \in Configs \ {file.data} : file' = [data |-> c, edits |-> file.edits + 1]
    /\ UNCHANGED <<forwardVars, config, owner, tableVars, dial>>

\* NewProxy, NewForward; the aliases stay.  A dialer that cannot be made, or a master that
\* cannot listen, ends Start before the forwards.
Start ==
    /\ owner.pc = "down" /\ node.no < MaxStarts
    /\ NewProxy
    /\ config' = file.data
    /\ owner' \in {[pc |-> "start", todo |-> DOMAIN file.data, new |-> file.data],
                   [pc |-> "failed", todo |-> {}, new |-> file.data]}
    /\ web' = [n \in Names |-> NoWeb]
    /\ failed' = {}
    /\ shared' = shared \cup SharedIn(file.data)
    /\ UNCHANGED <<file, alias, shortcuts, dial>>

\* A console that cannot listen closes the Proxy, which the service keeps; a web server
\* that cannot just ends Start.
StartEnds ==
    /\ owner.pc = "start" /\ owner.todo = {}
    /\ \E pc \in {"up", "failed", "undo"} : owner' = [owner EXCEPT !.pc = pc]
    /\ IF owner'.pc = "undo" THEN CloseRunning ELSE UNCHANGED forwardVars
    /\ UNCHANGED <<file, config, tableVars, dial>>

StartUndone ==
    /\ owner.pc = "undo"
    /\ CloseForwards
    /\ owner' = [owner EXCEPT !.pc = "failed"]
    /\ UNCHANGED <<file, config, tableVars, dial>>

\* The file is always read: configLast stays 0, so it is never taken for unmodified.
ReloadConfig ==
    /\ owner.pc = "up"
    /\ owner' = [pc |-> "remove", todo |-> DOMAIN config \ DOMAIN file.data, new |-> file.data]
    /\ shared' = shared \cup SharedIn(file.data)
    /\ UNCHANGED <<forwardVars, file, config, alias, web, shortcuts, failed, dial>>

ReloadAdds_NewOnly ==
    /\ owner.pc = "remove" /\ owner.todo = {} /\ leaving = 0
    /\ owner' = [owner EXCEPT !.pc = "add", !.todo = DOMAIN owner.new \ DOMAIN config]
    /\ UNCHANGED <<forwardVars, file, config, tableVars, dial>>

ReloadAdds ==
    /\ owner.pc = "remove" /\ owner.todo = {} /\ leaving = 0
    /\ owner' = [owner EXCEPT !.pc = "add",
                   !.todo = {l \in DOMAIN owner.new :
                               l \notin DOMAIN config \/ owner.new[l] # config[l]}]
    /\ UNCHANGED <<forwardVars, file, config, tableVars, dial>>

\* The new forwards are taken over, added or not.
ReloadEnds ==
    /\ owner.pc = "add" /\ owner.todo = {}
    /\ config' = owner.new
    /\ owner' = [owner EXCEPT !.pc = "up"]
    /\ failed' = failed \cap DOMAIN owner.new
    /\ UNCHANGED <<forwardVars, file, alias, web, shortcuts, shared, dial>>

\* Node.Close, then Node = nil; also after a Start that failed
Stop ==
    /\ owner.pc \in {"up", "failed"}
    /\ CloseRunning
    /\ owner' = [owner EXCEPT !.pc = "close"]
    /\ UNCHANGED <<file, config, tableVars, dial>>

StopEnds_KeepsForwards ==
    /\ owner.pc = "close"
    /\ owner' = [owner EXCEPT !.pc = "down"]
    /\ UNCHANGED <<forwardVars, file, config, tableVars, dial>>

StopEnds ==
    /\ owner.pc = "close"
    /\ CloseForwards
    /\ owner' = [owner EXCEPT !.pc = "down"]
    /\ UNCHANGED <<file, config, tableVars, dial>>

(***************************************************************************)
(* AddForward and RemoveForward of one local uri.                          *)
(***************************************************************************)
Handled(l) == owner' = [owner EXCEPT !.todo = @ \ {l}]

AddFails(l) ==
    /\ failed' = failed \cup {l}
    /\ UNCHANGED <<forwardVars, alias, web, shortcuts>>

AddAlias_Unreported(l, uri) ==
    /\ alias' = [alias EXCEPT ![l.name] = IF @ = NoUri THEN uri ELSE @]
    /\ failed' = failed \ {l}
    /\ UNCHANGED <<forwardVars, web, shortcuts>>

AddAlias(l, uri) ==
    \/ /\ alias[l.name] # NoUri
       /\ AddFails(l)
    \/ /\ alias[l.name] = NoUri
       /\ alias' = [alias EXCEPT ![l.name] = uri]
       /\ failed' = failed \ {l}
       /\ UNCHANGED <<forwardVars, web, shortcuts>>

\* Listening fails when the address is in use, or for a reason of the system's.  A .rdp
\* file that cannot be written is only warned about.
AddListener(l, uri) ==
    \/ AddFails(l)
    \/ /\ CanStart(l.name, l.at)
       /\ StartForward(l.name, IF l.scheme \in {"tcp", "rdp"} THEN "head" ELSE "library",
                       l.at, uri)
       /\ \/ /\ shortcuts' = IF l.scheme = "rdp"
                             THEN [shortcuts EXCEPT ![l.name] = Len(listeners)'] ELSE shortcuts
             /\ failed' = failed \ {l}
          \/ /\ l.scheme = "rdp"
             /\ failed' = failed \cup {l}
             /\ UNCHANGED shortcuts
       /\ UNCHANGED <<alias, web>>

\* Forward keeps a web forward under the host of the local uri, not under its name.
AddWeb(l, uri) ==
    \/ /\ web[l.at] # NoWeb
       /\ AddFails(l)
    \/ /\ web[l.at] = NoWeb
       /\ web' = [web EXCEPT ![l.at] = [kind |-> l.scheme, uri |-> uri]]
       /\ failed' = failed \ {l}
       /\ UNCHANGED <<forwardVars, alias, shortcuts>>

AddForward(l) ==
    /\ owner.pc \in {"start", "add"} /\ l \in owner.todo
    /\ Handled(l)
    /\ \/ l.scheme = "alias" /\ AddAlias(l, owner.new[l])
       \/ l.scheme \in Served /\ AddListener(l, owner.new[l])
       \/ l.scheme \in WebKinds /\ AddWeb(l, owner.new[l])
       \/ l.scheme = "other" /\ AddFails(l)
    /\ UNCHANGED <<file, config, shared, dial>>

RemoveBy(l, stopped) ==
    /\ owner.pc = "remove" /\ l \in owner.todo /\ leaving = 0
    /\ Handled(l)
    /\ \/ /\ l.scheme = "alias"
          /\ alias' = [alias EXCEPT ![l.name] = NoUri]
          /\ UNCHANGED <<forwardVars, web, shortcuts>>
       \/ /\ l.scheme \in stopped
          /\ StopForward(l.name)
          /\ \/ UNCHANGED shortcuts
             \/ l.scheme = "rdp" /\ shortcuts' = [shortcuts EXCEPT ![l.name] = 0]
          /\ UNCHANGED <<alias, web>>
       \/ /\ l.scheme \notin stopped \cup {"alias"}
          /\ web' = [web EXCEPT ![l.name] = NoWeb]
          /\ UNCHANGED <<forwardVars, alias, shortcuts>>
    /\ UNCHANGED <<file, config, failed, shared, dial>>

RemoveForward_NotTcp(l) == RemoveBy(l, {"socks", "rdp"})

\* A proxy forward has no case of its own: it is looked for among the web forwards, and
\* those by the name of the local uri.  A .rdp file that cannot be removed stays.
RemoveForward(l) == RemoveBy(l, {"socks", "tcp", "rdp"})

RemoveCloses ==
    /\ owner.pc = "remove"
    /\ StopForwardClose
    /\ UNCHANGED <<configVars, tableVars, dial>>

OwnerSteps ==
    \/ Start \/ StartEnds \/ StartUndone \/ ReloadConfig \/ ReloadAdds \/ ReloadEnds \/ Stop \/ StopEnds
    \/ RemoveCloses
    \/ \E l \in owner.todo : AddForward(l) \/ RemoveForward(l)

(***************************************************************************)
(* DialAll: what a name stands for is looked up, and the uris are tried in *)
(* turn with one connection.  The caller makes raw for it and is done when *)
(* DialAll returns (DialNet, DialSSH, DialPiper, procDial, procDialTLS),   *)
(* or it is runWebsocket.                                                  *)
(***************************************************************************)
OnlyDial == UNCHANGED <<forwardVars, configVars, tableVars>>

Idle == [pc |-> "idle", left |-> <<>>, caller |-> "none", raw |-> "none",
         target |-> NoUri, asked |-> FALSE]

DialBegin ==
    /\ dial.pc = "idle"
    /\ \E list \in DialLists :
         dial' = [Idle EXCEPT !.pc = "alias", !.left = list, !.caller = "call", !.raw = "open"]
    /\ OnlyDial

\* a request for the web server, by name, to upgrade or not
ProcName(n) ==
    /\ dial.pc = "idle" /\ web[n] # NoWeb
    /\ dial' = [Idle EXCEPT !.pc = "alias", !.left = Listed[web[n].uri], !.raw = "open",
                            !.caller = IF web[n].kind = "ws" THEN "websocket" ELSE "call"]
    /\ OnlyDial

Try(target) == dial' = [dial EXCEPT !.pc = "try", !.target = target]

\* the next uri of the list, or the end of it with this error
TryNext(error, raw) ==
    dial' = [dial EXCEPT !.raw = raw, !.left = Tail(@), !.target = NoUri,
                         !.pc = IF Len(dial.left) > 1 THEN "alias"
                                ELSE IF error = "unknown" /\ ~dial.asked THEN "find" ELSE "fail"]

\* A name is looked up among the aliases first ...
LookAlias ==
    /\ dial.pc = "alias"
    /\ LET x == Head(dial.left) IN
       IF x \in Uris THEN Try(x)
       ELSE IF alias[x] # NoUri THEN Try(alias[x])
       ELSE dial' = [dial EXCEPT !.pc = "web"]
    /\ OnlyDial

LookWeb_Unchecked ==
    /\ dial.pc = "web"
    /\ Try(web[Head(dial.left)].uri)
    /\ OnlyDial

\* ... and then among the web forwards.
LookWeb ==
    /\ dial.pc = "web"
    /\ LET x == Head(dial.left) IN
       IF web[x] # NoWeb THEN Try(web[x].uri) ELSE TryNext("unknown", dial.raw)
    /\ OnlyDial

\* The Finder, if there is one, is asked when the last uri of the list was not known; it
\* finds a name, a uri or a list.
Find ==
    /\ dial.pc = "find"
    /\ \/ dial' = [dial EXCEPT !.pc = "fail"]
       \/ \E list \in Found :
            dial' = [dial EXCEPT !.pc = "alias", !.left = list, !.asked = TRUE]
    /\ OnlyDial

\* SyncDial: a session, which is no use with a connection that is closed; no channel,
\* which leaves the connection alone; or a refusal, which closes it.  With Node = nil
\* the goroutine panics.
TryDial ==
    /\ dial.pc = "try"
    /\ IF owner.pc = "down" THEN dial' = [dial EXCEPT !.pc = "panic"]
       ELSE \/ dial' = [dial EXCEPT !.pc = "ok", !.left = <<>>, !.target = NoUri,
                                    !.raw = IF @ = "open" THEN "bound" ELSE @]
            \/ TryNext("no channel", dial.raw)
            \/ TryNext("refused", "closed")
    /\ OnlyDial

DialReturns_KeepsRaw ==
    /\ dial.pc \in {"ok", "fail"}
    /\ IF dial.caller = "websocket" THEN dial' = [dial EXCEPT !.pc = "wait"]
       ELSE dial' = Idle
    /\ OnlyDial

\* After an error the caller closes its connection; runWebsocket then waits until it is
\* closed.
DialReturns ==
    /\ dial.pc \in {"ok", "fail"}
    /\ dial' = IF dial.caller = "websocket"
               THEN [dial EXCEPT !.pc = "wait", !.raw = IF dial.pc = "fail" THEN "closed" ELSE @]
               ELSE Idle
    /\ OnlyDial

SessionEnds ==
    /\ dial.pc = "wait" /\ dial.raw = "bound"
    /\ dial' = [dial EXCEPT !.raw = "closed"]
    /\ OnlyDial

WaitReturns ==
    /\ dial.pc = "wait" /\ dial.raw = "closed"
    /\ dial' = Idle
    /\ OnlyDial

DialSteps == LookAlias \/ LookWeb \/ Find \/ TryDial \/ DialReturns \/ WaitReturns

(***************************************************************************)
(* Specification.                                                          *)
(***************************************************************************)
Init ==
    /\ ForwardsInit
    /\ \E c \in Configs : file = [data |-> c, edits |-> 0] /\ config = c
    /\ owner = [pc |-> "down", todo |-> {}, new |-> config]
    /\ alias = [n \in Names |-> NoUri]
    /\ web = [n \in Names |-> NoWeb]
    /\ shortcuts = NoForwards
    /\ failed = {} /\ shared = {}
    /\ dial = Idle

AcceptSteps(i) == LoopSteps(i) /\ UNCHANGED <<configVars, tableVars, dial>>

Next ==
    \/ EditFile
    \/ OwnerSteps
    \/ \E i \in DOMAIN listeners : AcceptSteps(i)
    \/ DialBegin \/ (\E n \in Names : ProcName(n)) \/ SessionEnds
    \/ DialSteps

Spec == Init /\ [][Next]_vars

\* A goroutine that dials goes on; nothing else has to.
FairSpec == Spec /\ WF_vars(DialSteps)

(***************************************************************************)
(* Properties.                                                             *)
(***************************************************************************)
\* The type invariant; what is dialed is a uri that was found, never an empty one.
TypeOK ==
    /\ ForwardsTypeOK
    /\ file \in [data : Configs, edits : Nat]
    /\ config \in Configs
    /\ owner \in [pc : {"down", "start", "undo", "up", "failed", "remove", "add", "close"},
                  todo : SUBSET Locs, new : Configs]
    /\ alias \in [Names -> Uris \cup {NoUri}]
    /\ web \in [Names -> [kind : WebKinds \cup {"none"}, uri : Uris \cup {NoUri}]]
    /\ shortcuts \in [Names -> 0 .. Len(listeners)]
    /\ failed \subseteq Locs /\ shared \subseteq Names
    /\ dial \in [pc : {"idle", "alias", "web", "find", "try", "panic", "ok", "fail", "wait"},
                 left : Seq(Names \cup Uris), caller : {"none", "call", "websocket"},
                 raw : {"none", "open", "bound", "closed"}, target : Uris \cup {NoUri},
                 asked : BOOLEAN]
    /\ dial.pc = "try" => dial.target \in Uris

Present(i) == listeners[i].open /\ listeners[i].proxy = node.no

IsServed(l, uri) ==
    \/ l.scheme = "alias" /\ alias[l.name] = uri
    \/ l.scheme \in WebKinds /\ web[l.at] = [kind |-> l.scheme, uri |-> uri]
    \/ /\ l.scheme \in Served
       /\ \E i \in DOMAIN listeners :
            /\ Present(i)
            /\ listeners[i].name = l.name /\ listeners[i].port = l.at /\ listeners[i].uri = uri
            /\ l.scheme = "rdp" => shortcuts[l.name] = i

\* Whatever the file was edited to, and however often it was reloaded: a forward of the
\* configuration is served as the configuration says, or AddForward logged an error or a
\* warning for it, or an Accept that failed has ended its loop.  (A name that two local uris have
\* had at once is out of this: removing one of them stops the other.)
ServedOrReported ==
    owner.pc = "up" => \A l \in DOMAIN config :
        \/ l \in failed
        \/ IsServed(l, config[l])
        \/ Key(l) \in shared
        \/ /\ l.scheme \in Served
           /\ \E i \in DOMAIN listeners : listeners[i].broken /\ listeners[i].name = l.name

\* What is served without being configured is known: aliases from before a restart; a
\* web forward whose host is not its alias; a proxy forward; and listeners lost to an
\* old loop.  After Stop only the last are open.
LeftoversKnown ==
    /\ owner.pc = "up" =>
         /\ \A n \in Names :
              /\ alias[n] # NoUri =>
                   node.no > 1 \/ \E l \in DOMAIN config : l.name = n /\ l.scheme = "alias"
              /\ web[n] # NoWeb =>
                   \E l \in Locs : /\ l.scheme = web[n].kind /\ l.at = n
                                   /\ l \in DOMAIN config \/ l.name # n
         /\ \A i \in DOMAIN listeners : Present(i) /\ ~Lost(i) =>
              \E l \in Locs : /\ l.scheme \in Served /\ l.name = listeners[i].name
                              /\ l \in DOMAIN config \/ l.scheme = "proxy"
    /\ owner.pc = "down" => \A i \in DOMAIN listeners : listeners[i].open => Lost(i)

\* Where a forward is found: an alias when the aliases are looked at, a web forward after
\* that, unless an alias from before a restart has its name.
FoundAt(l, pc) == \/ pc = "alias" /\ l.scheme = "alias"
                  \/ pc \in {"alias", "web"} /\ l.scheme \in WebKinds /\ (pc = "web" \/ node.no = 1)

\* A name that is dialed while the service is up, with a forward that was added without
\* an error, goes where the configuration says, not to what the name stood for before.
\* (An alias that a reload adds between the two lookups is added too late: the dial may
\* still go to a web forward that was left over under the name.)
DialsConfigured ==
    [][LET n == Head(dial.left) IN
       dial'.pc = "try" /\ owner.pc = "up" /\ n \in Names \ shared
       => \A l \in DOMAIN config \ failed :
            FoundAt(l, dial.pc) /\ Key(l) = n => dial'.target = config[l]]_vars

\* The handler of a websocket request whose dial failed returns: an attempt that found no
\* channel leaves the connection open, and runWebsocket waits for it to be closed.
WebRequestEnds == (dial.caller = "websocket" /\ dial.pc = "fail") ~> (dial.pc = "idle")
=============================================================================
