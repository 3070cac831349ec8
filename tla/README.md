# Bond socket router: specifications, model checking and proofs

TLA+ specifications of the router, the service and the dialers of `bsck` (Go,
`src/router/`, `src/dialer/`), the TLC configurations that check them on small
instances, and TLAPS proofs of the results that hold for every instance.

    tlasany Session.tla                                  # parse
    tlc -config SessionRelay.cfg MCSession               # model-check
    tlapm SessionProofs.tla                              # check the proofs

`PROJECT.json` lists the components, the runs, the map from definitions to source
lines, the hazards and the theorems.  Line numbers are those of
`src/router/router.go` unless another file is named.

## 1. The system

A node runs a *router*.  Routers are joined by *channels*, logged-in connections that
carry frames `(command, session id, body)`.  A dial along `n1->n2->tcp://host` binds
the caller's raw connection to a session id of the channel to `n1`, `n1` binds that to
a session id of its channel to `n2`, and `n2` dials the target.  From then on data and
the end of the session travel hop by hop, each router finding the next one in its table.

| Component | State | Operations | Interacts through |
|---|---|---|---|
| **Session table** (`router.go`) | `table`: entries `(src, ssid, dst, dsid, uri)` under two keys `"connection id-session id"`; `connectSequence`, the counter of channel and session ids | `addTable` 549, `removeTable` 557, `loopReadRaw` 572 (one goroutine per connection), `procDial` 752, `procRawDial` 731 (a goroutine per dial), `procDialBack` 803, `procChannelData` 851, `procClosed` 876, `DialConn` 920, `Close` 1017 | frames to the neighbours; `Handler.DialRaw`/`OnConnDialURI`/`OnConnClose` callbacks; `tableLck` |
| **RawConn** (108-304) | `ready`, `closed`, `failed`, `readyLocker` (locked at birth), `closeLocker` | `Ready`, `Wait`, `Close`, `ReadFrame`, `WriteFrame` | called by the reader, the dialling application and `Router.Close` at once |
| **WaitedPiper** (1139-1265) | `ready`, `closed`, `failed`, `next`, `Base`, `readyLocker`, `baseLocker` | `DialPiper`, `Wait`, `Ready`, `PipeConn`, `Read`, `Write`, `Close` | the proxy servers of `codingeasygo/util` call `DialPiper`, then `PipeConn` or `Close` |
| **Channel registry** (359-371, 480-547, 610-625) | `channel`: name -> bond; a bond maps an index to a channel and counts uses | `addChannel`, `SelectChannel`, `CloseChannel`, unregistration by the reader | `channelLck` of the router and of the bond |
| **Login and reconnect** (701-729, 982-1014; `proxy.go` 381-597) | `Running`, the channel's context (`option`, `login_conn`) | `procLogin`, `JoinConn`, `Login`, `OnConnClose`, `runReconnect`, `Close` | Login/LoginBack frames; callback from the reader's end |
| **Heartbeat** (657-699, 893-898) | `Channel.Heartbeat` | `loopHeartbeat`, `procHeartbeat` | Heartbeat frames |
| **Proxy forwards** (`proxy.go` 322-425) | `forwards`: name -> listener | `StartForward`, `StopForward`, `loopForward` | `Dial`, `DialPiper` |
| **Web forward** (`forward.go`) | `forwards`: key -> uri | `AddForward`, `RemoveForward`, `FindForward`, the HTTP handlers | `SyncDial` by the service |
| **Service** (`service.go`) | `Config`, `configLast`, `alias`, the forwards | `ReloadConfig`, `AddForward`, `RemoveForward`, `DialAll`, `Start`, `Stop` | proxy, web forward, dialers, configuration file |
| **Dialers** (`src/dialer/`) | `BalancedDialer`: dialers and use counters; `WebDialer`: connections and an accept queue; `CopyPipable` | `Dial`, `AddDialer`, `Pipe`, `Shutdown` | called by `DialRaw` through a `Pool` |
| **Console, applications** | connections of a console | command line | HTTP to a service |

What is hard in it: every connection has its own reader and every dial its own
goroutine; an entry that was looked up is used after the lock is released; an answer, a
`Closed`, data and the loss of a channel meet in any order, at any router on the way; a
`RawConn` is made ready, waited for and closed by three goroutines over a mutex that
is locked in one goroutine and unlocked in another; several places register something
first and complete it later (`JoinConn`, `procLogin`, `StartForward`).

What makes each component correct:

* session table: a frame goes to the session it belongs to; data arrives in order; when
  one side of a session ends the other does; a dial is answered; nothing is left over;
* RawConn, WaitedPiper: each lock is unlocked exactly once; a waiter gets what was
  decided; the far end is told once;
* registry, login, heartbeat: a selected channel is a live one; a replaced channel does
  not take its successor along; a lost channel is logged in again unless the proxy was
  closed; only silent channels are closed for silence;
* forwards, service: the listeners that are open are those configured; a removed name
  is free;
* balanced dialer: limits hold, a failing dialer is not used again; web dialer: no
  `Dial` waits for ever.

`PROJECT.json` "hazards" has each of these at its line.

## 2. Modules

| Module | What it is |
|---|---|
| `Session` | the session tables of a network of routers |
| `MCSession` | the networks TLC checks: a line `C - M - S` and a pair `C - M` |
| `SessionProofs` | type correctness, and `HopDefined` |
| `SessionApartProofs` | that sessions stay apart where dials cross a channel in one direction: `EntriesPaired`, `SidNotReused`, `ReadyOnce`, `DeliveredToItsCall` |
| `SessionOrderProofs` | on top of it, that no payload is lost before a later one, repeated or overtaken: `DeliveredInOrder` |
| `Latch` | abstract: something decided once, and waiters that are told |
| `ReadyConn` | `Ready`, `Wait`, `Close` of one `RawConn`, lock by lock; implements `Latch` |
| `ReadyConnProofs` | `NoFatalUnlock`, and every step implements a step of `Latch` |
| `Piper` | one `DialPiper` and the goroutines that share it; a weaker `Latch` |
| `PiperProofs` | `NoFatalUnlock`, `ToldOnce` |
| `Bond` | the channels between a slaver and a master: login, registry, reconnect, close |
| `BondProofs` | type correctness, one login at a time, what is registered, selected and left open |
| `Forwards` | the forwards of a `Proxy`: map, listeners, accept loops, `Close`; and what a `Proxy` promises any owner that keeps to its protocol |
| `Service` | `Start`, `ReloadConfig`, `Stop` and dials by name, over `Forwards`, which it implements |
| `MCService` | the configurations TLC edits a file through |
| `ServiceProofs` | `EntryOpen` and `LostByOldLoop` for every such owner; that `Service` keeps to the protocol of `Forwards`, and what is served, left over and dialed |
| `Balance` | `BalancedDialer.Dial`: limits, rounds, removal |
| `WebDialer` | `Dial`, the accept channel, the server and `Shutdown` |
| `Pool` | a dial that a router makes itself: `DialConn` without a route, over `Balance` and `WebDialer` |
| `MCPool` | the dialers and sessions TLC checks |
| `PoolProofs` | `TriesBounded` and `LimitSlack` of `Balance`, `NoSendOnClosed` of `WebDialer`, and that `Pool` implements both |

`Service` extends `Forwards`, `Pool` extends `Balance` and `WebDialer`: the actions of the
part are conjoined with what the whole does in the same step, or with `UNCHANGED` of
the rest.

An operator named `Name_Variant` next to `Name` is a faulty version of `Name` that no
specification uses.  Replacing `Name` by it makes a property fail; `PROJECT.json`
"mutants" says which.  It shows that the property depends on that piece of code.

### Session

State and code: `seq` is `connectSequence`, `table` is `Router.table` (a function whose
domain is the set of keys in use), `reg` the links in `Router.channel`, `open` and
`wire` the connection under each channel, `reader` the `loopReadRaw` goroutines with
their local state, `dialing` the `procRawDial` goroutines, `raw` the raw connections
with what they sent and got, `call` the progress of each `DialConn`, `closing` what a
`Router.Close` has yet to close, `env` the counts of the bounded events.

A step runs up to the next release of a lock or the next write of a frame, so that

* `procDialBack`, `procChannelData` and `procClosed` are two steps: the lookup
  (`ProcDialBack`, `ProcData`, `ProcClosed`) stores the entry in the reader, and a second
  step (`DialBackReady`, `ForwardData`, ...) uses it, however the table changed;
* a dial is three steps (select, add the entry, send), and so is the relayed one;
  where the code undoes an entry after a failed write, the write, the undoing and
  the answer are one step;
* the purge of a lost channel holds `tableLck` from `Unregister` to `PurgeDone` and
  handles one entry per step, in any order, as `range` over a map does.  `TableFree`
  in the guards of the others is that lock.

Abstractions:

* A name is a node, a uri is the call it belongs to and the nodes still to visit. A
  payload is `(call, which end, number)`, enough to see one lost, repeated,
  reordered or given to another call.
* The links are logged in from the start.  Any registered channel of a node may be
  selected, where the code takes the least used one.
* The frame transport (`codingeasygo/util`) is a FIFO queue per direction. A write to a
  channel whose local end is closed fails; once the peer has closed, it may fail or
  succeed and be lost.  Writes do not block.
* Heartbeats are left out: `Lose` closes any channel end at any time, whatever the
  reason.  `OnConnDialURI` may refuse any dial.
* `CloseRunning` closes at once the raw connections a purge collected, which the code
  closes one after the other; nothing reads the order.
* `DialRaw` itself is one step, or fails.
* A reader that is started for a raw connection which has one already (possible only
  after session ids collided) is not followed as a second goroutine.
* `DialConn` without a route (921-965) does not touch the table; it is in `Pool`.

Properties: `TypeOK`; `HopDefined` (an entry that is used names its reader's
connection, as one of two different ends); `EntriesPaired`; `SidNotReused`;
`DeliveredInOrder`; `ReadyOnce`; `SessionWhole` and `OnlyRefusedDialsLeak` (what may be
left when nothing more can happen); `DialAnswered`, `ClosePropagates` (liveness);
`SyncDialTold` (refuted).

### ReadyConn and Latch

`closeLocker` sections are one step each, as nothing else is done in them;
`readyLocker` is a variable `owner`, because it is locked by `NewRawConn` and unlocked
by whoever decides.  The answerer is `procDialBack`, which calls `Close` after a failed
`Ready`; the closers are the reader that purges, the application and `Router.Close`.
The refinement maps `outcome` to what the `closeLocker` sections decided and `told` to what
`Wait` returned, so a waiter that ran early or was told something else would be seen.

### Piper

`WaitedPiper` splits what `RawConn` has in one lock: `readyLocker` (Wait) and
`baseLocker` (Read and Write until there is a connection).  The piper's `next` function
(820-829) ends the session when the piper is closed, and is `loopReadRaw` when it is
piped; both remove the table entry, and `told` counts the `Closed` frames to the far
end.  Each lock has at most one waiter here - the application in `Wait`, the channel's
reader in `Write` - so locking and unlocking again is one step.  A goroutine that
panics would end the program; the model records it and lets the others go on, which
only adds behaviours.  The proxy server that owns the piper is a library's:
it calls `PipeConn` or gives up (`GiveUp`), and closes the piper at the end (`AppClose`).
`ReadyDecides` says that `Wait` returns only what `Ready` decided, and that it
returns after an answer or a close, with one exception: a piper closed before `Ready`, by the
loss of its channel, by `Router.Close` or by a `Closed` frame, leaves `DialPiper` waiting for
ever, as `Close` (1241-1261) does not unlock `readyLocker` and `Ready` gives up on a closed
piper (1183-1187).

### Bond

One slaver with a proxy that keeps one channel per *slot* (an index of its own), and one
master.  `login` is the goroutine in `LoginChannel`, `runReconnect` or `Login` of each slot;
`conn` holds every connection a slot ever made, with the `loopReadRaw` goroutines of
both ends as `master` and `slaver`; `sreg` is the slaver's registry, `bond` and
`bonds` the master's, where a bond dropped from `Router.channel` is kept because
`SelectChannel` may still hold it; `sel` is one goroutine that routes a dial.

`SelectChannel` is two steps, as it releases `channelLck` before it takes the bond's lock;
`addChannel` and the close of the channel it replaces are two steps at the master
(`LoginAccept`, `LoginReplace`), and the `LoginBack` is a third.  At the slaver,
`JoinConn` starts the reader (`JoinRegister`) before `Login` marks the channel
(`LoginDone`).

Abstractions:

* The slots log in independently from the start; `LoginChannel` does their first logins
  in order.
* The `Login` frame arrives with the connection, and may be read after the connection
  was lost.  Only what `JoinConn` may read is kept in `wire`: the answer, or a dial that was
  selected onto the channel before it (a heartbeat there would have the same effect).
* `SelectChannel` takes any channel of the bond, the code the least used one.
* `Router.Close` collects and closes in one step (`Session` looks at its steps).
* `JoinRegister` closes the channel it replaces in the same step; `OneLogin` says that there
  is none in use.
* `HeartbeatMissed` closes a channel that will stay silent, because nobody at the slaver
  serves it.  One that was silent for a while is closed by `Lose`.
* A nil channel ends the goroutine that selects (`sel.pc = "nil"`); in the code it panics.

Properties: `TypeOK`; `LiveIsRegistered`; `SelectsRegistered` (an action property);
`OneLogin`; `ClosedUnlessLate` (`env.late` records the logins that were past the
test of `Running` when `Router.Close` collected the channels); `KeepsAlive`,
`LeakedLeaves` (liveness); `AutoReconnect` (refuted).

### Forwards

`node` is the `Proxy` (a number, as `Service.Start` makes a new one, and `Running`),
`forwards` its map from a name to a listener, `listeners` every listener there was with
the `loopForward` goroutine that serves it, `leaving` the listener that `StopForward` has
taken from the map and closes after it let the lock go.  A loop has four places: the test
of `Running`, `Accept`, the `delete` at the end (`ending`, with the listener closed) and
done.  The loop of a `Proxy` that was replaced deletes from a map nobody reads any more.

`ForwardsSpec` is what a `Proxy` may be asked for: calls of one owner that do not
overlap, no start over a name or an address in use, no new `Proxy` while a listener in
the map of the old one is open.  `Service` is shown to implement it, by TLC and by proof.

Properties: `EntryOpen` (a name in the map leads to a listener that is open, or is about
to be taken out by its own loop); `LostByOldLoop` (an open listener that no call can close
any more was lost to the late `delete` of an older loop of its name: it does happen, and
nothing else loses one).

### Service

`file` is the configuration file, `config` is `Config.Forwards`, `owner` the goroutine
that calls `Start`, `ReloadConfig` and `Stop`, with the local uris it has still to add or
remove, in any order, as `range` over a map does.  `alias`, `web` and `shortcuts` are the
alias table, the two mappings of `Forward` and the `.rdp` files; `failed` holds the local
uris whose last `AddForward` returned an error or warned about a file it could not write,
`dial` is one goroutine in `DialAll`, from
its caller or from a request to the web server.  A lookup in the alias table and one in
`Forward` are two steps, each under its lock, and `SyncDial` is a third: a reload may come
between any of them.

Abstractions:

* A local uri is a record (name, scheme, where); one without `~` has the scheme `alias`.
  `vnc` behaves as `rdp`, `wss` as `ws`, and `other` stands for every scheme that is not
  supported.  Names are not empty.  A local uri that cannot be parsed and a configuration
  file that cannot be read change nothing; `RDPDir` and `VNCDir` are set.
* `Start` may fail for want of a dialer or a master (`failed` at once), of a console, which
  closes the `Proxy` and keeps it (`StartUndone`), or of the web server. Its owner then
  calls `Stop`.  A listener, and the write or removal of a `.rdp` file, may fail any time.
* One goroutine owns the service; the code has no lock around these calls, `bsrouter`
  starts and stops a service in one goroutine, and the tests reload it in theirs.
* An edit of the file while `Start` or `ReloadConfig` runs is seen by the next, which is
  when the code could see it, as it reads the file at the beginning.
* The `Finder` returns nothing or one of the lists in `Found`; `Listed` splits the uri of a
  web forward at its commas, so that a request may try several uris as well.
* With `Node` = nil, between `Stop` and `Start`, a dial panics; the model ends that
  goroutine only.
* `shared` records names that two local uris of one configuration had at once, for which the
  code stops one when it removes the other.  Such names are out of `ServedOrReported`
  and `DialsConfigured`.

Properties: `TypeOK` (with: what is dialed is never an empty uri); `ServedOrReported`
(what is configured is served as configured, or an error or a warning was logged, or an
`Accept` failed); `LeftoversKnown` (what is served and not configured is an alias from before a
restart, a web forward whose host is not its name, a proxy forward, or a lost listener;
after `Stop` only lost listeners are open); `DialsConfigured` (an action property: what a
dial by name is sent to); `WebRequestEnds` (liveness). The exceptions in them are what the code does: `AddForward`
fails on an alias that is already there, `RemoveForward` has no case for `proxy`
(339-350), `Forward` adds a web forward under its host (`forward.go` 211-224) and removes
it by its name (231-236).

`dialOne` (407-431) looks at the aliases and then at the web forwards, under two locks.
`DialsConfigured` says where that leads (`FoundAt`): an alias that a reload adds between the
two lookups is too late, and the dial goes to a web forward that was left over under the
name, if there is one; after a restart an old alias hides a web forward of its name.

### Balance

`req` holds each goroutine in `Dial` with the rest of the list of its round; `used`,
`fails` and `hostUsed` are `dialersUsed` and `dialersHostUsed`; `failed` is the local
count of a request's failures.  The lock is held from the head of a round to the first
dial, and from the return of a dial to the next, so each of these is one step
(`GoThrough`), and everything else may happen while a dialer dials.  What was listed is
then out of date: a name may have been removed, and calling its nil dialer ends the
process (`crashed`).  A name whose period is over is listed twice, by the dialer's limit
and by the host's (`Passes`, 229-241 and 259-267), so up to four times.

Time is abstract: the period of a count is over at any time (`PeriodEnds`), and a request
may time out after its first round and has timed out after `Rounds`.  Use counts per host
are not kept when there is no limit by host, as nothing reads them; there is one policy at
most, which matches every host.

Properties: `TriesBounded` (a request fails six times with one dialer at most: a dialer is
listed while it has failed twice at most, in up to four copies); `LimitSlack` (how far a
count goes beyond its limit).

### WebDialer and Pool

`visit` is a goroutine in `Dial`, `lock` is `consLck`, `accept` the channel, `server` the
goroutine of `Bootstrap`.  `Dial` sends with the lock held; the server needs the lock to
close the channel. `Shutdown` is called at most once, `Dial` and `Shutdown` are the only
ones that send.  A `Dial` that waits for room when the server ends keeps it from
stopping, and both wait for ever (`web.go` 46-50, 74-86); `WebServed` says that nothing
else makes either wait.

`Pool` adds the session: `raw` is the caller's connection, `conn` the dialed one, `copies`
the two goroutines that copy (949-954), `rawConn` is `Router.rawConn`, with both of its
entries or none.  A session dials with one kind of dialer; which one is the choice of a
run (`setup`), as is which sessions are closed by one of their ends, `Router.Close`
counted among the ends.  `Router.Close` collects the two ends of every session and closes
them one after the other, with the lock released (`RouterClose`, `RouterCloses`).  A copy
ends when what it reads from is closed, and may end when
what it writes to is.  A caller that waits for its answer (`ReadyWaiter`) starts the same
two copies from its `Ready`, which is left out.

Properties: `TypeOK` (with: `rawConn` has the sessions with a copy that will take them
out); `TriesBounded`, `LimitSlack`; `NoSendOnClosed`; `RequestEnds`, `WebServed`,
`EndsTogether` (liveness). `RequestEnds` and `WebServed` name what the code does not
promise: a request may end in a call of a nil dialer, and a `Dial` and a `Shutdown` may
wait for each other for ever.

## 3. Runs

| Run | Configuration | States | Shows |
|---|---|---|---|
| `session_relay` | `C - M - S`, one call over the relay, 2 payloads one way and 1 back, 1 end, 1 lost channel or a `Router.Close` of `C` | 1 055 000 | `TypeOK`, `EntriesPaired`, `DeliveredInOrder`, `SessionWhole`, `OnlyRefusedDialsLeak` |
| `session_shared` | the same line, two calls, 1 payload each way, 1 end | 388 000 | `HopDefined`, `DeliveredInOrder`, `ReadyOnce`, `SidNotReused`; the calls are symmetric |
| `session_live` | one call, 1 end, 1 failure or `Close`, fairness | 39 000 | `DialAnswered`, `ClosePropagates` |
| `session_collide` | `C - M`, a call each way, equal counters | - | **violates** `DeliveredInOrder` |
| `session_sync_dial` | one call, 1 lost channel | - | **violates** `SyncDialTold` |
| `ready_conn` | two waiters, two closers, an answerer, fairness | 889 | `NoFatalUnlock`, `IsLatch` |
| `piper` | 2 data frames, fairness | 1 800 | `NoFatalUnlock`, `ToldOnce`, `SessionForgotten`, `WriteReleased`, `ReadyDecides` |
| `piper_io` | 1 data frame | - | **violates** `IoHasBase` |
| `bond` | two slots, 1 loss, refusal or dial, `Proxy.Close` anywhere, fairness | 183 000 | `TypeOK`, `LiveIsRegistered`, `OneLogin`, `ClosedUnlessLate`, `SelectsRegistered`, `KeepsAlive`, `LeakedLeaves` |
| `bond_reconnect` | one slot, 1 loss | - | **violates** `AutoReconnect` |
| `service` | 5 configurations of 9 local uris (alias, tcp, rdp, socks, proxy, web, two ws, one not supported), 1 edit, 2 starts, 1 failing `Accept`, one dial at a time of a list of two names, fairness of the dial | 1 199 500 | `TypeOK`, `ServedOrReported`, `LeftoversKnown`, `EntryOpen`, `LostByOldLoop`, `ForwardsSpec`, `DialsConfigured`, `WebRequestEnds` |
| `pool` | two sessions, two dialers, 2 rounds, an accept channel of 1, fairness | 98 000 | `TypeOK`, `TriesBounded`, `LimitSlack`, `NoSendOnClosed`, `RequestEnds`, `WebServed`, `EndsTogether` |

Bounds.  A line of three routers has every role the code distinguishes (caller, relay,
last node); a longer line repeats the relay, whose steps are the same whatever is beyond
its neighbours.  Two payloads in one direction are what it takes to reorder or to lose one
in the middle, two calls what it takes to confuse two sessions.  One failure at any point
meets every stage of a dial, of a transfer and of another shutdown; a second one hits a
router that is already purging and is left out because of its cost.  In `bond`, two slots
are what it takes to share a bond, and a slot that is lost or refused once has been
through every step of a login twice, next to the old connection's readers; one slot with
two such events passes as well (334 000 states).  In `service`, an edit and two starts let
a reload or a restart replace every forward by another of its name, its address or its
host, with the loops of the old one still running; the five configurations are chosen so
that an edit changes a uri, a scheme, an address's owner and a host, and so that an alias
comes to a name whose web forward is left over.  Reloads are not
bounded.  In `pool`, two requests and two dialers are what it takes to remove a dialer
another request has listed and to go past a limit together; the six failures of
`TriesBounded` are reached, in the second round; a channel of one place is full while the
second session dials.  The dialers share nothing but the session, so that most setups have
one kind (`DialersApart` is a theorem).  All runs say `CHECK_DEADLOCK FALSE`: the calls
and failures are bounded, so a behaviour really ends. `SessionWhole` and
`OnlyRefusedDialsLeak` speak of exactly these ends (`Quiescent`).

Fairness is that of the Go scheduler: a goroutine that can take a step takes one. It is
assumed per goroutine, never for applications (dialling, sending, closing), for failures,
or for a peer that has to send.  In `Piper`, an application whose dial succeeded is
assumed to pipe its connection or to close the piper, as the proxy servers do.  A
goroutine that waits for `tableLck` gets it in the end, since readers hold it for a finite
purge; weak fairness is enough because a bounded number of purges can take it before.

In `Bond`, weak fairness on all steps of one goroutine, or of the readers at one end of
a slot, is enough: none of them is disabled by another.  Neither `Proxy.Close`, nor a loss
or a dial has to happen, and `HeartbeatMissed` must: `Service.Start`
starts the heartbeat (`service.go` 589), and `loopHeartbeat` runs for ever.

In `Service` only a goroutine in `DialAll` must go on: the attempts of a list are finite,
and none of its steps waits for the owner.  That the owner gets on is not assumed, no
property needs it.  In `Pool` a request in `Balance`, a `Dial` of the web dialer, its
server and `DialConn` go on when they can, and a dialer that dials returns some time, as
its libraries' timeouts see to.  Weak fairness is enough: nothing disables a step of a
request for ever but the end of the process.  A copy is only sure to end when what it
reads from is closed, as a write to a closed connection needs data to fail.

### What the violations show

* `session_collide`: both ends of a channel draw session ids from their own counter
  (501, 732, 788, 970) and the table key does not say who drew it (552-553).
  If `C` and `M` dial each other and their counters agree, the second `addTable`
  overwrites the first entry, and data of one call reaches the connection of the other.
  Routers that only dial in one direction are not affected.
* `session_sync_dial`: `RawConn.Close` before `Ready` (225-229) releases `Wait` with
  `failed` still nil: `SyncDial` reports success for a dial nobody answered.
* `piper_io`: `WaitedPiper.Close` before `PipeConn` unlocks `baseLocker` (1251-1253), and a
  `Write` that was blocked there uses the nil `Base`.
* `bond_reconnect`: a channel lost between `Register` in `JoinConn` (1011) and the
  assignment of `login_conn` (`proxy.go` 592-593) is not logged in again.  `KeepsAlive` says
  that this is the only way to lose a slot for good.

Other properties hold and name what the code leaves open: `OnlyRefusedDialsLeak`, that a
relay keeps its entry of a dial that was refused further on (841-847); `ReadyDecides`
and `WebServed`, the one way each to wait for ever.  `RequestEnds` excepts the call of
a dialer that was removed, and no property forbids the nil channel of `SelectChannel`
(507-529), which looks for channels under one lock and picks under another.

## 4. Proofs

TLAPS checks the following for all values of the constants, from the assumptions the
modules name.

* `SessionProofs!TypeCorrect` - `Spec => []TypeOK`, for any network, calls and routes
  (`LinksAssumption`, `IdsAssumption`, `CallsAssumption`, `BoundsAssumption`).  One lemma
  per goroutine; the helpers on maps (`Put`, `Drop`, `CloseRaws`, `Sent`) have theirs.
* `SessionProofs!HopAlwaysDefined` - `Spec => []HopDefined`.  Not inductive by itself.
  `HopInv` adds where the ids of raw connections come from: counters never go below
  `Sid0` (`CountersSound`), and every raw connection that an entry, a reader or a dial
  names has an id above it, hence above every channel id of its router
  (`TablesSound`, `ReadersSound`, `DialingSound`), which is what makes `ID` injective
  on the connections of a router (`IDInjective`).
  Then a key leads only to entries that hold its connection.  It needs
  `IdsAssumption`: channel ids and session ids come from one counter.  The proof does
  not rule out collisions: `HopDefined` survives them, `DeliveredInOrder` does not.
* `SessionApartProofs!EntriesStayPaired`, `SidsStayApart`, `AnsweredOnce` and
  `DeliveredApart`, for any network, calls, routes, data and losses under one hypothesis:
  `OneWay`, no two routers dial, or relay dials, to each other.  An id of a channel is drawn
  by the end that dials over it, from a counter of its own; when both ends dial, ids
  collide, as `session_collide` shows for the data: in its pair `EntriesPaired`, `SidNotReused`
  and `DeliveredToItsCall` fail.  (`ReadyOnce` holds in that pair; here it follows from the
  same invariant, and whether it needs the hypothesis is open.)  So `OneWay` is a
  hypothesis of these theorems, not an assumption of the model: the line `C - M - S` of
  the runs meets it, the pair of `session_collide` does not.
  The argument follows each dial over its way.  A history `H` keeps the entry that was
  made with each id a router drew, also after the entry is gone; two recorded entries that
  share a key are the same one (`KeyOwner`), which is where `OneWay` is needed: a key is an
  id drawn here or, on a channel where this router is dialed, by the one other end.  A
  second history `Z` says how far a dial got over each channel: asked (`send`, `wire`, `add`,
  `dial`, `passed`), then answered (`back`, `answer`, `found`, `done`), one place at a time.
  `Owned(H, Z)` then says of everything there is - calls, frames on a wire, readers with
  what they found, dials under way, raw connections with what they received - which
  recorded entry it belongs to and what `Z` must be.  The inductive invariant is
  `OwnedInv == \E H, Z : Owned(H, Z)`: the histories are bound, no variable is added to the
  model, and each step shows `OwnedAfter(H, Z)`, some `H2` that extends `H` and some `Z2` for
  the next state.
  `EntriesPaired` needs besides that a step makes or removes one entry at most
  (`TableStep`), with both its keys; `ReadyOnce`, that an answer that was found and one
  that is done are different stages of one dial; `DeliveredToItsCall`, that a frame keeps
  its entry from relay to relay.
* `SessionOrderProofs!DeliversInOrder` - `DeliveredInOrder`, under the same hypothesis and
  for any network, number of relays, payloads and losses.  The invariant follows the
  numbers of the payloads over every hop.  Two more bound variables count, for each end of
  a channel and each session id, what has left over it (`V`) and what has arrived from it
  (`W`).  `Flow(H, Z, W, V)` says: the payloads of a session on a wire follow `W` one by one,
  and go as far as `V` unless the channel has lost an end (`Flows`); of what arrived from
  one end of an entry all has left to the other end but the one payload its reader may
  hold (`Through`), or that end is a raw connection that is closed; what a raw connection
  got is numbered from one (`GotInOrder`).  This is why a loss leaves no gap: a frame that
  cannot be written counts as left, so that what follows it on a channel is lost as well,
  as no channel end that was closed opens again; and a reader takes its next frame only
  after the last was passed on.  An entry that is gone makes its reader drop what still
  arrives, so `Through` is only claimed of entries that are in the table or found by a
  reader; that such an entry does not come back at zero while the counts go on is what
  `Grounded` is for: a new entry starts with all its counts at zero, because payloads go
  over a channel from the dialing end only once the dial of their session is done there,
  and from the dialed end only once it has made its entry.  The one entry that does come
  back, in `procDialBack` (`DialBackReady`), is held by the reader that adds it.  Calls and
  losses move nothing (`CalmStep`); `OneEnd` (from `KeyOwner`) says that a reader that takes
  or passes a payload changes the counts of its own entry only.
* `ReadyConnProofs!NeverFatalUnlock` and `ImplementsLatch`, for any number of waiters and
  closers.  `IInv` says that `readyLocker` is held by `New` until the one goroutine
  that decided unlocks it (`OneDecides`, `HeldUntilDecided`), that `failed` is set before
  that (`FailedIsSet`), and that waiters pass only afterwards (`WaitersAfter`).
  `ImplementsLatch` is the safety part of `IsLatch`.
* `PiperProofs!NeverFatalUnlock` and `AlwaysToldOnce`.  `PInv` says who owes each unlock
  (`ReadyLocked`, `BaseLocked`) and that the far end is told by whoever removes the entry
  (`ToldByEntry`).
* `BondProofs` - `TypeCorrect`, `OneLoginAtATime`, `LiveStaysRegistered`,
  `ClosesAllButLate` and `OnlyRegisteredSelected` (the action property
  `SelectsRegistered`), for any slots and any number of events. `IInv` says that only the
  last connection of a slot is in use at the slaver, and that where it is goes with where
  the login of the slot is (`SlotOK`); that a live channel at the master is registered or
  replaced by a login that has yet to close it (`MasterOK`); that a bond the router
  dropped is empty (`BondOK`), which is why a `SelectChannel` that still holds one cannot
  pick from it; and who may log in after `Proxy.Close` (`CloseOK`).
* `ServiceProofs!EntriesOpen` and `OnlyOldLoopsLose`, of `ForwardsSpec`, for any names,
  ports and number of errors.  The invariant adds that an entry is the newest listener of
  its name and of its `Proxy` (`EntryNewest`), that what is leaving is in no entry
  (`LeavingIsOut`) and that a loop that ends has closed its listener (`LoopsClose`).
* `ServiceProofs!KeepsProtocol` - `Spec => ForwardsSpec`, for any configurations and any
  number of edits, reloads and starts: every step of the service is a step of
  `ForwardsNext` or leaves the `Proxy` alone.  It needs `ProtocolOK`: outside of the
  removals of a reload nothing is leaving, and what `Stop` leaves in the map is closed.
  `ServiceLosesByOldLoop`, `StopClosesTheRest` and `ServiceTypeCorrect` follow from it and
  from the types of the tables (`LocsAssumption`, `ConfigsAssumption`,
  `DialListsAssumption`, `NamesAssumption`).
* `ServiceProofs!ConfiguredIsServed`, `OnlyKnownLeftovers` and `DialsAsConfigured`.
  `WorkOK` says what a reload has taken in hand: `todo` is part of the configuration it
  removes from or adds to.  `ServedInv` follows every local uri through it: at each point
  of `Start` and `ReloadConfig`, what is not yet to do and not about to be removed (`Settled`)
  is served, reported, shared, or lost to a failed `Accept` (`Claim`); an addition or a
  removal of another local uri keeps that (`AddFrame`, `RemoveFrame`), since what they touch
  has another key or another name (`SharedKey`).  `LeftInv` says the same of the other
  direction: what the tables have comes from a configuration, or is of a known kind.  The
  first form of `DialsConfigured` could not be proved: it left out the alias that comes
  between the lookups, and TLC then found that case with a fifth configuration.
* `PoolProofs!BoundedTries` and `BalanceTypeCorrect`, of `BalanceSpec` and from
  `BalanceAssumption`.  `Budget`: the failures of a request with a dialer, the copies of
  it still in its list and the dial under way are six at most.  The head of a round lists
  up to four copies only of a dialer that failed twice at most, and every later step moves
  one from the list to the dial to the failures.
* `PoolProofs!SlackBounded`.  `LimitSlack` sums over requests, its invariant over what they
  hold: a count and the copies of the name that all requests still list (`Held`, a set of
  that size) are at most `Room` together (`SlackInv`).  A round lists a name only while its
  count is below the limit, at most twice, and a use takes one copy off a list when it
  raises the count (`HeldTakes`).
* `PoolProofs!DialersApart` - `Spec => BalanceSpec /\ WebSpec`; with it `PoolTries`, `PoolSlack`
  and `WebNeverPanics`, whose invariant says that who is about to send has the lock
  (`SenderLocks`) and that the server ends only after the nil was sent (`NilIsSent`); and
  `PoolTypeCorrect`.

Only model-checked: every liveness property (fairness and ENABLED are beyond the prover);
`SessionWhole` and `OnlyRefusedDialsLeak`, which speak of the end of all activity and need
to know who still owes each removal.

## 5. What is left to do

* Two failures at once in `Session`, for which the line of three routers is too large for
  a short run.
* Proofs of `SessionWhole` and `OnlyRefusedDialsLeak`.  They need, for every pair of rows
  that face each other over a link, the frame, reader, dialer or call that still owes the
  removal of one of them, kept through every step, and an order of the rows of a session
  from its caller to its callee.  Nothing known is against them; nobody has proved them.
* Wires that fill up: writes that block under `tableLck`, in a relay and in the heartbeat.

## 6. Not modelled

* The console and the applications (command line, terminal and process I/O); the TCP,
  socks, ssh, schema, echo and state dialers (one blocking call each, which is a dial that
  succeeds or fails in `Pool`); `CopyPipable.Pipe`, as `Service.DialRaw` passes no pipe to
  its dialers; HTTP and websocket plumbing, the state report, logging, TLS and the parsing
  of uris, access lists and configuration.
* The codec of frames belongs to `codingeasygo/util`, which is not part of this
  repository: what a frame that is too short does to a reader (router.go 581) is for a
  module of that library.
* Writes that block.  Every hazard of this kind (a peer that does not read, two routers
  that are full in both directions, heartbeats held up) needs bounded wires in `Session`,
  which multiply its states by every filling of every wire; a pair of routers, which TLC
  could do, has no relay that waits for another.
* Configuration that changes at run time other than by the file: `AddPolicy`, `AddFilter`
  and `AddDialer` of a balanced dialer are called by `Bootstrap`.
* `State`, `CloseChannel` and the lookups of a web dialer by session id, which change
  nothing the others read or have the effect of a loss.
