-------------------------------- MODULE Bond --------------------------------
(***************************************************************************)
(* How a slaver keeps its channels to a master (src/router/router.go,      *)
(* src/router/proxy.go): login, the registry of channels at both ends, the *)
(* reconnect after a loss, and Proxy.Close of the slaver.                  *)
(*                                                                         *)
(* A slot is one entry of the slaver's "channels", with an index of its    *)
(* own; every login of it makes a new connection.  The master keeps the    *)
(* channels of one slaver in a bond, by index.  A bond that gets empty is  *)
(* dropped from Router.channel, and a goroutine may still hold it.         *)
(***************************************************************************)
EXTENDS Naturals, Sequences, FiniteSets

CONSTANTS
    Slots,          \* the slaver's channels, by index
    MaxEvents       \* bound: connections lost, dials and logins refused, and dials the
                    \* master routes to the slaver

ASSUME BoundsAssumption == MaxEvents \in Nat

VARIABLES
    running,    \* slaver: Proxy.Running
    stopping,   \* slaver: progress of Proxy.Close
    login,      \* slaver, [s]: pc of the goroutine in Login or runReconnect
    conn,       \* [s]: the connections made for slot s, in order
    sreg,       \* slaver, [s]: Router.channel of the master's name; 0 is none
    bond,       \* master: the bond in Router.channel; 0 is none
    bonds,      \* master: every bond there was, [s]: its channel; 0 is none
    sel,        \* master: a goroutine in SelectChannel, then in writeCmd
    env         \* how often the bounded events happened
                \* and, for a property, the logins Proxy.Close came too early for

vars == <<running, stopping, login, conn, sreg, bond, bonds, sel, env>>

Nobody == [s \in Slots |-> 0]
Last(s) == Len(conn[s])

\* A connection: alive while neither end closed it and the network is there; wire
\* holds what JoinConn has yet to read (what a joined slaver reads is not of this
\* module); master and slaver are the pc of the loopReadRaw at each end; tagged is
\* login_conn in the context of the slaver's end.
NewConn == [alive |-> TRUE, wire |-> <<>>, master |-> "login", old |-> 0,
            slaver |-> "join", tagged |-> FALSE]

\* The connection of s the master has in the bond of Router.channel.
Registered(s) == IF bond = 0 THEN 0 ELSE bonds[bond][s]

SetMaster(s, i, pc) == [conn EXCEPT ![s][i].master = pc]
SetSlaver(s, i, pc) == [conn EXCEPT ![s][i].slaver = pc]
Written(s, i, m) ==
    IF conn[s][i].alive /\ conn[s][i].slaver = "join"
    THEN [conn EXCEPT ![s][i].wire = Append(@, m)] ELSE conn

Event == /\ env.events < MaxEvents
         /\ env' = [env EXCEPT !.events = @ + 1]

(***************************************************************************)
(* The slaver: LoginChannel, runReconnect and Login.                       *)
(***************************************************************************)
ReconnectCheck_Late(s) ==
    /\ login[s] = "check"
    /\ login' = [login EXCEPT ![s] = "dial"]
    /\ UNCHANGED <<running, stopping, conn, sreg, bond, bonds, sel, env>>

\* the head of runReconnect's loop
ReconnectCheck(s) ==
    /\ login[s] = "check"
    /\ login' = [login EXCEPT ![s] = IF running THEN "dial" ELSE "none"]
    /\ UNCHANGED <<running, stopping, conn, sreg, bond, bonds, sel, env>>

\* connects, and sends CmdLogin
LoginDial(s) ==
    /\ login[s] = "dial"
    /\ \/ /\ conn' = [conn EXCEPT ![s] = Append(@, NewConn)]
          /\ login' = [login EXCEPT ![s] = "join"]
          /\ UNCHANGED env
       \/ /\ Event
          /\ login' = [login EXCEPT ![s] = "check"]
          /\ UNCHANGED conn
    /\ UNCHANGED <<running, stopping, sreg, bond, bonds, sel>>

\* JoinConn takes the first frame for the LoginBack.  Nobody closes a connection
\* whose login failed.
JoinRead(s) ==
    LET c == conn[s][Last(s)] IN
    /\ login[s] = "join"
    /\ c.wire # <<>>
    /\ LET ok == Head(c.wire) = "back" IN
       /\ login' = [login EXCEPT ![s] = IF ok THEN "register" ELSE "check"]
       /\ conn' = [conn EXCEPT ![s][Last(s)] =
                     [c EXCEPT !.wire = <<>>, !.slaver = IF ok THEN "joined" ELSE "leaked"]]
    /\ UNCHANGED <<running, stopping, sreg, bond, bonds, sel, env>>

JoinFail(s) ==
    /\ login[s] = "join"
    /\ ~conn[s][Last(s)].alive
    /\ login' = [login EXCEPT ![s] = "check"]
    /\ conn' = [conn EXCEPT ![s][Last(s)] = [@ EXCEPT !.wire = <<>>, !.slaver = "leaked"]]
    /\ UNCHANGED <<running, stopping, sreg, bond, bonds, sel, env>>

\* Register: addChannel, close the channel it replaces, start the reader
JoinRegister(s) ==
    /\ login[s] = "register"
    /\ sreg' = [sreg EXCEPT ![s] = Last(s)]
    /\ conn' = [conn EXCEPT ![s] = [i \in DOMAIN @ |->
                  IF i = Last(s) THEN [@[i] EXCEPT !.slaver = "read"]
                  ELSE IF i = sreg[s] THEN [@[i] EXCEPT !.alive = FALSE] ELSE @[i]]]
    /\ login' = [login EXCEPT ![s] = "context"]
    /\ UNCHANGED <<running, stopping, bond, bonds, sel, env>>

LoginDone_Again(s) ==
    /\ login[s] = "context"
    /\ conn' = [conn EXCEPT ![s][Last(s)].tagged = TRUE]
    /\ login' = [login EXCEPT ![s] = "check"]
    /\ UNCHANGED <<running, stopping, sreg, bond, bonds, sel, env>>

\* Login stores login_conn and returns nil, which ends runReconnect.
LoginDone(s) ==
    /\ login[s] = "context"
    /\ conn' = [conn EXCEPT ![s][Last(s)].tagged = TRUE]
    /\ login' = [login EXCEPT ![s] = "none"]
    /\ UNCHANGED <<running, stopping, sreg, bond, bonds, sel, env>>

(***************************************************************************)
(* The slaver's readers.                                                   *)
(***************************************************************************)
SlaverFails(s, i) ==
    /\ conn[s][i].slaver = "read"
    /\ ~conn[s][i].alive
    /\ conn' = SetSlaver(s, i, "unregister")
    /\ UNCHANGED <<running, stopping, login, sreg, bond, bonds, sel, env>>

SlaverUnregisters(s, i) ==
    /\ conn[s][i].slaver = "unregister"
    /\ conn' = SetSlaver(s, i, "onclose")
    /\ sreg' = [sreg EXCEPT ![s] = IF @ = i THEN 0 ELSE @]
    /\ UNCHANGED <<running, stopping, login, bond, bonds, sel, env>>

OnConnClose_NoReconnect(s, i) ==
    /\ conn[s][i].slaver = "onclose"
    /\ conn' = SetSlaver(s, i, "done")
    /\ UNCHANGED <<running, stopping, login, sreg, bond, bonds, sel, env>>

\* A running proxy logs in again, if Login got as far as to mark the channel.
OnConnClose(s, i) ==
    /\ conn[s][i].slaver = "onclose"
    /\ IF running /\ conn[s][i].tagged
       THEN login' = [login EXCEPT ![s] = "check"]
       ELSE UNCHANGED login
    /\ conn' = SetSlaver(s, i, IF running /\ ~conn[s][i].tagged THEN "forgotten" ELSE "done")
    /\ UNCHANGED <<running, stopping, sreg, bond, bonds, sel, env>>

(***************************************************************************)
(* Proxy.Close of the slaver, then Router.Close.                           *)
(***************************************************************************)
ProxyClose ==
    /\ stopping = "no"
    /\ running' = FALSE
    /\ stopping' = "router"
    /\ UNCHANGED <<login, conn, sreg, bond, bonds, sel, env>>

RouterClose ==
    /\ stopping = "router"
    /\ stopping' = "done"
    /\ conn' = [s \in Slots |-> [i \in DOMAIN conn[s] |->
                  IF i = sreg[s] THEN [conn[s][i] EXCEPT !.alive = FALSE] ELSE conn[s][i]]]
    /\ env' = [env EXCEPT !.late = {s \in Slots : login[s] \in {"dial", "join", "register"}}]
    /\ UNCHANGED <<running, login, sreg, bond, bonds, sel>>

(***************************************************************************)
(* The master: procLogin in the reader of an accepted connection.          *)
(***************************************************************************)
\* addChannel, under channelLck and the bond's lock; the login may be read from a
\* connection that is lost already
LoginAccept(s, i) ==
    /\ conn[s][i].master = "login"
    /\ IF bond = 0
       THEN /\ bonds' = Append(bonds, [Nobody EXCEPT ![s] = i])
            /\ bond' = Len(bonds) + 1
       ELSE /\ bonds' = [bonds EXCEPT ![bond][s] = i]
            /\ UNCHANGED bond
    /\ conn' = [conn EXCEPT ![s][i] = [@ EXCEPT !.master = "replace", !.old = Registered(s)]]
    /\ UNCHANGED <<running, stopping, login, sreg, sel, env>>

\* OnConnLogin denies access.
LoginRefuse(s, i) ==
    /\ conn[s][i].master = "login" /\ conn[s][i].alive
    /\ Event
    /\ conn' = [conn EXCEPT ![s][i] =
                  [@ EXCEPT !.wire = <<"refused">>, !.alive = FALSE, !.master = "read"]]
    /\ UNCHANGED <<running, stopping, login, sreg, bond, bonds, sel>>

LoginReplace(s, i) ==
    LET old == conn[s][i].old IN
    /\ conn[s][i].master = "replace"
    /\ conn' = [conn EXCEPT ![s] = [j \in DOMAIN @ |->
                  IF j = i THEN [@[j] EXCEPT !.master = "back", !.old = 0]
                  ELSE IF j = old THEN [@[j] EXCEPT !.alive = FALSE] ELSE @[j]]]
    /\ UNCHANGED <<running, stopping, login, sreg, bond, bonds, sel, env>>

LoginBack(s, i) ==
    /\ conn[s][i].master = "back"
    /\ conn' = [Written(s, i, "back") EXCEPT ![s][i].master = "read"]
    /\ UNCHANGED <<running, stopping, login, sreg, bond, bonds, sel, env>>

MasterFails(s, i) ==
    /\ conn[s][i].master \in {"login", "read"}
    /\ ~conn[s][i].alive
    /\ conn' = SetMaster(s, i, "unregister")
    /\ UNCHANGED <<running, stopping, login, sreg, bond, bonds, sel, env>>

MasterUnregisters_Unchecked(s, i) ==
    LET left == [bonds[bond] EXCEPT ![s] = 0] IN
    /\ conn[s][i].master = "unregister"
    /\ conn' = SetMaster(s, i, "done")
    /\ IF bond = 0 THEN UNCHANGED <<bond, bonds>>
       ELSE /\ bonds' = [bonds EXCEPT ![bond] = left]
            /\ bond' = IF left = Nobody THEN 0 ELSE bond
    /\ UNCHANGED <<running, stopping, login, sreg, sel, env>>

MasterUnregisters_BondOnly(s, i) ==
    LET left == IF Registered(s) = i THEN [bonds[bond] EXCEPT ![s] = 0] ELSE bonds[bond] IN
    /\ conn[s][i].master = "unregister"
    /\ conn' = SetMaster(s, i, "done")
    /\ IF bond = 0 THEN UNCHANGED <<bond, bonds>>
       ELSE IF left = Nobody THEN bond' = 0 /\ UNCHANGED bonds
       ELSE bonds' = [bonds EXCEPT ![bond] = left] /\ UNCHANGED bond
    /\ UNCHANGED <<running, stopping, login, sreg, sel, env>>

\* under channelLck and the bond's lock: the channel goes if it is still its own, the
\* bond goes if it is empty
MasterUnregisters(s, i) ==
    LET left == IF Registered(s) = i THEN [bonds[bond] EXCEPT ![s] = 0] ELSE bonds[bond] IN
    /\ conn[s][i].master = "unregister"
    /\ conn' = SetMaster(s, i, "done")
    /\ IF bond = 0 THEN UNCHANGED <<bond, bonds>>
       ELSE /\ bonds' = [bonds EXCEPT ![bond] = left]
            /\ bond' = IF left = Nobody THEN 0 ELSE bond
    /\ UNCHANGED <<running, stopping, login, sreg, sel, env>>

(***************************************************************************)
(* The master: SelectChannel and the dial that goes to the channel, and    *)
(* loopHeartbeat, which closes a channel nobody at the slaver serves.      *)
(***************************************************************************)
\* channelLck is held for the look, the bond's lock for the choice.
SelectLook ==
    /\ sel.pc = "idle"
    /\ bond # 0
    /\ sel' = [pc |-> "pick", bond |-> bond]
    /\ Event
    /\ UNCHANGED <<running, stopping, login, conn, sreg, bond, bonds>>

SelectPick_Unchecked ==
    /\ sel.pc = "pick"
    /\ \E s \in Slots : sel' = [pc |-> "write", slot |-> s, no |-> bonds[sel.bond][s]]
    /\ UNCHANGED <<running, stopping, login, conn, sreg, bond, bonds, env>>

\* With nothing left to choose, it returns neither a channel nor an error.
SelectPick ==
    /\ sel.pc = "pick"
    /\ LET channels == bonds[sel.bond] IN
       \/ /\ channels = Nobody
          /\ sel' = [pc |-> "nil"]
       \/ \E s \in Slots : /\ channels[s] # 0
                           /\ sel' = [pc |-> "write", slot |-> s, no |-> channels[s]]
    /\ UNCHANGED <<running, stopping, login, conn, sreg, bond, bonds, env>>

SelectWrite ==
    /\ sel.pc = "write"
    /\ conn' = Written(sel.slot, sel.no, "dial")
    /\ sel' = [pc |-> "idle"]
    /\ UNCHANGED <<running, stopping, login, sreg, bond, bonds, env>>

HeartbeatMissed_Warns(s, i) ==
    /\ Registered(s) = i /\ conn[s][i].alive
    /\ conn[s][i].slaver = "leaked"
    /\ UNCHANGED vars

\* Only the channels in the slaver's registry send heartbeats.
HeartbeatMissed(s, i) ==
    /\ Registered(s) = i /\ conn[s][i].alive
    /\ conn[s][i].slaver = "leaked"
    /\ conn' = [conn EXCEPT ![s][i].alive = FALSE]
    /\ UNCHANGED <<running, stopping, login, sreg, bond, bonds, sel, env>>

Lose(s, i) ==
    /\ conn[s][i].alive
    /\ Event
    /\ conn' = [conn EXCEPT ![s][i].alive = FALSE]
    /\ UNCHANGED <<running, stopping, login, sreg, bond, bonds, sel>>

(***************************************************************************)
(* Specification.                                                          *)
(***************************************************************************)
Init ==
    /\ running = TRUE /\ stopping = "no"
    /\ login = [s \in Slots |-> "dial"]
    /\ conn = [s \in Slots |-> <<>>]
    /\ sreg = Nobody
    /\ bond = 0 /\ bonds = <<>>
    /\ sel = [pc |-> "idle"]
    /\ env = [events |-> 0, late |-> {}]

LoginSteps(s) == ReconnectCheck(s) \/ LoginDial(s) \/ JoinRead(s) \/ JoinFail(s)
                 \/ JoinRegister(s) \/ LoginDone(s)
SlaverSteps(s, i) == SlaverFails(s, i) \/ SlaverUnregisters(s, i) \/ OnConnClose(s, i)
MasterSteps(s, i) == LoginAccept(s, i) \/ LoginRefuse(s, i) \/ LoginReplace(s, i)
                     \/ LoginBack(s, i) \/ MasterFails(s, i) \/ MasterUnregisters(s, i)
SelectSteps == SelectPick \/ SelectWrite

Next ==
    \/ \E s \in Slots :
         \/ LoginSteps(s)
         \/ \E i \in DOMAIN conn[s] : SlaverSteps(s, i) \/ MasterSteps(s, i)
                                      \/ HeartbeatMissed(s, i) \/ Lose(s, i)
    \/ ProxyClose \/ RouterClose
    \/ SelectLook \/ SelectSteps

Spec == Init /\ [][Next]_vars

\* Every goroutine that can go on does, heartbeats included.  Nobody has to close
\* the proxy or to dial.
FairSpec ==
    /\ Spec
    /\ \A s \in Slots :
         /\ WF_vars(LoginSteps(s))
         /\ WF_vars(\E i \in DOMAIN conn[s] : SlaverSteps(s, i))
         /\ WF_vars(\E i \in DOMAIN conn[s] : MasterSteps(s, i))
         /\ WF_vars(\E i \in DOMAIN conn[s] : HeartbeatMissed(s, i))
    /\ WF_vars(RouterClose)
    /\ WF_vars(SelectSteps)

(***************************************************************************)
(* Properties.                                                             *)
(***************************************************************************)
ConnStates == [alive : BOOLEAN, wire : Seq({"back", "refused", "dial"}),
               master : {"login", "replace", "back", "read", "unregister", "done"},
               old : Nat,
               slaver : {"join", "joined", "leaked", "read", "unregister", "onclose", "done",
                         "forgotten"},
               tagged : BOOLEAN]

\* The type invariant; what SelectChannel hands to writeCmd is a channel, never nil.
TypeOK ==
    /\ running \in BOOLEAN
    /\ stopping \in {"no", "router", "done"}
    /\ login \in [Slots -> {"check", "dial", "join", "register", "context", "none"}]
    /\ conn \in [Slots -> Seq(ConnStates)]
    /\ sreg \in [Slots -> Nat]
    /\ bond \in Nat
    /\ bonds \in Seq([Slots -> Nat])
    /\ sel \in [pc : {"idle", "nil"}] \cup [pc : {"pick"}, bond : Nat \ {0}]
               \cup [pc : {"write"}, slot : Slots, no : Nat \ {0}]
    /\ env \in [events : Nat, late : SUBSET Slots]

\* A channel that is logged in and open is in the master's registry, or about to be
\* closed by the login that took its place: the reader of a replaced channel does not
\* take its successor out (loopReadRaw compares before it deletes), and a bond is not
\* dropped with a channel in it.
LiveIsRegistered ==
    \A s \in Slots : \A i \in DOMAIN conn[s] :
        conn[s][i].alive /\ conn[s][i].master = "read" =>
            \/ Registered(s) = i
            \/ \E j \in DOMAIN conn[s] : conn[s][j].master = "replace" /\ conn[s][j].old = i

\* SelectChannel looks a bond up and chooses from it later: what it chooses is a channel
\* that is registered when it is chosen, never one of a bond that was dropped meanwhile.
SelectsRegistered ==
    [][sel.pc = "pick" /\ sel'.pc = "write" => Registered(sel'.slot) = sel'.no]_vars

\* A slot is logged in by one goroutine at a time, and not while its last channel is
\* still in use: the slaver never replaces a channel of its own, which would end in
\* two of them reconnecting in turns.
OneLogin ==
    \A s \in Slots : login[s] \in {"check", "dial", "join", "register"} =>
        /\ sreg[s] = 0
        /\ \A i \in DOMAIN conn[s] : conn[s][i].slaver \notin {"read", "unregister", "onclose"}

\* What is still open at the slaver after Proxy.Close comes from a login that was under
\* way, past the test of Running, when Close collected the channels.
ClosedUnlessLate ==
    stopping = "done" => \A s \in Slots : \A i \in DOMAIN conn[s] :
        conn[s][i].slaver = "read" /\ conn[s][i].alive => s \in env.late

Up(s) == LET i == Registered(s) IN
    i # 0 /\ conn[s][i].alive /\ conn[s][i].slaver = "read"
Forgotten(s) == \E i \in DOMAIN conn[s] : conn[s][i].slaver = "forgotten"

\* "auto reconnect and keep alive between client to server" (README.md:6).
AutoReconnect == \A s \in Slots : running ~> (Up(s) \/ ~running)

\* The slaver gets its channel back after any failure but one: a channel lost between
\* JoinConn, which starts its reader, and the assignment of login_conn in Login.
KeepsAlive == \A s \in Slots : running ~> (Up(s) \/ ~running \/ Forgotten(s))

\* The master is rid of a connection whose login failed at the slaver: the retry
\* replaces it, or the heartbeat ends it.
Stale(s) == LET i == Registered(s) IN i # 0 /\ conn[s][i].slaver = "leaked"
LeakedLeaves == \A s \in Slots : Stale(s) ~> ~Stale(s)
=============================================================================
