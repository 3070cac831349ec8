------------------------------ MODULE Forwards ------------------------------
(***************************************************************************)
(* The forwards of a Proxy (src/router/proxy.go): the listeners it opens,  *)
(* the map it keeps them in by name, the goroutine that accepts on each,   *)
(* and Proxy.Close.  A new Proxy is made at every start of the service, so *)
(* a goroutine may belong to a Proxy that is gone.                         *)
(*                                                                         *)
(* A listener of a socks or proxy forward is served by a library, which    *)
(* does not touch the map.  What an accepted connection does after it was  *)
(* dialed is the subject of Session.                                       *)
(***************************************************************************)
EXTENDS Naturals, Sequences

CONSTANTS
    Names,      \* names of forwards, never empty (StartForward refuses an empty one)
    Ports,      \* addresses to listen on
    AnyPort,    \* port 0: the system chooses a free one
    Uris,       \* what a forward is dialed to
    MaxErrors   \* bound: Accept calls that fail on an open listener

ASSUME ErrorsAssumption == MaxErrors \in Nat

VARIABLES
    node,       \* the Proxy: its number, and Running
    forwards,   \* [name]: forwards of the Proxy, by the number of the listener; 0 is none
    listeners,  \* every listener there was
    leaving,    \* the listener StopForward took from the map and has to close; 0 is none
    errors      \* how many Accept calls failed

forwardVars == <<node, forwards, listeners, leaving, errors>>

NoForwards == [n \in Names |-> 0]

\* proxy is the number of its Proxy, loop the pc of loopForward, broken: its Accept failed
Listener(n, loop, port, uri) ==
    [name |-> n, loop |-> loop, port |-> port, uri |-> uri, proxy |-> node.no,
     open |-> TRUE, broken |-> FALSE]

InUse(port) == port # AnyPort
               /\ \E i \in DOMAIN listeners : listeners[i].open /\ listeners[i].port = port

\* under forwardsLck: the name is free, and so is the address
CanStart(n, port) == forwards[n] = 0 /\ ~InUse(port)

\* StartForward when it succeeds
StartForward(n, loop, port, uri) ==
    /\ listeners' = Append(listeners, Listener(n, loop, port, uri))
    /\ forwards' = [forwards EXCEPT ![n] = Len(listeners) + 1]
    /\ UNCHANGED <<node, leaving, errors>>

\* StopForward takes the listener from the map under the lock ...
StopForward(n) ==
    /\ leaving = 0
    /\ leaving' = forwards[n]
    /\ forwards' = [forwards EXCEPT ![n] = 0]
    /\ UNCHANGED <<node, listeners, errors>>

StopForwardClose_Forgets ==
    /\ leaving # 0
    /\ leaving' = 0
    /\ UNCHANGED <<node, forwards, listeners, errors>>

\* ... and closes it after that.
StopForwardClose ==
    /\ leaving # 0
    /\ listeners' = [listeners EXCEPT ![leaving].open = FALSE]
    /\ leaving' = 0
    /\ UNCHANGED <<node, forwards, errors>>

(***************************************************************************)
(* loopForward.                                                            *)
(***************************************************************************)
Running(i) == node.running /\ listeners[i].proxy = node.no

\* the head of the loop; a Proxy that was closed ends it, and the loop its listener
LoopHead(i) ==
    /\ listeners[i].loop = "head"
    /\ listeners' = [listeners EXCEPT ![i] =
                       IF Running(i) THEN [@ EXCEPT !.loop = "accept"]
                       ELSE [@ EXCEPT !.loop = "ending", !.open = FALSE]]
    /\ UNCHANGED <<node, forwards, leaving, errors>>

\* A connection is accepted and dialed, or closed when it cannot be dialed.
LoopAccept(i) ==
    /\ listeners[i].loop = "accept" /\ listeners[i].open
    /\ listeners' = [listeners EXCEPT ![i].loop = "head"]
    /\ UNCHANGED <<node, forwards, leaving, errors>>

\* Any error of Accept ends the loop: the listener was closed, or the process has, for
\* a moment, no file descriptor left.
LoopFails(i) ==
    /\ listeners[i].loop = "accept"
    /\ IF listeners[i].open THEN errors < MaxErrors /\ errors' = errors + 1
                            ELSE UNCHANGED errors
    /\ listeners' = [listeners EXCEPT ![i] =
                       [@ EXCEPT !.loop = "ending", !.open = FALSE,
                                 !.broken = listeners[i].broken \/ listeners[i].open]]
    /\ UNCHANGED <<node, forwards, leaving>>

LoopEnds_KeepsEntry(i) ==
    /\ listeners[i].loop = "ending"
    /\ listeners' = [listeners EXCEPT ![i].loop = "done"]
    /\ UNCHANGED <<node, forwards, leaving, errors>>

\* The name goes from the map of its Proxy, whoever has it by now.
LoopEnds(i) ==
    /\ listeners[i].loop = "ending"
    /\ listeners' = [listeners EXCEPT ![i].loop = "done"]
    /\ forwards' = IF listeners[i].proxy = node.no
                   THEN [forwards EXCEPT ![listeners[i].name] = 0] ELSE forwards
    /\ UNCHANGED <<node, leaving, errors>>

LoopSteps(i) == LoopHead(i) \/ LoopAccept(i) \/ LoopFails(i) \/ LoopEnds(i)

(***************************************************************************)
(* NewProxy, and Proxy.Close in its two steps.                             *)
(***************************************************************************)
NewProxy ==
    /\ leaving = 0
    /\ node' = [no |-> node.no + 1, running |-> TRUE]
    /\ forwards' = NoForwards
    /\ UNCHANGED <<listeners, leaving, errors>>

CloseRunning ==
    /\ leaving = 0
    /\ node' = [node EXCEPT !.running = FALSE]
    /\ UNCHANGED <<forwards, listeners, leaving, errors>>

CloseForwards ==
    /\ ~node.running
    /\ listeners' = [i \in DOMAIN listeners |->
                       IF \E n \in Names : forwards[n] = i
                       THEN [listeners[i] EXCEPT !.open = FALSE] ELSE listeners[i]]
    /\ UNCHANGED <<node, forwards, leaving, errors>>

(***************************************************************************)
(* What a Proxy promises whatever its owner asks for, one call at a time.  *)
(***************************************************************************)
ForwardsInit ==
    /\ node = [no |-> 0, running |-> FALSE]
    /\ forwards = NoForwards
    /\ listeners = <<>>
    /\ leaving = 0 /\ errors = 0

OwnerCalls ==
    \/ /\ leaving = 0 /\ Len(listeners') > Len(listeners)
       /\ \E n \in Names, port \in Ports : /\ CanStart(n, port)
                                          /\ \E loop \in {"head", "library"}, uri \in Uris :
                                                StartForward(n, loop, port, uri)
    \/ \E n \in Names : StopForward(n)
    \/ StopForwardClose
    \/ CloseRunning \/ CloseForwards
    \/ NewProxy /\ \A n \in Names : forwards[n] # 0 => ~listeners[forwards[n]].open

ForwardsNext == OwnerCalls \/ \E i \in DOMAIN listeners : LoopSteps(i)

\* The callers of a Proxy keep to its protocol: the owner's calls do not overlap, no
\* forward is started over another one or on an address in use, and a Proxy is replaced
\* only after the listeners in its map were closed.
ForwardsSpec == ForwardsInit /\ [][ForwardsNext]_forwardVars

(***************************************************************************)
(* Properties.                                                             *)
(***************************************************************************)
Listeners == [name : Names, loop : {"head", "accept", "ending", "done", "library"},
              port : Ports, uri : Uris, proxy : Nat, open : BOOLEAN, broken : BOOLEAN]

ForwardsTypeOK ==
    /\ node \in [no : Nat, running : BOOLEAN]
    /\ forwards \in [Names -> 0 .. Len(listeners)]
    /\ listeners \in Seq(Listeners)
    /\ leaving \in 0 .. Len(listeners)
    /\ errors \in Nat

\* An entry of the map leads to a listener that is open, as long as the Proxy runs, or
\* whose own loop is about to take it out: StartForward never finds a name used by a
\* forward that is no longer there.
EntryOpen ==
    \A n \in Names : forwards[n] # 0 =>
        LET l == listeners[forwards[n]] IN
        /\ l.name = n
        /\ node.running => l.open \/ l.loop = "ending"

\* The loop that lost its listener to StopForward takes the name out of the map when it
\* ends, and with it a forward started under that name meanwhile.  This is the only way
\* an open listener gets lost: no call can close it any more, not even Proxy.Close.
Lost(i) == listeners[i].open /\ leaving # i /\ forwards[listeners[i].name] # i
LostByOldLoop ==
    \A i \in DOMAIN listeners : Lost(i) =>
        \E j \in DOMAIN listeners :
            /\ j < i
            /\ listeners[j].name = listeners[i].name /\ listeners[j].proxy = listeners[i].proxy
            /\ listeners[j].loop = "done"
=============================================================================
