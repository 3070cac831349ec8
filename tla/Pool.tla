-------------------------------- MODULE Pool --------------------------------
(***************************************************************************)
(* A dial that a router makes itself: DialConn without a route (src/router *)
(* /router.go) asks the service (src/router/service.go), which asks its    *)
(* pool (src/dialer/dilaer.go), where the first dialer that matches the    *)
(* uri is a balanced one, a web dialer, or none.  The connection it gets   *)
(* is joined to the caller's by two goroutines that copy.                  *)
(***************************************************************************)
EXTENDS Balance, WebDialer

CONSTANT Setups     \* the bound of a run: the configuration, what each session dials, and
                    \* the sessions that may be closed once they are joined

Kinds == {"balance", "web", "unmatched"}
ASSUME SetupsAssumption ==
    /\ Requests = Sids
    /\ Setups \subseteq [conf : Confs, kind : [Sids -> Kinds], close : SUBSET Sids]

VARIABLES
    setup,
    raw,        \* [session]: the caller's connection, there from the dial on
    conn,       \* [session]: the connection that was dialed
    copies,     \* [session]: the copies that run: "to conn", "to raw"
    rawConn,    \* the sessions that Router.rawConn has both entries of
    router      \* Router.Close: was it called, and the ends it has yet to close

sessionVars == <<raw, conn, copies, rawConn, router>>
vars == <<balanceVars, webVars, setup, sessionVars>>

\* The dialer of the pool that the uri of a session matches.
kind == setup.kind

PoolDial(s) ==
    /\ raw[s] = "none"
    /\ raw' = [raw EXCEPT ![s] = "open"]
    /\ \/ kind[s] = "balance" /\ BalanceBegin(s) /\ UNCHANGED webVars
       \/ kind[s] = "web" /\ WebBegin(s) /\ UNCHANGED balanceVars
       \/ kind[s] = "unmatched" /\ UNCHANGED <<balanceVars, webVars>>
    /\ UNCHANGED <<setup, conn, copies, rawConn, router>>

Result(s) ==
    CASE kind[s] = "balance"   -> req[s].pc
      [] kind[s] = "web"       -> visit[s]
      [] kind[s] = "unmatched" -> IF raw[s] = "open" THEN "failed" ELSE "idle"

\* DialConn after the pool: an error closes the caller's connection, ...
DialRefused(s) ==
    /\ Result(s) = "failed" /\ conn[s] = "none"
    /\ raw' = [raw EXCEPT ![s] = "closed"]
    /\ conn' = [conn EXCEPT ![s] = "closed"]
    /\ UNCHANGED <<balanceVars, webVars, setup, copies, rawConn, router>>

\* ... a connection is entered with it in rawConn, and joined.
DialJoined(s) ==
    /\ Result(s) = "ok" /\ conn[s] = "none"
    /\ conn' = [conn EXCEPT ![s] = "open"]
    /\ copies' = [copies EXCEPT ![s] = {"to conn", "to raw"}]
    /\ rawConn' = rawConn \cup {s}
    /\ UNCHANGED <<balanceVars, webVars, setup, raw, router>>

\* A copy ends when what it reads is closed, or when it fails to write.
Ended(s) == raw[s] = "closed" \/ conn[s] = "closed"

ToRawEnds_KeepsRaw(s) ==
    /\ "to raw" \in copies[s] /\ Ended(s)
    /\ copies' = [copies EXCEPT ![s] = @ \ {"to raw"}]
    /\ UNCHANGED <<balanceVars, webVars, setup, raw, conn, rawConn, router>>

ToRawEnds(s) ==
    /\ "to raw" \in copies[s] /\ Ended(s)
    /\ copies' = [copies EXCEPT ![s] = @ \ {"to raw"}]
    /\ raw' = [raw EXCEPT ![s] = "closed"]
    /\ UNCHANGED <<balanceVars, webVars, setup, conn, rawConn, router>>

ToConnEnds_KeepsEntry(s) ==
    /\ "to conn" \in copies[s] /\ Ended(s)
    /\ copies' = [copies EXCEPT ![s] = @ \ {"to conn"}]
    /\ conn' = [conn EXCEPT ![s] = "closed"]
    /\ UNCHANGED <<balanceVars, webVars, setup, raw, rawConn, router>>

ToConnEnds(s) ==
    /\ "to conn" \in copies[s] /\ Ended(s)
    /\ copies' = [copies EXCEPT ![s] = @ \ {"to conn"}]
    /\ conn' = [conn EXCEPT ![s] = "closed"]
    /\ rawConn' = rawConn \ {s}
    /\ UNCHANGED <<balanceVars, webVars, setup, raw, router>>

\* Either end closes; for a web session only a server that serves it does.
RawEnds(s) ==
    /\ s \in setup.close /\ copies[s] # {} /\ raw[s] = "open"
    /\ raw' = [raw EXCEPT ![s] = "closed"]
    /\ UNCHANGED <<balanceVars, webVars, setup, conn, copies, rawConn, router>>

ConnEnds(s) ==
    /\ s \in setup.close /\ conn[s] = "open"
    /\ kind[s] = "web" => s \in served
    /\ conn' = [conn EXCEPT ![s] = "closed"]
    /\ UNCHANGED <<balanceVars, webVars, setup, raw, copies, rawConn, router>>

\* Router.Close collects what rawConn has at that time ...
RouterClose ==
    /\ setup.close # {} /\ ~router.called
    /\ router' = [called |-> TRUE, todo |-> rawConn \X {"raw", "conn"}]
    /\ UNCHANGED <<balanceVars, webVars, setup, raw, conn, copies, rawConn>>

\* ... and closes one after the other, without a lock.
RouterCloses(s) ==
    /\ \E end \in {"raw", "conn"} :
         /\ <<s, end>> \in router.todo
         /\ router' = [router EXCEPT !.todo = @ \ {<<s, end>>}]
         /\ raw' = IF end = "raw" THEN [raw EXCEPT ![s] = "closed"] ELSE raw
         /\ conn' = IF end = "conn" THEN [conn EXCEPT ![s] = "closed"] ELSE conn
    /\ UNCHANGED <<balanceVars, webVars, setup, copies, rawConn>>

(***************************************************************************)
(* Specification; a call of a nil dialer ends the process.                 *)
(***************************************************************************)
Init ==
    /\ BalanceInit /\ WebInit
    /\ setup \in Setups /\ conf = setup.conf
    /\ raw = [s \in Sids |-> "none"]
    /\ conn = [s \in Sids |-> "none"]
    /\ copies = [s \in Sids |-> {}]
    /\ rawConn = {} /\ router = [called |-> FALSE, todo |-> {}]

OnlyBalance == UNCHANGED <<webVars, setup, sessionVars>>
OnlyWeb     == UNCHANGED <<balanceVars, setup, sessionVars>>

Balancing(s) == DialSteps(s) /\ OnlyBalance
Visiting(s)  == VisitSteps(s) /\ OnlyWeb
Serving      == ServerSteps /\ OnlyWeb
Joining(s)   == DialRefused(s) \/ DialJoined(s)

Next ==
    /\ ~crashed
    /\ \/ \E s \in Sids : \/ PoolDial(s) \/ Balancing(s) \/ Visiting(s) \/ Joining(s)
                          \/ ToRawEnds(s) \/ ToConnEnds(s) \/ RawEnds(s) \/ ConnEnds(s)
                          \/ RouterCloses(s)
       \/ TimeSteps /\ OnlyBalance
       \/ Serving \/ (ShutdownBegin /\ OnlyWeb)
       \/ RouterClose

Spec == Init /\ [][Next]_vars

\* Every goroutine that can go on does; a dialer that dials returns some time.  What the
\* two ends of a session do, the periods, Shutdown and Router.Close are not owed.  A copy
\* is only sure to end when what it reads is closed.
FairSpec ==
    /\ Spec
    /\ \A s \in Sids : /\ WF_vars(~crashed /\ Balancing(s))
                       /\ WF_vars(~crashed /\ Visiting(s))
                       /\ WF_vars(~crashed /\ Joining(s))
                       /\ WF_vars(~crashed /\ conn[s] = "closed" /\ ToRawEnds(s))
                       /\ WF_vars(~crashed /\ raw[s] = "closed" /\ ToConnEnds(s))
    /\ WF_vars(~crashed /\ Serving)

(***************************************************************************)
(* Properties.                                                             *)
(***************************************************************************)
\* The type invariant; the entries of rawConn are those of sessions with a copy that will
\* take them out.
TypeOK ==
    /\ BalanceTypeOK /\ WebTypeOK
    /\ setup \in Setups
    /\ raw \in [Sids -> {"none", "open", "closed"}]
    /\ conn \in [Sids -> {"none", "open", "closed"}]
    /\ copies \in [Sids -> SUBSET {"to conn", "to raw"}]
    /\ rawConn = {s \in Sids : "to conn" \in copies[s]}
    /\ router \in [called : BOOLEAN, todo : SUBSET (Sids \X {"raw", "conn"})]

\* A balanced dial ends, with a connection or in time, whatever the dialers do and
\* however often they are removed; unless the process panics over a removed one.
RequestEnds ==
    \A s \in Sids : (kind[s] = "balance" /\ raw[s] = "open") ~> (req[s].pc \in {"ok", "failed"} \/ crashed)

\* A web dial returns, although Dial waits for a place in the channel with the lock in its
\* hands, and what it hands over is served unless the server was told to end.  A Shutdown
\* stops the server, so that later dials are refused.  The one way to have neither is a
\* Dial that waits, with the lock, for a place in a channel the server has left for good.
Jammed == /\ server = "ending" /\ Len(accept) = Cap
          /\ \E s \in Sids : lock = s /\ visit[s] = "send"
WebServed ==
    /\ \A s \in Sids : (visit[s] = "lock") ~>
           (\/ s \in served \/ visit[s] = "failed" \/ Jammed \/ crashed
            \/ visit[s] = "ok" /\ server # "serve")
    /\ (shutdown # "none") ~> (server = "stopped" \/ Jammed \/ crashed)

\* Each end of a joined session is closed after the other, by the caller, the dialed
\* side or Router.Close, and nothing is left in rawConn.
EndsTogether ==
    \A s \in Sids : Ended(s) ~> ((raw[s] = "closed" /\ conn[s] = "closed" /\ s \notin rawConn)
                                 \/ crashed)
=============================================================================
