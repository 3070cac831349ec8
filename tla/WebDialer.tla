----------------------------- MODULE WebDialer ------------------------------
(***************************************************************************)
(* WebDialer (src/dialer/web.go): Dial hands one end of a pipe to an HTTP  *)
(* server of the same process over a channel of Cap places; Shutdown ends  *)
(* the server with a nil.  Dial blocks on a full channel, with the lock    *)
(* the server needs to close it.                                           *)
(***************************************************************************)
EXTENDS Naturals, Sequences, FiniteSets

CONSTANTS
    Sids,       \* the sessions that dial
    Nil,        \* the entry Shutdown sends
    Cap         \* places in the channel (10 in NewWebDialer)

ASSUME WebAssumption == Cap \in Nat \ {0} /\ Nil \notin Sids

VARIABLES
    visit,      \* [sid]: the goroutine in Dial
    lock,       \* consLck: the sid that holds it; Nil is nobody
    accept,     \* the channel
    server,     \* the goroutine of Bootstrap: it serves, ends, or has ended
    shutdown,   \* the goroutine in Shutdown, called at most once
    cons,       \* cons: never taken out
    served      \* what the server accepted

webVars == <<visit, lock, accept, server, shutdown, cons, served>>

WebBegin(s) ==
    /\ visit[s] = "idle"
    /\ visit' = [visit EXCEPT ![s] = "lock"]
    /\ UNCHANGED <<lock, accept, server, shutdown, cons, served>>

\* stopped, which is set together with the close of the channel, ends the dial
WebLock(s) ==
    /\ visit[s] = "lock" /\ lock = Nil
    /\ IF server = "stopped"
       THEN /\ visit' = [visit EXCEPT ![s] = "failed"]
            /\ UNCHANGED <<lock, cons>>
       ELSE /\ visit' = [visit EXCEPT ![s] = "send"]
            /\ cons' = cons \cup {s} /\ lock' = s
    /\ UNCHANGED <<accept, server, shutdown, served>>

WebSend(s) ==
    /\ visit[s] = "send" /\ Len(accept) < Cap
    /\ accept' = Append(accept, s)
    /\ visit' = [visit EXCEPT ![s] = "ok"]
    /\ lock' = Nil
    /\ UNCHANGED <<server, shutdown, cons, served>>

\* http.Serve: a connection gets a goroutine of its own; an error of Accept, which is
\* what a nil becomes, is returned.
WebAccept ==
    /\ server = "serve" /\ accept # <<>>
    /\ accept' = Tail(accept)
    /\ IF Head(accept) = Nil
       THEN server' = "ending" /\ UNCHANGED served
       ELSE served' = served \cup {Head(accept)} /\ UNCHANGED server
    /\ UNCHANGED <<visit, lock, shutdown, cons>>

WebStopped_Unlocked ==
    /\ server = "ending"
    /\ server' = "stopped"
    /\ UNCHANGED <<visit, lock, accept, shutdown, cons, served>>

WebStopped ==
    /\ server = "ending" /\ lock = Nil
    /\ server' = "stopped"
    /\ UNCHANGED <<visit, lock, accept, shutdown, cons, served>>

ShutdownBegin ==
    /\ shutdown = "none"
    /\ shutdown' = "send"
    /\ UNCHANGED <<visit, lock, accept, server, cons, served>>

ShutdownSend_GivesUp ==
    /\ shutdown = "send"
    /\ accept' = IF Len(accept) < Cap THEN Append(accept, Nil) ELSE accept
    /\ shutdown' = "sent"
    /\ UNCHANGED <<visit, lock, server, cons, served>>

ShutdownSend ==
    /\ shutdown = "send" /\ Len(accept) < Cap
    /\ accept' = Append(accept, Nil)
    /\ shutdown' = "sent"
    /\ UNCHANGED <<visit, lock, server, cons, served>>

(***************************************************************************)
(* Specification.                                                          *)
(***************************************************************************)
WebInit ==
    /\ visit = [s \in Sids |-> "idle"]
    /\ lock = Nil /\ accept = <<>>
    /\ server = "serve" /\ shutdown = "none"
    /\ cons = {} /\ served = {}

VisitSteps(s) == WebLock(s) \/ WebSend(s)
ServerSteps == WebAccept \/ WebStopped \/ ShutdownSend

WebNext == (\E s \in Sids : WebBegin(s) \/ VisitSteps(s)) \/ ServerSteps \/ ShutdownBegin
WebSpec == WebInit /\ [][WebNext]_webVars

(***************************************************************************)
(* Properties.                                                             *)
(***************************************************************************)
WebTypeOK ==
    /\ visit \in [Sids -> {"idle", "lock", "send", "ok", "failed"}]
    /\ lock \in Sids \cup {Nil}
    /\ accept \in Seq(Sids \cup {Nil}) /\ Len(accept) <= Cap
    /\ server \in {"serve", "ending", "stopped"}
    /\ shutdown \in {"none", "send", "sent"}
    /\ cons \subseteq Sids /\ served \subseteq Sids

\* Nobody sends on the channel once it is closed, which would panic: the channel is
\* closed under the lock a Dial holds from its look at "stopped" until it has sent, and
\* the one Shutdown has sent its nil before the server ends.
NoSendOnClosed ==
    server = "stopped" => shutdown = "sent" /\ \A s \in Sids : visit[s] # "send"
=============================================================================
