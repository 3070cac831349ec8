------------------------------- MODULE Piper -------------------------------
(***************************************************************************)
(* One DialPiper over a channel (src/router/router.go): a WaitedPiper, the *)
(* session of it in the router's table, and the goroutines that share it.  *)
(*                                                                         *)
(* The application's goroutine waits for the answer and calls PipeConn,    *)
(* inside which the session is read (loopReadRaw); the channel's reader    *)
(* handles the answer, data and end of the session; Router.Close closes    *)
(* the piper from a third goroutine.  closeLocker is only held for a few   *)
(* assignments, which are one step here.                                   *)
(***************************************************************************)
EXTENDS Naturals

CONSTANTS
    MaxData         \* bound: data frames the far end sends

ASSUME BoundsAssumption == MaxData \in Nat

VARIABLES
    ready, closed,  \* WaitedPiper.ready, .closed
    failed,         \* WaitedPiper.failed: "nil" or "error"
    next,           \* WaitedPiper.next # nil
    base,           \* WaitedPiper.Base: "nil", "open" or "closed"
    readyHeld,      \* readyLocker is locked
    baseHeld,       \* baseLocker is locked
    closing,        \* [t]: how far goroutine t is in a call of Close
    app,            \* pc of the goroutine that called DialPiper
    reader,         \* pc of loopReadRaw of the channel
    entry,          \* the session is in Router.table
    far,            \* the far end: [state, sent], what the reader will read
    told, heard,    \* Closed frames sent to, and acted on from, the far end
    result,         \* what Wait returned
    crashed         \* goroutines that panicked, or "unlock" of an unlocked mutex

vars == <<ready, closed, failed, next, base, readyHeld, baseHeld, closing, app,
          reader, entry, far, told, heard, result, crashed>>
piper == <<ready, closed, failed, next, base, readyHeld, baseHeld>>

Threads == {"app", "reader", "router"}

Free(t) == closing[t] = "no"
StartClose(t) == closing' = [closing EXCEPT ![t] = "enter"]

UnlockReady ==
    /\ readyHeld' = FALSE
    /\ crashed' = IF readyHeld THEN crashed ELSE crashed \cup {"unlock"}
UnlockBase ==
    /\ baseHeld' = FALSE
    /\ crashed' = IF baseHeld THEN crashed ELSE crashed \cup {"unlock"}

\* removeTable, and a Closed frame to the far end if it held the session
DropAndTell_Always ==
    /\ entry' = FALSE
    /\ told' = told + 1
DropAndTell ==
    /\ entry' = FALSE
    /\ told' = IF entry THEN told + 1 ELSE told

(***************************************************************************)
(* WaitedPiper.Close, in any goroutine.                                    *)
(***************************************************************************)
CloseEnter_Unchecked(t) ==
    /\ closing[t] = "enter"
    /\ closed' = TRUE
    /\ closing' = [closing EXCEPT ![t] = IF ready THEN "next" ELSE "unlock"]
    /\ UNCHANGED <<ready, failed, next, base, readyHeld, baseHeld, app, reader,
                   entry, far, told, heard, result, crashed>>

CloseEnter(t) ==
    /\ closing[t] = "enter"
    /\ closed' = TRUE
    /\ closing' = [closing EXCEPT ![t] =
                     IF closed THEN "no" ELSE IF ready THEN "next" ELSE "unlock"]
    /\ UNCHANGED <<ready, failed, next, base, readyHeld, baseHeld, app, reader,
                   entry, far, told, heard, result, crashed>>

CloseUnlock_Forgotten(t) ==
    /\ closing[t] = "unlock"
    /\ closing' = [closing EXCEPT ![t] = "next"]
    /\ UNCHANGED <<piper, app, reader, entry, far, told, heard, result, crashed>>

CloseUnlock(t) ==
    /\ closing[t] = "unlock"
    /\ UnlockBase
    /\ closing' = [closing EXCEPT ![t] = "next"]
    /\ UNCHANGED <<ready, closed, failed, next, base, readyHeld, app, reader, entry,
                   far, told, heard, result>>

CloseNext_Skipped(t) ==
    /\ closing[t] = "next"
    /\ closing' = [closing EXCEPT ![t] = "base"]
    /\ UNCHANGED <<piper, app, reader, entry, far, told, heard, result, crashed>>

\* next(error), the function procDialBack gave to Ready
CloseNext(t) ==
    /\ closing[t] = "next"
    /\ IF next THEN DropAndTell ELSE UNCHANGED <<entry, told>>
    /\ closing' = [closing EXCEPT ![t] = "base"]
    /\ UNCHANGED <<piper, app, reader, far, heard, result, crashed>>

CloseBase(t) ==
    /\ closing[t] = "base"
    /\ base' = IF base = "open" THEN "closed" ELSE base
    /\ closing' = [closing EXCEPT ![t] = "no"]
    /\ UNCHANGED <<ready, closed, failed, next, readyHeld, baseHeld, app, reader,
                   entry, far, told, heard, result, crashed>>

CloseSteps(t) == CloseEnter(t) \/ CloseUnlock(t) \/ CloseNext(t) \/ CloseBase(t)

(***************************************************************************)
(* The application: DialPiper, then PipeConn or Close, and Close again.    *)
(* Its proxy server is a library's, only the calls it makes are known.     *)
(***************************************************************************)
Wait ==
    /\ app = "wait"
    /\ ~readyHeld
    /\ result' = failed
    /\ app' = IF failed = "nil" THEN "waited" ELSE "done"
    /\ UNCHANGED <<piper, closing, reader, entry, far, told, heard, crashed>>

\* the client is gone before it could be piped
GiveUp ==
    /\ app = "waited"
    /\ StartClose("app")
    /\ app' = "done"
    /\ UNCHANGED <<piper, reader, entry, far, told, heard, result, crashed>>

PipeConn ==
    /\ app = "waited"
    /\ IF closed
       THEN app' = "close" /\ UNCHANGED <<base, ready>>
       ELSE app' = "unlock" /\ base' = "open" /\ ready' = TRUE
    /\ UNCHANGED <<closed, failed, next, readyHeld, baseHeld, closing, reader, entry,
                   far, told, heard, result, crashed>>

PipeUnlock ==
    /\ app = "unlock"
    /\ UnlockBase
    /\ app' = "loop"
    /\ UNCHANGED <<ready, closed, failed, next, base, readyHeld, closing, reader,
                   entry, far, told, heard, result>>

\* next(nil) is loopReadRaw: it reads until the client or the piper is closed,
LoopEnd ==
    /\ app = "loop"
    /\ StartClose("app")
    /\ app' = "remove"
    /\ UNCHANGED <<piper, reader, entry, far, told, heard, result, crashed>>

\* then forgets the session.
LoopRemove ==
    /\ app = "remove" /\ Free("app")
    /\ DropAndTell
    /\ app' = "close"
    /\ UNCHANGED <<piper, closing, reader, far, heard, result, crashed>>

AppClose ==
    /\ app = "close"
    /\ StartClose("app")
    /\ app' = "done"
    /\ UNCHANGED <<piper, reader, entry, far, told, heard, result, crashed>>

(***************************************************************************)
(* The channel's reader.                                                   *)
(***************************************************************************)
Receives(state) == reader = "read" /\ Free("reader") /\ far.state = state

\* procDialBack with "OK": Ready(nil, next)
DialBackOK ==
    /\ Receives("dialing")
    /\ far' = [far EXCEPT !.state = "open"]
    /\ next' = ~closed
    /\ reader' = IF closed THEN "read" ELSE "readied"
    /\ UNCHANGED <<ready, closed, failed, base, readyHeld, baseHeld, closing, app,
                   entry, told, heard, result, crashed>>

\* procDialBack with an error: removeTable, Ready(err, nil), Close
DialBackFailed ==
    /\ Receives("dialing")
    /\ far' = [far EXCEPT !.state = "ended"]
    /\ entry' = FALSE
    /\ failed' = IF closed THEN failed ELSE "error"
    /\ reader' = IF closed THEN "closing" ELSE "refused"
    /\ UNCHANGED <<ready, closed, next, base, readyHeld, baseHeld, closing, app,
                   told, heard, result, crashed>>

ReadyUnlock_UnlessClosed ==
    /\ reader \in {"readied", "refused"}
    /\ IF closed THEN UNCHANGED <<readyHeld, crashed>> ELSE UnlockReady
    /\ reader' = IF reader = "readied" THEN "read" ELSE "closing"
    /\ UNCHANGED <<ready, closed, failed, next, base, baseHeld, closing, app, entry,
                   far, told, heard, result>>

ReadyUnlock ==
    /\ reader \in {"readied", "refused"}
    /\ UnlockReady
    /\ reader' = IF reader = "readied" THEN "read" ELSE "closing"
    /\ UNCHANGED <<ready, closed, failed, next, base, baseHeld, closing, app, entry,
                   far, told, heard, result>>

ReaderCloses ==
    /\ reader = "closing"
    /\ StartClose("reader")
    /\ reader' = "read"
    /\ UNCHANGED <<piper, app, entry, far, told, heard, result, crashed>>

\* procChannelData looks the session up, then writes.
ReadData ==
    /\ Receives("open")
    /\ far.sent < MaxData
    /\ far' = [far EXCEPT !.sent = @ + 1]
    /\ reader' = IF entry THEN "write" ELSE "read"
    /\ UNCHANGED <<piper, closing, app, entry, told, heard, result, crashed>>

\* Write waits for baseLocker unless it finds ready set.
WriteChecks ==
    /\ reader = "write"
    /\ reader' = IF ready THEN "deliver" ELSE "blocked"
    /\ UNCHANGED <<piper, closing, app, entry, far, told, heard, result, crashed>>

WriteUnblocked ==
    /\ reader = "blocked"
    /\ ~baseHeld
    /\ reader' = "deliver"
    /\ UNCHANGED <<piper, closing, app, entry, far, told, heard, result, crashed>>

\* A nil Base panics, which ends the program; the other goroutines go on here.
WriteBase ==
    /\ reader = "deliver"
    /\ IF failed = "nil" /\ base = "nil"
       THEN reader' = "panicked" /\ crashed' = crashed \cup {"reader"}
       ELSE reader' = "read" /\ UNCHANGED crashed
    /\ UNCHANGED <<piper, closing, app, entry, far, told, heard, result>>

\* procClosed; a relay that loses its channel tells the end of a session that nobody has
\* answered yet, too.
ReadClosed ==
    /\ Receives("dialing") \/ Receives("open")
    /\ far' = [far EXCEPT !.state = "ended"]
    /\ entry' = FALSE
    /\ IF entry THEN StartClose("reader") /\ heard' = heard + 1
       ELSE UNCHANGED <<closing, heard>>
    /\ UNCHANGED <<piper, app, reader, told, result, crashed>>

\* The channel is lost: the reader purges the table and closes what it held.
ChannelLost ==
    /\ reader = "read" /\ Free("reader")
    /\ reader' = "done"
    /\ entry' = FALSE
    /\ IF entry THEN StartClose("reader") ELSE UNCHANGED closing
    /\ UNCHANGED <<piper, app, far, told, heard, result, crashed>>

(***************************************************************************)
(* Router.Close.  It closes the channel before the piper: ChannelLost.  The *)
(* reader may yet have frames of the channel in its buffer.                *)
(***************************************************************************)
RouterClose ==
    /\ ~closed /\ entry /\ Free("router")
    /\ StartClose("router")
    /\ UNCHANGED <<piper, app, reader, entry, far, told, heard, result, crashed>>

(***************************************************************************)
(* Specification.                                                          *)
(***************************************************************************)
\* DialConn has put the session in the table and sent the dial.
Init ==
    /\ ready = FALSE /\ closed = FALSE /\ failed = "nil" /\ next = FALSE
    /\ base = "nil" /\ readyHeld = TRUE /\ baseHeld = TRUE
    /\ closing = [t \in Threads |-> "no"]
    /\ app = "wait" /\ reader = "read" /\ entry = TRUE
    /\ far = [state |-> "dialing", sent |-> 0]
    /\ told = 0 /\ heard = 0 /\ result = "none" /\ crashed = {}

AppGoes == Wait \/ PipeConn \/ PipeUnlock \/ LoopRemove \/ AppClose
ReaderGoes == ReadyUnlock \/ ReaderCloses \/ WriteChecks \/ WriteUnblocked \/ WriteBase

Next ==
    \/ \E t \in Threads : CloseSteps(t)
    \/ AppGoes \/ GiveUp \/ LoopEnd
    \/ ReaderGoes \/ DialBackOK \/ DialBackFailed \/ ReadData \/ ReadClosed
    \/ ChannelLost \/ RouterClose

Spec == Init /\ [][Next]_vars

\* A goroutine that is not blocked goes on; the client, the far end, the network and
\* the owner of the router owe nothing, but an application whose dial succeeded pipes
\* its connection or closes the piper.
FairSpec ==
    /\ Spec
    /\ \A t \in Threads : WF_vars(CloseSteps(t))
    /\ WF_vars(AppGoes \/ GiveUp)
    /\ WF_vars(base = "closed" /\ LoopEnd)
    /\ WF_vars(ReaderGoes)

(***************************************************************************)
(* Properties.                                                             *)
(***************************************************************************)
TypeOK ==
    /\ {ready, closed, next, readyHeld, baseHeld, entry} \subseteq BOOLEAN
    /\ failed \in {"nil", "error"}
    /\ base \in {"nil", "open", "closed"}
    /\ closing \in [Threads -> {"no", "enter", "unlock", "next", "base"}]
    /\ app \in {"wait", "waited", "unlock", "loop", "remove", "close", "done"}
    /\ reader \in {"read", "readied", "refused", "closing", "write", "blocked",
                   "deliver", "panicked", "done"}
    /\ far \in [state : {"dialing", "open", "ended"}, sent : 0 .. MaxData]
    /\ told \in Nat /\ heard \in Nat
    /\ result \in {"none", "nil", "error"}
    /\ crashed \subseteq {"unlock", "reader"}

\* readyLocker and baseLocker, locked by NewWaitedPiper, are unlocked once each
\* whatever order Ready, PipeConn and Close come in.
NoFatalUnlock == "unlock" \notin crashed

\* Of the two ways a session ends on this side - the function Close calls and the end
\* of loopReadRaw - one tells the far end, and neither does when the far end told us.
ToldOnce == told + heard <= 1

\* The data of a session that was answered and is closed does not stay in the table.
SessionForgotten == (closed /\ next) ~> ~entry

\* The channel's reader, which serves every session of the channel, is not held up
\* for good by a piper that is not piped yet.
WriteReleased == (reader = "blocked") ~> (reader # "blocked")

\* A WaitedPiper is a latch that Ready alone decides: a Close before it does not release
\* Wait.  DialPiper returns once its dial was answered or its piper closed, also when a
\* Close comes between the two steps of Ready.  The one way to wait for ever is a Close
\* before Ready, which leaves readyLocker locked and makes Ready give up.
Outcome == IF next THEN "ok" ELSE IF failed = "error" THEN "failed" ELSE "none"
Promise == INSTANCE Latch WITH Waiters <- {"app"}, outcome <- Outcome,
                               told <- [w \in {"app"} |-> result]
ReadyDecides ==
    /\ Promise!Spec
    /\ (far.state # "dialing" \/ closed) ~> (app # "wait" \/ (closed /\ Outcome = "none"))

\* Once DialPiper has returned the piper, data does not get past it before it was given
\* its connection: Close, its comment says, "will lock when it is not ready".
IoHasBase == result = "nil" => "reader" \notin crashed
=============================================================================
