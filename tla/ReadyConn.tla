----------------------------- MODULE ReadyConn -----------------------------
(***************************************************************************)
(* RawConn.Wait, Ready and Close (src/router/router.go) on one raw         *)
(* connection that is not a ReadyWaiter itself.                            *)
(*                                                                         *)
(* NewRawConn returns with readyLocker locked; the answer to the dial      *)
(* (procDialBack) or the first Close before it unlocks it; SyncDial waits  *)
(* for that.  closeLocker is only held for a few assignments, which are    *)
(* one step here.  Unlocking a mutex that is not locked ends the program.  *)
(***************************************************************************)
CONSTANTS
    Waiters,    \* goroutines in SyncDial, each calls Wait once
    Closers,    \* goroutines that call Close once, whenever they like: the
                \* application, a channel's reader, Router.Close
    Answerer,   \* the goroutine in procDialBack
    New         \* the owner of readyLocker between NewRawConn and its unlock

ASSUME ThreadsAssumption ==
    /\ Answerer \notin Closers
    /\ New \notin Waiters
    /\ "nobody" \notin Waiters \cup {New}

VARIABLES
    closed, ready,  \* RawConn.closed, RawConn.ready
    failed,         \* RawConn.failed: "nil" or "error"
    owner,          \* of readyLocker: New, a waiter, or "nobody"
    answer,         \* [pc, value]: the call of Ready and what it is given
    close,          \* [c]: the calls of Close
    wait,           \* [w]: the calls of Wait
    result,         \* [w]: what Wait returned
    crashed         \* readyLocker was unlocked when nobody held it

vars == <<closed, ready, failed, owner, answer, close, wait, result, crashed>>

CloseCallers == Closers \cup {Answerer}

ErrorOf(value) == IF value = "failed" THEN "error" ELSE "nil"

\* sync.Mutex.Unlock does not ask who holds the lock.
Unlock ==
    /\ owner' = "nobody"
    /\ crashed' = (crashed \/ owner = "nobody")

(***************************************************************************)
(* Ready, and the Close that procDialBack adds after a failure.            *)
(***************************************************************************)
ReadyCall ==
    /\ answer.pc = "idle"
    /\ \E v \in {"ok", "failed"} :
         answer' = [pc |-> IF closed THEN "done" ELSE "failed", value |-> v]
    /\ ready' = (ready \/ ~closed)
    /\ UNCHANGED <<closed, failed, owner, close, wait, result, crashed>>

ReadyFailed ==
    /\ answer.pc = "failed"
    /\ failed' = ErrorOf(answer.value)
    /\ answer' = [answer EXCEPT !.pc = "unlock"]
    /\ UNCHANGED <<closed, ready, owner, close, wait, result, crashed>>

ReadyUnlock ==
    /\ answer.pc = "unlock"
    /\ Unlock
    /\ answer' = [answer EXCEPT !.pc = "done"]
    /\ UNCHANGED <<closed, ready, failed, close, wait, result>>

(***************************************************************************)
(* Close.  A caller that finds closed set has nothing to do.               *)
(***************************************************************************)
CloseCall_Unchecked(c) ==
    /\ close[c] = "idle"
    /\ c = Answerer => answer = [pc |-> "done", value |-> "failed"]
    /\ close' = [close EXCEPT ![c] = IF ready THEN "raw" ELSE "unlock"]
    /\ closed' = TRUE
    /\ UNCHANGED <<ready, failed, owner, answer, wait, result, crashed>>

CloseCall(c) ==
    /\ close[c] = "idle"
    /\ c = Answerer => answer = [pc |-> "done", value |-> "failed"]
    /\ close' = [close EXCEPT ![c] =
                   IF closed THEN "done" ELSE IF ready THEN "raw" ELSE "unlock"]
    /\ closed' = TRUE
    /\ UNCHANGED <<ready, failed, owner, answer, wait, result, crashed>>

CloseUnlock_Forgotten(c) ==
    /\ close[c] = "unlock"
    /\ close' = [close EXCEPT ![c] = "raw"]
    /\ UNCHANGED <<closed, ready, failed, owner, answer, wait, result, crashed>>

CloseUnlock(c) ==
    /\ close[c] = "unlock"
    /\ Unlock
    /\ close' = [close EXCEPT ![c] = "raw"]
    /\ UNCHANGED <<closed, ready, failed, answer, wait, result>>

CloseRaw(c) ==
    /\ close[c] = "raw"
    /\ close' = [close EXCEPT ![c] = "done"]
    /\ UNCHANGED <<closed, ready, failed, owner, answer, wait, result, crashed>>

(***************************************************************************)
(* Wait: lock, unlock, return failed.                                      *)
(***************************************************************************)
WaitLock(w) ==
    /\ wait[w] = "lock"
    /\ owner = "nobody"
    /\ owner' = w
    /\ wait' = [wait EXCEPT ![w] = "unlock"]
    /\ UNCHANGED <<closed, ready, failed, answer, close, result, crashed>>

WaitUnlock(w) ==
    /\ wait[w] = "unlock"
    /\ Unlock
    /\ wait' = [wait EXCEPT ![w] = "return"]
    /\ UNCHANGED <<closed, ready, failed, answer, close, result>>

WaitReturn(w) ==
    /\ wait[w] = "return"
    /\ result' = [result EXCEPT ![w] = failed]
    /\ wait' = [wait EXCEPT ![w] = "done"]
    /\ UNCHANGED <<closed, ready, failed, owner, answer, close, crashed>>

(***************************************************************************)
(* Specification.                                                          *)
(***************************************************************************)
Init ==
    /\ closed = FALSE /\ ready = FALSE
    /\ failed = "nil"
    /\ owner = New
    /\ answer = [pc |-> "idle", value |-> "none"]
    /\ close = [c \in CloseCallers |-> "idle"]
    /\ wait = [w \in Waiters |-> "lock"]
    /\ result = [w \in Waiters |-> "none"]
    /\ crashed = FALSE

ReadyGoes == ReadyFailed \/ ReadyUnlock
CloseGoes(c) == CloseUnlock(c) \/ CloseRaw(c)
WaitGoes(w) == WaitLock(w) \/ WaitUnlock(w) \/ WaitReturn(w)

Next ==
    \/ ReadyCall \/ ReadyGoes
    \/ \E c \in CloseCallers : CloseCall(c) \/ CloseGoes(c)
    \/ \E w \in Waiters : WaitGoes(w)

Spec == Init /\ [][Next]_vars

\* Calls need not be made; a call that was made goes on.
FairSpec ==
    /\ Spec
    /\ WF_vars(ReadyGoes)
    /\ \A c \in CloseCallers : WF_vars(CloseGoes(c))
    /\ WF_vars(CloseCall(Answerer))
    /\ \A w \in Waiters : WF_vars(WaitGoes(w))

(***************************************************************************)
(* Properties.                                                             *)
(***************************************************************************)
TypeOK ==
    /\ {closed, ready, crashed} \subseteq BOOLEAN
    /\ failed \in {"nil", "error"}
    /\ owner \in Waiters \cup {New, "nobody"}
    /\ answer \in [pc : {"idle", "failed", "unlock", "done"},
                   value : {"none", "ok", "failed"}]
    /\ close \in [CloseCallers -> {"idle", "unlock", "raw", "done"}]
    /\ wait \in [Waiters -> {"lock", "unlock", "return", "done"}]
    /\ result \in [Waiters -> {"none", "nil", "error"}]

\* Whatever Ready and any number of Closes do at once, readyLocker is unlocked
\* by one of them only ("fatal error: sync: unlock of unlocked mutex" otherwise).
NoFatalUnlock == ~crashed

\* What closeLocker's sections decided: the first of Ready and Close.
Outcome == IF ready THEN answer.value ELSE IF closed THEN "closed" ELSE "none"

Promise == INSTANCE Latch WITH outcome <- Outcome, told <- result

\* A RawConn is a latch: the first of Ready and Close decides, Wait returns no
\* sooner, with what was decided, and always returns once it is.
IsLatch == Promise!Spec
=============================================================================
