-------------------------- MODULE ReadyConnProofs --------------------------
(***************************************************************************)
(* Proofs about ReadyConn, for any number of waiting and closing           *)
(* goroutines: readyLocker is never unlocked twice, and a RawConn keeps    *)
(* what Latch promises of the outcome and of what waiters are told.        *)
(***************************************************************************)
EXTENDS ReadyConn, TLAPS

(***************************************************************************)
(* The inductive invariant.                                                *)
(***************************************************************************)
Answering == answer.pc \in {"failed", "unlock"}

\* Ready and Close each get past closeLocker once, and exclude each other.
OneDecides ==
    /\ answer.pc = "idle" => ~ready
    /\ Answering => ready
    /\ ready => answer.value \in {"ok", "failed"}
    /\ \A c \in CloseCallers : close[c] = "unlock" => closed /\ ~ready
    /\ \A c, d \in CloseCallers : close[c] = "unlock" /\ close[d] = "unlock" => c = d

\* readyLocker keeps its first owner until whoever decided unlocks it.
HeldUntilDecided ==
    /\ ~ready /\ ~closed => owner = New
    /\ Answering => owner = New
    /\ \A c \in CloseCallers : close[c] = "unlock" => owner = New
    /\ \A w \in Waiters : wait[w] = "unlock" => owner = w

\* failed is what Ready was given before readyLocker is unlocked.
FailedIsSet ==
    failed = IF ready /\ answer.pc # "failed" THEN ErrorOf(answer.value) ELSE "nil"

\* Who got past readyLocker finds everything decided.
WaitersAfter ==
    \A w \in Waiters :
        /\ wait[w] # "lock" => (ready \/ closed) /\ ~Answering
        /\ wait[w] # "done" => result[w] = "none"

IInv == TypeOK /\ NoFatalUnlock /\ OneDecides /\ HeldUntilDecided /\ FailedIsSet
        /\ WaitersAfter

LEMMA InitInv == ASSUME Init PROVE IInv
BY DEF Init, IInv, TypeOK, NoFatalUnlock, OneDecides, HeldUntilDecided, FailedIsSet,
       WaitersAfter, Answering

LEMMA ReadyInv ==
    ASSUME ThreadsAssumption, IInv, ReadyCall \/ ReadyGoes
    PROVE  IInv'
<1> USE DEF IInv, Answering
<1>1. CASE ReadyCall
  <2>1. TypeOK' /\ NoFatalUnlock'
    BY <1>1 DEF ReadyCall, TypeOK, NoFatalUnlock
  <2>2. OneDecides'
    <3>1. PICK v \in {"ok", "failed"} :
            answer' = [pc |-> IF closed THEN "done" ELSE "failed", value |-> v]
      BY <1>1 DEF ReadyCall
    <3>2. answer'.value = v /\ answer'.pc = (IF closed THEN "done" ELSE "failed")
      BY <3>1
    <3>3. ~ready /\ ready' = ~closed /\ UNCHANGED <<closed, close>>
      BY <1>1 DEF ReadyCall, OneDecides
    <3>4. \A c \in CloseCallers : close[c] = "unlock" => closed
      BY DEF OneDecides
    <3> QED BY <3>2, <3>3, <3>4 DEF OneDecides
  <2>3. HeldUntilDecided'
    BY <1>1 DEF ReadyCall, TypeOK, OneDecides, HeldUntilDecided
  <2>4. FailedIsSet'
    BY <1>1 DEF ReadyCall, TypeOK, OneDecides, FailedIsSet, ErrorOf
  <2>5. WaitersAfter'
    BY <1>1 DEF ReadyCall, TypeOK, OneDecides, WaitersAfter
  <2> QED BY <2>1, <2>2, <2>3, <2>4, <2>5
<1>2. CASE ReadyFailed
  <2>1. TypeOK' /\ NoFatalUnlock'
    BY <1>2 DEF ReadyFailed, TypeOK, NoFatalUnlock, ErrorOf
  <2>2. OneDecides' /\ HeldUntilDecided' /\ WaitersAfter'
    BY <1>2 DEF ReadyFailed, TypeOK, OneDecides, HeldUntilDecided, WaitersAfter
  <2>3. FailedIsSet'
    BY <1>2 DEF ReadyFailed, TypeOK, OneDecides, FailedIsSet, ErrorOf
  <2> QED BY <2>1, <2>2, <2>3
<1>3. CASE ReadyUnlock
  <2>1. owner = New /\ New # "nobody" /\ ready
    BY <1>3 DEF ReadyUnlock, HeldUntilDecided, ThreadsAssumption, OneDecides
  <2>2. TypeOK' /\ NoFatalUnlock'
    BY <1>3, <2>1 DEF ReadyUnlock, Unlock, TypeOK, NoFatalUnlock
  <2>3. OneDecides' /\ FailedIsSet' /\ WaitersAfter'
    BY <1>3 DEF ReadyUnlock, Unlock, TypeOK, OneDecides, FailedIsSet, WaitersAfter, ErrorOf
  <2>4. HeldUntilDecided'
    BY <1>3, <2>1 DEF ReadyUnlock, Unlock, TypeOK, OneDecides, HeldUntilDecided,
                      ThreadsAssumption
  <2> QED BY <2>2, <2>3, <2>4
<1> QED BY <1>1, <1>2, <1>3 DEF ReadyGoes

LEMMA CloseInv ==
    ASSUME ThreadsAssumption, IInv, NEW c \in CloseCallers, CloseCall(c) \/ CloseGoes(c)
    PROVE  IInv'
<1> USE DEF IInv, Answering
<1>1. CASE CloseCall(c)
  <2>1. TypeOK' /\ NoFatalUnlock'
    BY <1>1 DEF CloseCall, TypeOK, NoFatalUnlock
  <2>2. OneDecides'
    BY <1>1 DEF CloseCall, TypeOK, OneDecides
  <2>3. HeldUntilDecided'
    BY <1>1 DEF CloseCall, TypeOK, OneDecides, HeldUntilDecided
  <2>4. FailedIsSet' /\ WaitersAfter'
    BY <1>1 DEF CloseCall, TypeOK, FailedIsSet, WaitersAfter, ErrorOf
  <2> QED BY <2>1, <2>2, <2>3, <2>4
<1>2. CASE CloseUnlock(c)
  <2>1. owner = New /\ New # "nobody" /\ closed /\ ~ready
    BY <1>2 DEF CloseUnlock, HeldUntilDecided, ThreadsAssumption, OneDecides
  <2>2. TypeOK' /\ NoFatalUnlock'
    BY <1>2, <2>1 DEF CloseUnlock, Unlock, TypeOK, NoFatalUnlock
  <2>3. OneDecides' /\ FailedIsSet' /\ WaitersAfter'
    BY <1>2 DEF CloseUnlock, Unlock, TypeOK, OneDecides, FailedIsSet, WaitersAfter, ErrorOf
  <2>4. HeldUntilDecided'
    BY <1>2, <2>1 DEF CloseUnlock, Unlock, TypeOK, OneDecides, HeldUntilDecided,
                      ThreadsAssumption
  <2> QED BY <2>2, <2>3, <2>4
<1>3. CASE CloseRaw(c)
  <2>1. TypeOK' /\ NoFatalUnlock'
    BY <1>3 DEF CloseRaw, TypeOK, NoFatalUnlock
  <2>2. OneDecides' /\ HeldUntilDecided' /\ FailedIsSet' /\ WaitersAfter'
    BY <1>3 DEF CloseRaw, TypeOK, OneDecides, HeldUntilDecided, FailedIsSet, WaitersAfter,
                ErrorOf
  <2> QED BY <2>1, <2>2
<1> QED BY <1>1, <1>2, <1>3 DEF CloseGoes

LEMMA WaitInv ==
    ASSUME ThreadsAssumption, IInv, NEW w \in Waiters, WaitGoes(w)
    PROVE  IInv'
<1> USE DEF IInv, Answering
<1>0. w # "nobody" /\ w # New /\ New # "nobody"
  BY DEF ThreadsAssumption
<1>1. CASE WaitLock(w)
  <2>1. TypeOK' /\ NoFatalUnlock' /\ OneDecides' /\ FailedIsSet'
    BY <1>1 DEF WaitLock, TypeOK, NoFatalUnlock, OneDecides, FailedIsSet, ErrorOf
  <2>2. (ready \/ closed) /\ ~Answering /\ \A c \in CloseCallers : close[c] # "unlock"
    BY <1>0, <1>1 DEF WaitLock, TypeOK, HeldUntilDecided
  <2>3. HeldUntilDecided'
    BY <1>0, <1>1, <2>2 DEF WaitLock, TypeOK, HeldUntilDecided, ThreadsAssumption
  <2>4. WaitersAfter'
    BY <1>1, <2>2 DEF WaitLock, TypeOK, WaitersAfter
  <2> QED BY <2>1, <2>3, <2>4
<1>2. CASE WaitUnlock(w)
  <2>1. owner = w
    BY <1>2 DEF WaitUnlock, HeldUntilDecided
  <2>2. (ready \/ closed) /\ ~Answering /\ \A c \in CloseCallers : close[c] # "unlock"
    BY <1>0, <1>2, <2>1 DEF WaitUnlock, HeldUntilDecided, WaitersAfter
  <2>3. TypeOK' /\ NoFatalUnlock' /\ OneDecides' /\ FailedIsSet' /\ WaitersAfter'
    BY <1>0, <1>2, <2>1 DEF WaitUnlock, Unlock, TypeOK, NoFatalUnlock, OneDecides,
                            FailedIsSet, WaitersAfter, ErrorOf
  <2>4. HeldUntilDecided'
    BY <1>0, <1>2, <2>1, <2>2 DEF WaitUnlock, Unlock, TypeOK, HeldUntilDecided
  <2> QED BY <2>3, <2>4
<1>3. CASE WaitReturn(w)
  <2>1. TypeOK' /\ NoFatalUnlock' /\ OneDecides' /\ FailedIsSet'
    BY <1>3 DEF WaitReturn, TypeOK, NoFatalUnlock, OneDecides, FailedIsSet, ErrorOf
  <2>2. HeldUntilDecided' /\ WaitersAfter'
    BY <1>3 DEF WaitReturn, TypeOK, HeldUntilDecided, WaitersAfter
  <2> QED BY <2>1, <2>2
<1> QED BY <1>1, <1>2, <1>3 DEF WaitGoes

LEMMA NextInv ==
    ASSUME ThreadsAssumption, IInv, [Next]_vars
    PROVE  IInv'
<1>1. CASE UNCHANGED vars
  BY <1>1 DEF vars, IInv, TypeOK, NoFatalUnlock, OneDecides, HeldUntilDecided,
              FailedIsSet, WaitersAfter, Answering, ErrorOf
<1>2. CASE Next
  BY <1>2, ReadyInv, CloseInv, WaitInv DEF Next
<1> QED BY <1>1, <1>2

LEMMA Inductive == Spec => []IInv
<1>1. Init => IInv
  BY InitInv
<1>2. IInv /\ [Next]_vars => IInv'
  BY ThreadsAssumption, NextInv
<1> QED BY <1>1, <1>2, PTL DEF Spec

\* However many goroutines call Wait and Close while the dial is answered, no two of
\* them unlock readyLocker.
THEOREM NeverFatalUnlock == Spec => []NoFatalUnlock
<1>1. IInv => NoFatalUnlock
  BY DEF IInv
<1> QED BY <1>1, Inductive, PTL

(***************************************************************************)
(* A RawConn implements a latch.                                           *)
(***************************************************************************)

LEMMA LatchInit == ASSUME Init PROVE Promise!Init
BY DEF Init, Promise!Init, Outcome

\* Only Ready and Close decide, and only the first of them.
LEMMA LatchStep ==
    ASSUME ThreadsAssumption, IInv, [Next]_vars
    PROVE  [Promise!Next]_Promise!vars
<1> USE DEF IInv
<1>1. CASE UNCHANGED vars
  BY <1>1 DEF vars, Promise!vars, Outcome
<1>2. CASE ReadyCall
  <2>1. CASE closed \/ ready
    <3>1. ready' = ready /\ closed' = closed /\ (ready => answer' = answer)
      BY <1>2, <2>1 DEF ReadyCall, OneDecides, TypeOK
    <3> QED BY <1>2, <2>1, <3>1 DEF ReadyCall, OneDecides, Promise!vars, Outcome
  <2>2. CASE ~closed /\ ~ready
    <3>1. Outcome = "none" /\ Outcome' \in {"ok", "failed"}
      <4>1. PICK v \in {"ok", "failed"} :
              answer' = [pc |-> IF closed THEN "done" ELSE "failed", value |-> v]
        BY <1>2 DEF ReadyCall
      <4>2. answer'.value = v
        BY <4>1
      <4>3. ready' = TRUE
        BY <1>2, <2>2 DEF ReadyCall
      <4> QED BY <2>2, <4>2, <4>3 DEF Outcome
    <3> QED BY <1>2, <3>1 DEF ReadyCall, Promise!Next, Promise!Decide, Promise!Outcomes
  <2> QED BY <2>1, <2>2
<1>3. CASE ReadyGoes
  BY <1>3 DEF ReadyGoes, ReadyFailed, ReadyUnlock, Unlock, Promise!vars, Outcome, TypeOK
<1>4. ASSUME NEW c \in CloseCallers, CloseCall(c)
      PROVE  [Promise!Next]_Promise!vars
  <2>1. CASE closed \/ ready
    BY <1>4, <2>1 DEF CloseCall, Promise!vars, Outcome
  <2>2. CASE ~closed /\ ~ready
    <3>1. Outcome = "none" /\ Outcome' = "closed"
      BY <1>4, <2>2 DEF CloseCall, Outcome
    <3> QED BY <1>4, <3>1 DEF CloseCall, Promise!Next, Promise!Decide, Promise!Outcomes
  <2> QED BY <2>1, <2>2
<1>5. ASSUME NEW c \in CloseCallers, CloseGoes(c)
      PROVE  [Promise!Next]_Promise!vars
  BY <1>5 DEF CloseGoes, CloseUnlock, CloseRaw, Unlock, Promise!vars, Outcome
<1>6. ASSUME NEW w \in Waiters, WaitLock(w) \/ WaitUnlock(w)
      PROVE  [Promise!Next]_Promise!vars
  BY <1>6 DEF WaitLock, WaitUnlock, Unlock, Promise!vars, Outcome
<1>7. ASSUME NEW w \in Waiters, WaitReturn(w)
      PROVE  [Promise!Next]_Promise!vars
  <2>1. result[w] = "none" /\ (ready \/ closed) /\ ~Answering
    BY <1>7 DEF WaitReturn, WaitersAfter
  <2>2. Outcome # "none" /\ failed = Promise!ErrorOf(Outcome)
    BY <2>1 DEF FailedIsSet, OneDecides, Answering, Outcome, ErrorOf, Promise!ErrorOf
  <2>3. Promise!Tell(w)
    BY <1>7, <2>1, <2>2 DEF WaitReturn, Promise!Tell, Outcome
  <2> QED BY <2>3 DEF Promise!Next
<1> QED BY <1>1, <1>2, <1>3, <1>4, <1>5, <1>6, <1>7 DEF Next, WaitGoes

\* The first of Ready and Close decides what every Wait returns, and no Wait returns
\* before: the safety part of IsLatch.
THEOREM ImplementsLatch == Spec => Promise!Init /\ [][Promise!Next]_Promise!vars
<1>1. Init => Promise!Init
  BY LatchInit
<1>2. IInv /\ [Next]_vars => [Promise!Next]_Promise!vars
  BY ThreadsAssumption, LatchStep
<1> QED BY <1>1, <1>2, Inductive, PTL DEF Spec
=============================================================================
