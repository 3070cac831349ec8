---------------------------- MODULE PiperProofs ----------------------------
(***************************************************************************)
(* Proofs about Piper, whatever the far end sends: no locker is unlocked   *)
(* twice, and the far end is told of the end of the session once at most.  *)
(***************************************************************************)
EXTENDS Piper, TLAPS

(***************************************************************************)
(* The inductive invariant.                                                *)
(***************************************************************************)
\* Ready comes once: its unlock is the only one of readyLocker.
ReadyLocked ==
    /\ far.state = "dialing" => readyHeld /\ reader \notin {"readied", "refused"}
    /\ reader \in {"readied", "refused"} => readyHeld

\* closeLocker's sections leave the unlock of baseLocker to PipeConn or to one Close.
BaseLocked ==
    /\ ~ready /\ ~closed => baseHeld
    /\ app \in {"wait", "waited"} => ~ready
    /\ app = "unlock" => ready /\ baseHeld
    /\ \A t \in Threads : closing[t] = "unlock" => closed /\ ~ready /\ baseHeld
    /\ \A t, u \in Threads : closing[t] = "unlock" /\ closing[u] = "unlock" => t = u

\* Nothing puts the session back into the table, whoever takes it out.
ToldByEntry ==
    /\ told \in Nat /\ heard \in Nat
    /\ entry => told = 0 /\ heard = 0
    /\ ToldOnce

PInv == TypeOK /\ NoFatalUnlock /\ ReadyLocked /\ BaseLocked /\ ToldByEntry

LEMMA InitInv == ASSUME BoundsAssumption, Init PROVE PInv
<1>1. far \in [state : {"dialing", "open", "ended"}, sent : 0 .. MaxData]
  BY DEF BoundsAssumption, Init
<1>2. TypeOK
  BY <1>1 DEF Init, TypeOK
<1>3. NoFatalUnlock /\ ReadyLocked /\ ToldByEntry
  BY DEF Init, NoFatalUnlock, ReadyLocked, ToldByEntry, ToldOnce
<1>4. BaseLocked
  BY DEF Init, BaseLocked
<1> QED BY <1>2, <1>3, <1>4 DEF PInv

LEMMA CloseInv ==
    ASSUME PInv, NEW t \in Threads, CloseSteps(t)
    PROVE  PInv'
<1> USE DEF PInv
<1>1. CASE CloseEnter(t)
  <2>1. TypeOK' /\ NoFatalUnlock' /\ ReadyLocked' /\ ToldByEntry'
    BY <1>1 DEF CloseEnter, TypeOK, NoFatalUnlock, ReadyLocked, ToldByEntry, ToldOnce
  <2>2. BaseLocked'
    BY <1>1 DEF CloseEnter, TypeOK, BaseLocked
  <2> QED BY <2>1, <2>2
<1>2. CASE CloseUnlock(t)
  <2>1. closed /\ ~ready /\ baseHeld
    BY <1>2 DEF CloseUnlock, BaseLocked
  <2>2. TypeOK' /\ NoFatalUnlock' /\ ReadyLocked' /\ ToldByEntry'
    <3>1. TypeOK'
      <4>1. /\ closing' = [closing EXCEPT ![t] = "next"]
            /\ crashed' = crashed
        BY <1>2, <2>1 DEF CloseUnlock, UnlockBase
      <4>2. baseHeld' = FALSE /\ UNCHANGED <<ready, closed, failed, next, base, readyHeld,
                app, reader, entry, far, told, heard, result>>
        BY <1>2 DEF CloseUnlock, UnlockBase
      <4>3. {ready, closed, next, readyHeld, baseHeld, entry}' \subseteq BOOLEAN
        BY <4>2 DEF TypeOK
      <4>4. closing' \in [Threads -> {"no", "enter", "unlock", "next", "base"}]
        BY <4>1 DEF TypeOK
      <4>5. TypeOK
        OBVIOUS
      <4> HIDE DEF PInv
      <4> QED BY <4>1, <4>2, <4>3, <4>4, <4>5 DEF TypeOK
    <3>2. NoFatalUnlock'
      BY <1>2, <2>1 DEF CloseUnlock, UnlockBase, NoFatalUnlock
    <3>3. ReadyLocked'
      BY <1>2, <2>1 DEF CloseUnlock, UnlockBase, ReadyLocked
    <3>4. ToldByEntry'
      BY <1>2, <2>1 DEF CloseUnlock, UnlockBase, ToldByEntry, ToldOnce
    <3> QED BY <3>1, <3>2, <3>3, <3>4
  <2>3. BaseLocked'
    BY <1>2, <2>1 DEF CloseUnlock, UnlockBase, TypeOK, BaseLocked
  <2> QED BY <2>2, <2>3
<1>3. CASE CloseNext(t)
  <2>3. ToldByEntry'
    BY <1>3 DEF CloseNext, DropAndTell, ToldByEntry, ToldOnce
  <2>1. TypeOK' /\ NoFatalUnlock' /\ ReadyLocked'
    <3>0. entry' \in BOOLEAN
      <4>1. CASE next
        BY <1>3, <4>1 DEF CloseNext, DropAndTell
      <4>2. CASE ~next
        BY <1>3, <4>2 DEF CloseNext, TypeOK
      <4> QED BY <4>1, <4>2
    <3>a. told' \in Nat
      BY <2>3 DEF ToldByEntry
    <3>1. TypeOK'
      BY <1>3, <3>0, <3>a DEF CloseNext, piper, TypeOK
    <3>2. NoFatalUnlock'
      BY <1>3 DEF CloseNext, DropAndTell, piper, NoFatalUnlock
    <3>3. ReadyLocked'
      BY <1>3 DEF CloseNext, DropAndTell, piper, ReadyLocked
    <3> QED BY <3>1, <3>2, <3>3
  <2>2. BaseLocked'
    BY <1>3 DEF CloseNext, piper, TypeOK, BaseLocked
  <2> QED BY <2>1, <2>2, <2>3
<1>4. CASE CloseBase(t)
  <2>1. TypeOK' /\ NoFatalUnlock' /\ ReadyLocked' /\ ToldByEntry'
    BY <1>4 DEF CloseBase, TypeOK, NoFatalUnlock, ReadyLocked, ToldByEntry, ToldOnce
  <2>2. BaseLocked'
    BY <1>4 DEF CloseBase, TypeOK, BaseLocked
  <2> QED BY <2>1, <2>2
<1> QED BY <1>1, <1>2, <1>3, <1>4 DEF CloseSteps

LEMMA AppInv ==
    ASSUME PInv, AppGoes \/ GiveUp \/ LoopEnd
    PROVE  PInv'
<1> USE DEF PInv
<1>1. CASE Wait
  BY <1>1 DEF Wait, piper, TypeOK, NoFatalUnlock, ReadyLocked, BaseLocked, ToldByEntry, ToldOnce
<1>2. CASE GiveUp \/ LoopEnd \/ AppClose
  <2>1. TypeOK' /\ NoFatalUnlock' /\ ReadyLocked' /\ ToldByEntry'
    <3>1. TypeOK'
      BY <1>2 DEF GiveUp, LoopEnd, AppClose, StartClose, piper, TypeOK, ToldByEntry
    <3>2. NoFatalUnlock'
      BY <1>2 DEF GiveUp, LoopEnd, AppClose, StartClose, piper, NoFatalUnlock
    <3>3. ReadyLocked'
      BY <1>2 DEF GiveUp, LoopEnd, AppClose, StartClose, piper, ReadyLocked
    <3>4. ToldByEntry'
      BY <1>2 DEF GiveUp, LoopEnd, AppClose, StartClose, piper, ToldByEntry, ToldOnce
    <3> QED BY <3>1, <3>2, <3>3, <3>4
  <2>2. BaseLocked'
    BY <1>2 DEF GiveUp, LoopEnd, AppClose, StartClose, piper, TypeOK, BaseLocked
  <2> QED BY <2>1, <2>2
<1>3. CASE PipeConn
  <2>1. TypeOK' /\ NoFatalUnlock' /\ ReadyLocked' /\ ToldByEntry'
    BY <1>3 DEF PipeConn, TypeOK, NoFatalUnlock, ReadyLocked, ToldByEntry, ToldOnce
  <2>2. ~ready /\ (~closed => baseHeld)
    BY <1>3 DEF PipeConn, BaseLocked
  <2>3. BaseLocked'
    BY <1>3, <2>2 DEF PipeConn, TypeOK, BaseLocked
  <2> QED BY <2>1, <2>3
<1>4. CASE PipeUnlock
  <2>1. ready /\ baseHeld
    BY <1>4 DEF PipeUnlock, BaseLocked
  <2>2. TypeOK' /\ NoFatalUnlock' /\ ReadyLocked' /\ ToldByEntry'
    BY <1>4, <2>1 DEF PipeUnlock, UnlockBase, TypeOK, NoFatalUnlock, ReadyLocked,
                      ToldByEntry, ToldOnce
  <2>3. BaseLocked'
    BY <1>4, <2>1 DEF PipeUnlock, UnlockBase, TypeOK, BaseLocked
  <2> QED BY <2>2, <2>3
<1>5. CASE LoopRemove
  <2>2. ToldByEntry'
    BY <1>5 DEF LoopRemove, DropAndTell, ToldByEntry, ToldOnce
  <2>1. TypeOK' /\ NoFatalUnlock' /\ ReadyLocked' /\ BaseLocked'
    <3>0. entry' \in BOOLEAN
      BY <1>5 DEF LoopRemove, DropAndTell
    <3>a. told' \in Nat
      BY <2>2 DEF ToldByEntry
    <3>1. TypeOK'
      BY <1>5, <3>0, <3>a DEF LoopRemove, piper, TypeOK
    <3>2. NoFatalUnlock'
      BY <1>5 DEF LoopRemove, DropAndTell, piper, NoFatalUnlock
    <3>3. ReadyLocked'
      BY <1>5 DEF LoopRemove, DropAndTell, piper, ReadyLocked
    <3>4. BaseLocked'
      BY <1>5 DEF LoopRemove, DropAndTell, piper, BaseLocked, TypeOK
    <3> QED BY <3>1, <3>2, <3>3, <3>4
  <2> QED BY <2>1, <2>2
<1> QED BY <1>1, <1>2, <1>3, <1>4, <1>5 DEF AppGoes

LEMMA ReaderInv ==
    ASSUME BoundsAssumption, PInv,
           \/ ReaderGoes \/ DialBackOK \/ DialBackFailed \/ ReadData \/ ReadClosed
           \/ ChannelLost \/ RouterClose
    PROVE  PInv'
<1> USE DEF PInv
<1>1. CASE DialBackOK \/ DialBackFailed
  <2>1. TypeOK' /\ NoFatalUnlock' /\ ToldByEntry'
    <3>1. TypeOK'
      BY <1>1 DEF DialBackOK, DialBackFailed, Receives, TypeOK, ToldByEntry
    <3>2. NoFatalUnlock'
      BY <1>1 DEF DialBackOK, DialBackFailed, Receives, NoFatalUnlock
    <3>3. ToldByEntry'
      BY <1>1 DEF DialBackOK, DialBackFailed, Receives, ToldByEntry, ToldOnce
    <3> QED BY <3>1, <3>2, <3>3
  <2>2. ReadyLocked'
    BY <1>1 DEF DialBackOK, DialBackFailed, Receives, TypeOK, ReadyLocked
  <2>3. BaseLocked'
    BY <1>1 DEF DialBackOK, DialBackFailed, BaseLocked
  <2> QED BY <2>1, <2>2, <2>3
<1>2. CASE ReadyUnlock
  <2>1. readyHeld /\ far.state # "dialing"
    BY <1>2 DEF ReadyUnlock, ReadyLocked
  <2>2. TypeOK' /\ NoFatalUnlock' /\ ReadyLocked' /\ ToldByEntry'
    BY <1>2, <2>1 DEF ReadyUnlock, UnlockReady, TypeOK, NoFatalUnlock, ReadyLocked,
                      ToldByEntry, ToldOnce
  <2>3. BaseLocked'
    BY <1>2 DEF ReadyUnlock, UnlockReady, BaseLocked
  <2> QED BY <2>2, <2>3
<1>3. CASE WriteChecks \/ WriteUnblocked \/ WriteBase
  <2>1. TypeOK' /\ NoFatalUnlock' /\ ReadyLocked' /\ ToldByEntry'
    <3>1. TypeOK'
      BY <1>3 DEF WriteChecks, WriteUnblocked, WriteBase, piper, TypeOK, ToldByEntry
    <3>2. NoFatalUnlock'
      BY <1>3 DEF WriteChecks, WriteUnblocked, WriteBase, piper, NoFatalUnlock
    <3>3. ReadyLocked'
      BY <1>3 DEF WriteChecks, WriteUnblocked, WriteBase, piper, ReadyLocked
    <3>4. ToldByEntry'
      BY <1>3 DEF WriteChecks, WriteUnblocked, WriteBase, piper, ToldByEntry, ToldOnce
    <3> QED BY <3>1, <3>2, <3>3, <3>4
  <2>2. BaseLocked'
    BY <1>3 DEF WriteChecks, WriteUnblocked, WriteBase, piper, BaseLocked
  <2> QED BY <2>1, <2>2
<1>4. CASE ReaderCloses \/ RouterClose
  <2>1. TypeOK' /\ NoFatalUnlock' /\ ReadyLocked' /\ ToldByEntry'
    <3>1. TypeOK'
      <4>1. closing' \in [Threads -> {"no", "enter", "unlock", "next", "base"}]
        BY <1>4 DEF ReaderCloses, RouterClose, StartClose, TypeOK, Threads
      <4>2. CASE ReaderCloses
        BY <4>1, <4>2 DEF ReaderCloses, piper, TypeOK
      <4>3. CASE RouterClose
        BY <4>1, <4>3 DEF RouterClose, piper, TypeOK
      <4> QED BY <1>4, <4>2, <4>3
    <3>2. NoFatalUnlock'
      BY <1>4 DEF ReaderCloses, RouterClose, StartClose, piper, NoFatalUnlock
    <3>3. ReadyLocked'
      BY <1>4 DEF ReaderCloses, RouterClose, StartClose, piper, ReadyLocked
    <3>4. ToldByEntry'
      BY <1>4 DEF ReaderCloses, RouterClose, StartClose, piper, ToldByEntry, ToldOnce
    <3> QED BY <3>1, <3>2, <3>3, <3>4
  <2>2. BaseLocked'
    BY <1>4 DEF ReaderCloses, RouterClose, StartClose, piper, TypeOK, BaseLocked
  <2> QED BY <2>1, <2>2
<1>5. CASE ReadData
  <2>1. far'.state = far.state /\ far' \in [state : {"dialing", "open", "ended"}, sent : 0 .. MaxData]
    BY <1>5 DEF ReadData, TypeOK, BoundsAssumption
  <2>2. TypeOK' /\ NoFatalUnlock' /\ ReadyLocked' /\ ToldByEntry'
    BY <1>5, <2>1 DEF ReadData, piper, Receives, TypeOK, NoFatalUnlock, ReadyLocked,
                      ToldByEntry, ToldOnce
  <2>3. BaseLocked'
    BY <1>5 DEF ReadData, piper, BaseLocked
  <2> QED BY <2>2, <2>3
<1>6. CASE ReadClosed
  <2>2. ToldByEntry'
    BY <1>6 DEF ReadClosed, ToldByEntry, ToldOnce
  <2>1. TypeOK' /\ NoFatalUnlock' /\ ReadyLocked'
    <3>1. TypeOK'
      <4>1. entry' \in BOOLEAN
        BY <1>6 DEF ReadClosed
      <4>2. heard' \in Nat
        BY <2>2 DEF ToldByEntry
      <4>3. closing' \in [Threads -> {"no", "enter", "unlock", "next", "base"}]
        BY <1>6 DEF ReadClosed, StartClose, TypeOK
      <4> QED BY <1>6, <4>1, <4>2, <4>3 DEF ReadClosed, piper, TypeOK
    <3>2. NoFatalUnlock'
      BY <1>6 DEF ReadClosed, Receives, StartClose, piper, NoFatalUnlock
    <3>3. ReadyLocked'
      BY <1>6 DEF ReadClosed, Receives, StartClose, piper, ReadyLocked
    <3> QED BY <3>1, <3>2, <3>3
  <2>3. BaseLocked'
    BY <1>6 DEF ReadClosed, StartClose, piper, TypeOK, BaseLocked
  <2> QED BY <2>1, <2>2, <2>3
<1>7. CASE ChannelLost
  <2>1. TypeOK' /\ NoFatalUnlock' /\ ReadyLocked' /\ ToldByEntry'
    <3>1. closing' \in [Threads -> {"no", "enter", "unlock", "next", "base"}]
      BY <1>7 DEF ChannelLost, StartClose, TypeOK, Threads
    <3>2. TypeOK'
      BY <1>7, <3>1 DEF ChannelLost, piper, TypeOK
    <3>3. NoFatalUnlock' /\ ReadyLocked' /\ ToldByEntry'
      BY <1>7 DEF ChannelLost, piper, NoFatalUnlock, ReadyLocked, ToldByEntry, ToldOnce
    <3> QED BY <3>2, <3>3
  <2>2. BaseLocked'
    BY <1>7 DEF ChannelLost, StartClose, piper, TypeOK, BaseLocked
  <2> QED BY <2>1, <2>2
<1> QED BY <1>1, <1>2, <1>3, <1>4, <1>5, <1>6, <1>7 DEF ReaderGoes

LEMMA Inductive == Spec => []PInv
<1>1. Init => PInv
  BY BoundsAssumption, InitInv
<1>2. PInv /\ [Next]_vars => PInv'
  <2> SUFFICES ASSUME PInv, [Next]_vars PROVE PInv'
    OBVIOUS
  <2>1. CASE UNCHANGED vars
    BY <2>1 DEF vars, PInv, TypeOK, NoFatalUnlock, ReadyLocked, BaseLocked, ToldByEntry,
                ToldOnce
  <2>2. CASE Next
    BY <2>2, BoundsAssumption, CloseInv, AppInv, ReaderInv DEF Next
  <2> QED BY <2>1, <2>2
<1> QED BY <1>1, <1>2, PTL DEF Spec

\* Whatever the order of Ready, PipeConn and the Closes of three goroutines, neither
\* locker of a WaitedPiper is unlocked twice.
THEOREM NeverFatalUnlock == Spec => []NoFatalUnlock
<1>1. PInv => NoFatalUnlock
  BY DEF PInv
<1> QED BY <1>1, Inductive, PTL

\* The far end of a piped session is told at most once that it is over, and never when
\* it said so itself, however much data it sent.
THEOREM AlwaysToldOnce == Spec => []ToldOnce
<1>1. PInv => ToldOnce
  BY DEF PInv, ToldByEntry
<1> QED BY <1>1, Inductive, PTL
=============================================================================
