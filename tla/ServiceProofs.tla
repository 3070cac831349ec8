--------------------------- MODULE ServiceProofs ---------------------------
(***************************************************************************)
(* Proofs about Forwards, for any names, addresses and number of starts:   *)
(* StartForward never finds a name used by a listener that is gone, and a  *)
(* listener is lost only to the loop of an older one of its name.          *)
(*                                                                         *)
(* Then proofs about Service, for any configurations and any number of     *)
(* edits, reloads and restarts: it keeps to the protocol of Forwards, so   *)
(* that what is proved of a Proxy holds of the one it owns; what is        *)
(* configured is served, what else is served is known, and dials go where  *)
(* configured.                                                             *)
(***************************************************************************)
EXTENDS Service, SequenceTheorems, TLAPS

(***************************************************************************)
(* The inductive invariant of Forwards.                                    *)
(***************************************************************************)
\* An entry is of this Proxy, and the last started under its name.
EntryNewest ==
    \A n \in Names : forwards[n] # 0 =>
        /\ listeners[forwards[n]].proxy = node.no
        /\ \A j \in DOMAIN listeners :
              listeners[j].name = n /\ listeners[j].proxy = node.no => j <= forwards[n]

\* What StopForward has to close is in the map no more.
LeavingIsOut == leaving # 0 => \A n \in Names : forwards[n] # leaving

\* A loop that is over has closed its listener; no listener is of a Proxy to come.
LoopsClose ==
    \A i \in DOMAIN listeners : /\ listeners[i].loop \in {"ending", "done"} => ~listeners[i].open
                                /\ listeners[i].proxy <= node.no

IInv == ForwardsTypeOK /\ EntryOpen /\ LostByOldLoop /\ EntryNewest /\ LeavingIsOut /\ LoopsClose

LEMMA ForwardsInitInv == ForwardsInit => IInv
BY DEF ForwardsInit, IInv, ForwardsTypeOK, EntryOpen, LostByOldLoop, EntryNewest,
       LeavingIsOut, LoopsClose, Lost, NoForwards

(***************************************************************************)
(* What a step does to the listeners there are.                            *)
(***************************************************************************)
\* The fields of one listener that a step may set.
LEMMA ListenerSet ==
    ASSUME NEW l \in Listeners,
           NEW loop \in {"head", "accept", "ending", "done", "library"},
           NEW open \in BOOLEAN, NEW broken \in BOOLEAN
    PROVE  /\ [l EXCEPT !.loop = loop] \in Listeners
           /\ [l EXCEPT !.open = open] \in Listeners
           /\ [l EXCEPT !.loop = loop, !.open = open] \in Listeners
           /\ [l EXCEPT !.loop = loop, !.open = open, !.broken = broken] \in Listeners
BY DEF Listeners

\* No listener changes but the one of the loop, and that one keeps what it was made with.
LoopFrame(i) ==
    /\ Len(listeners') = Len(listeners)
    /\ \A j \in DOMAIN listeners :
          /\ j # i => listeners'[j] = listeners[j]
          /\ listeners'[j].name = listeners[j].name
          /\ listeners'[j].proxy = listeners[j].proxy
          /\ listeners'[j].port = listeners[j].port /\ listeners'[j].uri = listeners[j].uri
          /\ listeners'[j].open => listeners[j].open
          /\ listeners[j].loop = "done" => listeners'[j].loop = "done"
          /\ listeners[j].broken => listeners'[j].broken
          /\ Running(j) /\ listeners[j].open => listeners'[j].open \/ listeners'[j].broken

LEMMA LoopStepFrame ==
    ASSUME ForwardsTypeOK, NEW i \in DOMAIN listeners, LoopSteps(i)
    PROVE  listeners' \in Seq(Listeners) /\ LoopFrame(i) /\ DOMAIN listeners' = DOMAIN listeners
<1> USE DEF ForwardsTypeOK
<1> DEFINE Changed(l) == /\ l \in Listeners
                         /\ l.name = listeners[i].name /\ l.proxy = listeners[i].proxy
                         /\ l.port = listeners[i].port /\ l.uri = listeners[i].uri
                         /\ l.open => listeners[i].open
                         /\ listeners[i].loop # "done"
                         /\ listeners[i].broken => l.broken
                         /\ Running(i) /\ listeners[i].open => l.open \/ l.broken
<1>1. \E l : listeners' = [listeners EXCEPT ![i] = l] /\ Changed(l)
  <2> DEFINE old == listeners[i]
  <2>0. old \in Listeners
    OBVIOUS
  <2>1. CASE LoopHead(i)
    <3>1. CASE Running(i)
      <4> DEFINE l == [old EXCEPT !.loop = "accept"]
      <4>1. listeners' = [listeners EXCEPT ![i] = l] /\ old.loop = "head"
        BY <2>1, <3>1 DEF LoopHead
      <4>2. l \in Listeners
        BY <2>0, ListenerSet
      <4> QED BY <2>0, <4>1, <4>2 DEF Listeners
    <3>2. CASE ~Running(i)
      <4> DEFINE l == [old EXCEPT !.loop = "ending", !.open = FALSE]
      <4>1. listeners' = [listeners EXCEPT ![i] = l] /\ old.loop = "head"
        BY <2>1, <3>2 DEF LoopHead
      <4>2. l \in Listeners
        BY <2>0, ListenerSet
      <4> QED BY <2>0, <3>2, <4>1, <4>2 DEF Listeners
    <3> QED BY <3>1, <3>2
  <2>2. CASE LoopAccept(i)
    <3> DEFINE l == [old EXCEPT !.loop = "head"]
    <3>1. listeners' = [listeners EXCEPT ![i] = l] /\ old.loop = "accept"
      BY <2>2 DEF LoopAccept
    <3>2. l \in Listeners
      BY <2>0, ListenerSet
    <3> QED BY <2>0, <3>1, <3>2 DEF Listeners
  <2>3. CASE LoopFails(i)
    <3> DEFINE broken == old.broken \/ old.open
               l == [old EXCEPT !.loop = "ending", !.open = FALSE, !.broken = broken]
    <3>1. listeners' = [listeners EXCEPT ![i] = l] /\ old.loop = "accept"
      BY <2>3 DEF LoopFails
    <3>2. l \in Listeners
      <4> broken \in BOOLEAN
        OBVIOUS
      <4> QED BY <2>0, ListenerSet
    <3>3. Changed(l)
      <4>1. /\ l.name = old.name /\ l.proxy = old.proxy /\ l.port = old.port /\ l.uri = old.uri
            /\ l.open = FALSE /\ l.broken = broken
        BY <2>0 DEF Listeners
      <4>2. (old.broken => broken) /\ (old.open => broken)
        OBVIOUS
      <4> HIDE DEF l, broken
      <4> QED BY <3>1, <3>2, <4>1, <4>2
    <3> QED BY <3>1, <3>3
  <2>4. CASE LoopEnds(i)
    <3> DEFINE l == [old EXCEPT !.loop = "done"]
    <3>1. listeners' = [listeners EXCEPT ![i] = l] /\ old.loop = "ending"
      BY <2>4 DEF LoopEnds
    <3>2. l \in Listeners
      BY <2>0, ListenerSet
    <3> QED BY <2>0, <3>1, <3>2 DEF Listeners
  <2> QED BY <2>1, <2>2, <2>3, <2>4 DEF LoopSteps
<1>2. PICK l : listeners' = [listeners EXCEPT ![i] = l] /\ Changed(l)
  BY <1>1
<1> QED BY <1>2 DEF LoopFrame

LEMMA LoopInv ==
    ASSUME IInv, NEW i \in DOMAIN listeners, LoopSteps(i)
    PROVE  IInv'
<1> USE DEF IInv
<1>0. /\ \A j \in DOMAIN listeners : listeners[j] \in Listeners /\ j \in Nat /\ j # 0
      /\ Len(listeners) \in Nat /\ DOMAIN listeners = 1 .. Len(listeners)
  BY DEF ForwardsTypeOK
<1>1. /\ listeners' \in Seq(Listeners) /\ DOMAIN listeners' = DOMAIN listeners
      /\ LoopFrame(i)
  BY LoopStepFrame
<1>2. UNCHANGED <<node, leaving>>
  BY DEF LoopSteps, LoopHead, LoopAccept, LoopFails, LoopEnds
<1>3. \/ forwards' = forwards
      \/ /\ LoopEnds(i) /\ listeners[i].proxy = node.no /\ listeners[i].name \in Names
         /\ forwards' = [forwards EXCEPT ![listeners[i].name] = 0]
  <2>1. listeners[i].name \in Names
    BY <1>0 DEF Listeners
  <2> QED BY <2>1 DEF LoopSteps, LoopHead, LoopAccept, LoopFails, LoopEnds
<1>4. \A n \in Names : /\ forwards'[n] # 0 => forwards'[n] = forwards[n]
                       /\ forwards[n] \in 0 .. Len(listeners)
                       /\ forwards[n] # 0 => forwards[n] \in DOMAIN listeners
  BY <1>3 DEF ForwardsTypeOK
<1>5. ForwardsTypeOK'
  <2>1. forwards' \in [Names -> 0 .. Len(listeners')]
    <3>1. forwards \in [Names -> 0 .. Len(listeners)] /\ 0 \in 0 .. Len(listeners)
      BY <1>0 DEF ForwardsTypeOK
    <3>2. forwards' \in [Names -> 0 .. Len(listeners)]
      BY <1>3, <3>1
    <3> QED BY <1>1, <3>2 DEF LoopFrame
  <2>2. errors' \in Nat
    BY DEF ForwardsTypeOK, LoopSteps, LoopHead, LoopAccept, LoopFails, LoopEnds
  <2> QED BY <1>1, <1>2, <2>1, <2>2 DEF ForwardsTypeOK, LoopFrame
<1>6. listeners'[i].loop \in {"ending", "done"} => ~listeners'[i].open
  <2>1. CASE LoopHead(i)
    BY <1>0, <2>1 DEF LoopHead, Listeners
  <2>2. CASE LoopAccept(i)
    BY <1>0, <2>2 DEF LoopAccept, Listeners
  <2>3. CASE LoopFails(i)
    BY <1>0, <2>3 DEF LoopFails, Listeners
  <2>4. CASE LoopEnds(i)
    BY <1>0, <2>4 DEF LoopEnds, LoopsClose, Listeners
  <2> QED BY <2>1, <2>2, <2>3, <2>4 DEF LoopSteps
<1>7. LoopsClose'
  BY <1>1, <1>2, <1>6 DEF LoopsClose, LoopFrame
<1>8. LeavingIsOut'
  BY <1>2, <1>4 DEF LeavingIsOut
<1>9. EntryNewest'
  BY <1>1, <1>2, <1>4 DEF EntryNewest, LoopFrame
<1>10. EntryOpen'
  <2> SUFFICES ASSUME NEW n \in Names, forwards'[n] # 0
               PROVE  /\ listeners'[forwards'[n]].name = n
                      /\ node'.running => \/ listeners'[forwards'[n]].open
                                          \/ listeners'[forwards'[n]].loop = "ending"
    BY DEF EntryOpen
  <2> DEFINE k == forwards[n]
  <2>1. /\ forwards'[n] = k /\ k \in DOMAIN listeners
        /\ listeners[k].name = n /\ listeners[k].proxy = node.no
        /\ node.running => listeners[k].open \/ listeners[k].loop = "ending"
    BY <1>0, <1>4 DEF EntryOpen, EntryNewest
  <2>2. CASE k # i
    BY <1>1, <1>2, <2>1, <2>2 DEF LoopFrame
  <2>3. CASE k = i
    <3>1. node.running => Running(i)
      BY <2>1, <2>3 DEF Running
    <3>2. ~LoopEnds(i)
      BY <2>1, <2>3 DEF LoopEnds, ForwardsTypeOK
    <3>3. CASE LoopHead(i)
      BY <1>0, <1>2, <2>1, <2>3, <3>1, <3>3 DEF LoopHead, Listeners
    <3>4. CASE LoopAccept(i)
      BY <1>0, <1>2, <2>1, <2>3, <3>4 DEF LoopAccept, Listeners
    <3>5. CASE LoopFails(i)
      BY <1>0, <1>2, <2>1, <2>3, <3>5 DEF LoopFails, Listeners
    <3>6. listeners'[k].name = n
      BY <1>1, <2>1 DEF LoopFrame
    <3> QED BY <2>1, <3>2, <3>3, <3>4, <3>5, <3>6 DEF LoopSteps
  <2> QED BY <2>2, <2>3
<1>11. LostByOldLoop'
  <2> SUFFICES ASSUME NEW j \in DOMAIN listeners, Lost(j)'
               PROVE  \E k \in DOMAIN listeners :
                        /\ k < j
                        /\ listeners'[k].name = listeners'[j].name
                        /\ listeners'[k].proxy = listeners'[j].proxy
                        /\ listeners'[k].loop = "done"
    BY <1>1 DEF LostByOldLoop
  <2>1. /\ listeners[j].open /\ leaving # j /\ listeners'[j].open
        /\ listeners'[j].name = listeners[j].name /\ listeners[j].name \in Names
        /\ forwards'[listeners[j].name] # j
    BY <1>0, <1>1, <1>2 DEF Lost, LoopFrame, Listeners
  <2>2. CASE Lost(j)
    BY <1>1, <2>2 DEF LostByOldLoop, LoopFrame
  <2>3. CASE ~Lost(j)
    <3>1. forwards[listeners[j].name] = j
      BY <2>1, <2>3 DEF Lost
    <3>2. /\ LoopEnds(i) /\ listeners[i].proxy = node.no
          /\ listeners[i].name = listeners[j].name
      BY <1>3, <2>1, <3>1 DEF ForwardsTypeOK
    <3>3. listeners[j].proxy = node.no /\ i <= j
      BY <2>1, <3>1, <3>2 DEF EntryNewest, ForwardsTypeOK
    <3>4. i # j
      BY <2>1, <3>2 DEF LoopEnds, LoopsClose
    <3>5. listeners'[i].loop = "done"
      BY <1>0, <3>2 DEF LoopEnds, Listeners
    <3>6. i < j
      BY <3>3, <3>4 DEF ForwardsTypeOK
    <3> QED BY <1>1, <3>2, <3>3, <3>5, <3>6 DEF LoopFrame
  <2> QED BY <2>2, <2>3
<1> QED BY <1>5, <1>7, <1>8, <1>9, <1>10, <1>11

(***************************************************************************)
(* The calls of the owner.                                                 *)
(***************************************************************************)
LEMMA StartForwardInv ==
    ASSUME IInv, leaving = 0,
           NEW n \in Names, NEW port \in Ports, NEW loop \in {"head", "library"},
           NEW uri \in Uris, CanStart(n, port), StartForward(n, loop, port, uri)
    PROVE  IInv'
<1> USE DEF IInv
<1> DEFINE k == Len(listeners) + 1
           l == Listener(n, loop, port, uri)
<1>1. /\ \A j \in DOMAIN listeners : listeners[j] \in Listeners /\ j \in Nat /\ j # 0 /\ j < k
      /\ k \in Nat /\ k # 0 /\ DOMAIN listeners = 1 .. Len(listeners)
      /\ \A m \in Names : forwards[m] \in 0 .. Len(listeners) /\ (forwards[m] # 0 => forwards[m] \in DOMAIN listeners)
  BY DEF ForwardsTypeOK
<1>2. /\ l.name = n /\ l.proxy = node.no /\ l.open /\ l.loop = loop
      /\ l \in Listeners
  BY DEF Listener, Listeners, ForwardsTypeOK
<1>3. /\ listeners' \in Seq(Listeners) /\ DOMAIN listeners' = 1 .. k /\ Len(listeners') = k
      /\ listeners'[k] = l /\ \A j \in DOMAIN listeners : listeners'[j] = listeners[j]
  BY <1>2 DEF StartForward, ForwardsTypeOK
<1>4. /\ UNCHANGED <<node, leaving, errors>> /\ forwards[n] = 0
      /\ forwards' = [forwards EXCEPT ![n] = k]
      /\ forwards'[n] = k /\ \A m \in Names \ {n} : forwards'[m] = forwards[m]
  BY DEF StartForward, CanStart, ForwardsTypeOK
<1>5. \A j \in DOMAIN listeners' : j = k \/ j \in DOMAIN listeners
  BY <1>1, <1>3
<1>6. ForwardsTypeOK'
  BY <1>1, <1>3, <1>4 DEF ForwardsTypeOK
<1>7. EntryOpen'
  BY <1>1, <1>2, <1>3, <1>4 DEF EntryOpen
<1>8. EntryNewest'
  BY <1>1, <1>2, <1>3, <1>4, <1>5 DEF EntryNewest
<1>9. LeavingIsOut' /\ LoopsClose'
  BY <1>1, <1>2, <1>3, <1>4, <1>5 DEF LeavingIsOut, LoopsClose, ForwardsTypeOK
<1>10. LostByOldLoop'
  <2> SUFFICES ASSUME NEW i \in DOMAIN listeners', Lost(i)'
               PROVE  i \in DOMAIN listeners /\ Lost(i)
    BY <1>1, <1>3 DEF LostByOldLoop
  <2>1. i \in DOMAIN listeners
    BY <1>2, <1>3, <1>4, <1>5 DEF Lost
  <2>2. listeners[i].name \in Names
    BY <1>1, <2>1 DEF Listeners
  <2> QED BY <1>1, <1>3, <1>4, <2>1, <2>2 DEF Lost
<1> QED BY <1>6, <1>7, <1>8, <1>9, <1>10

LEMMA StopForwardInv == ASSUME IInv, NEW n \in Names, StopForward(n) PROVE IInv'
<1> USE DEF IInv
<1>1. /\ leaving = 0 /\ leaving' = forwards[n] /\ UNCHANGED <<node, listeners, errors>>
      /\ forwards' = [forwards EXCEPT ![n] = 0]
      /\ forwards'[n] = 0 /\ \A m \in Names \ {n} : forwards'[m] = forwards[m]
  BY DEF StopForward, ForwardsTypeOK
<1>2. \A m \in Names : forwards[m] \in 0 .. Len(listeners)
  BY DEF ForwardsTypeOK
<1>3. ForwardsTypeOK'
  BY <1>1, <1>2 DEF ForwardsTypeOK
<1>4. EntryOpen' /\ EntryNewest' /\ LoopsClose'
  BY <1>1 DEF EntryOpen, EntryNewest, LoopsClose
<1>5. LeavingIsOut'
  BY <1>1, <1>2 DEF LeavingIsOut, EntryOpen
<1>6. LostByOldLoop'
  <2> SUFFICES ASSUME NEW i \in DOMAIN listeners, Lost(i)' PROVE Lost(i)
    BY <1>1 DEF LostByOldLoop
  <2>1. listeners[i] \in Listeners /\ i # 0
    BY DEF ForwardsTypeOK
  <2>2. listeners[i].name \in Names
    BY <2>1 DEF Listeners
  <2> QED BY <1>1, <2>1, <2>2 DEF Lost
<1> QED BY <1>3, <1>4, <1>5, <1>6

\* Closing listeners, those of the entries or the one that leaves, loses none.
LEMMA ClosingInv ==
    ASSUME IInv, NEW left \in {0, leaving},
           UNCHANGED <<node, forwards, errors>>, leaving' = left,
           listeners' \in Seq(Listeners), Len(listeners') = Len(listeners),
           \A i \in DOMAIN listeners :
              /\ listeners'[i].name = listeners[i].name
              /\ listeners'[i].proxy = listeners[i].proxy
              /\ listeners'[i].loop = listeners[i].loop
              /\ listeners'[i].open => listeners[i].open /\ (leaving # left => i # leaving),
           node.running => \A n \in Names : forwards[n] # 0 =>
                              listeners'[forwards[n]].open = listeners[forwards[n]].open
    PROVE  IInv'
<1> USE DEF IInv
<1>1. /\ DOMAIN listeners' = DOMAIN listeners /\ DOMAIN listeners = 1 .. Len(listeners)
      /\ \A n \in Names : forwards[n] # 0 => forwards[n] \in DOMAIN listeners
  BY DEF ForwardsTypeOK
<1>2. ForwardsTypeOK'
  BY DEF ForwardsTypeOK
<1>3. EntryOpen'
  BY <1>1 DEF EntryOpen
<1>4. EntryNewest' /\ LeavingIsOut' /\ LoopsClose'
  BY <1>1 DEF EntryNewest, LeavingIsOut, LoopsClose
<1>5. LostByOldLoop'
  <2> SUFFICES ASSUME NEW i \in DOMAIN listeners, Lost(i)' PROVE Lost(i)
    BY <1>1 DEF LostByOldLoop
  <2> QED BY DEF Lost
<1> QED BY <1>2, <1>3, <1>4, <1>5

LEMMA StopForwardCloseInv == ASSUME IInv, StopForwardClose PROVE IInv'
<1> USE DEF IInv
<1>1. leaving \in DOMAIN listeners /\ listeners[leaving] \in Listeners
  BY DEF StopForwardClose, ForwardsTypeOK
<1> DEFINE l == [listeners[leaving] EXCEPT !.open = FALSE]
<1>2. l \in Listeners /\ listeners' = [listeners EXCEPT ![leaving] = l]
  BY <1>1, ListenerSet DEF StopForwardClose
<1>3. /\ l.name = listeners[leaving].name /\ l.proxy = listeners[leaving].proxy
      /\ l.loop = listeners[leaving].loop /\ ~l.open
  BY <1>1 DEF Listeners
<1>4. listeners' \in Seq(Listeners) /\ Len(listeners') = Len(listeners)
  BY <1>1, <1>2 DEF ForwardsTypeOK
<1>5. /\ leaving' = 0 /\ leaving # 0 /\ UNCHANGED <<node, forwards, errors>>
      /\ \A n \in Names : forwards[n] # leaving
  BY DEF StopForwardClose, LeavingIsOut
<1>6. \A i \in DOMAIN listeners :
         /\ listeners'[i].name = listeners[i].name
         /\ listeners'[i].proxy = listeners[i].proxy
         /\ listeners'[i].loop = listeners[i].loop
         /\ listeners'[i].open => listeners[i].open /\ i # leaving
  BY <1>1, <1>2, <1>3 DEF ForwardsTypeOK
<1>7. \A n \in Names : forwards[n] # 0 =>
         listeners'[forwards[n]].open = listeners[forwards[n]].open
  <2>1. \A i \in DOMAIN listeners : i # leaving => listeners'[i] = listeners[i]
    BY <1>1, <1>2 DEF ForwardsTypeOK
  <2>2. \A n \in Names : forwards[n] # 0 => forwards[n] \in DOMAIN listeners
    BY DEF ForwardsTypeOK
  <2> QED BY <1>5, <2>1, <2>2
<1> QED BY <1>4, <1>5, <1>6, <1>7, ClosingInv

LEMMA CloseForwardsInv == ASSUME IInv, CloseForwards PROVE IInv'
<1> USE DEF IInv
<1>1. \A i \in DOMAIN listeners :
         /\ listeners[i] \in Listeners
         /\ [listeners[i] EXCEPT !.open = FALSE] \in Listeners
  <2>1. \A i \in DOMAIN listeners : listeners[i] \in Listeners
    BY DEF ForwardsTypeOK
  <2> QED BY <2>1, ListenerSet
<1>2. /\ \A i \in DOMAIN listeners :
            \/ listeners'[i] = listeners[i]
            \/ listeners'[i] = [listeners[i] EXCEPT !.open = FALSE]
      /\ listeners' = [i \in DOMAIN listeners |-> listeners'[i]]
  BY DEF CloseForwards
<1>3. listeners' \in Seq(Listeners) /\ Len(listeners') = Len(listeners)
  <2>1. DOMAIN listeners = 1 .. Len(listeners) /\ Len(listeners) \in Nat
    BY DEF ForwardsTypeOK
  <2>2. listeners' \in [1 .. Len(listeners) -> Listeners]
    BY <1>1, <1>2, <2>1
  <2> QED BY <2>1, <2>2
<1>4. \A i \in DOMAIN listeners :
         /\ listeners'[i].name = listeners[i].name
         /\ listeners'[i].proxy = listeners[i].proxy
         /\ listeners'[i].loop = listeners[i].loop
         /\ listeners'[i].open => listeners[i].open
  BY <1>1, <1>2 DEF Listeners
<1> QED BY <1>3, <1>4, ClosingInv DEF CloseForwards

LEMMA NewProxyInv ==
    ASSUME IInv, NewProxy, \A n \in Names : forwards[n] # 0 => ~listeners[forwards[n]].open
    PROVE  IInv'
<1> USE DEF IInv
<1>1. /\ UNCHANGED <<listeners, leaving, errors>> /\ leaving = 0
      /\ forwards' = [n \in Names |-> 0] /\ node' = [no |-> node.no + 1, running |-> TRUE]
      /\ node'.no = node.no + 1 /\ node.no \in Nat
  BY DEF NewProxy, NoForwards, ForwardsTypeOK
<1>2. ForwardsTypeOK'
  BY <1>1 DEF ForwardsTypeOK
<1>3. EntryOpen' /\ EntryNewest' /\ LeavingIsOut'
  BY <1>1 DEF EntryOpen, EntryNewest, LeavingIsOut
<1>4. LoopsClose'
  <2>1. \A i \in DOMAIN listeners : listeners[i] \in Listeners
    BY DEF ForwardsTypeOK
  <2>2. \A i \in DOMAIN listeners : listeners[i].proxy \in Nat
    BY <2>1 DEF Listeners
  <2> QED BY <1>1, <2>2 DEF LoopsClose
<1>5. LostByOldLoop'
  <2> SUFFICES ASSUME NEW i \in DOMAIN listeners, Lost(i)' PROVE Lost(i)
    BY <1>1 DEF LostByOldLoop
  <2>1. listeners[i] \in Listeners
    BY DEF ForwardsTypeOK
  <2>2. listeners[i].name \in Names /\ i # 0
    BY <2>1 DEF Listeners, ForwardsTypeOK
  <2> QED BY <1>1, <2>2 DEF Lost
<1> QED BY <1>2, <1>3, <1>4, <1>5

LEMMA CloseRunningInv == ASSUME IInv, CloseRunning PROVE IInv'
<1>1. /\ UNCHANGED <<forwards, listeners, leaving, errors>>
      /\ node' \in [no : Nat, running : BOOLEAN] /\ node'.no = node.no /\ ~node'.running
  BY DEF CloseRunning, IInv, ForwardsTypeOK
<1> QED BY <1>1 DEF IInv, ForwardsTypeOK, EntryOpen, LostByOldLoop, Lost, EntryNewest,
                    LeavingIsOut, LoopsClose

(***************************************************************************)
(* The theorems.                                                           *)
(***************************************************************************)
LEMMA OwnerInv == ASSUME IInv, OwnerCalls PROVE IInv'
<1>1. CASE \E n \in Names, port \in Ports :
             /\ leaving = 0 /\ CanStart(n, port)
             /\ \E loop \in {"head", "library"}, uri \in Uris : StartForward(n, loop, port, uri)
  BY <1>1, StartForwardInv
<1>2. CASE \E n \in Names : StopForward(n)
  BY <1>2, StopForwardInv
<1>3. CASE StopForwardClose
  BY <1>3, StopForwardCloseInv
<1>4. CASE CloseRunning
  BY <1>4, CloseRunningInv
<1>5. CASE CloseForwards
  BY <1>5, CloseForwardsInv
<1>6. CASE NewProxy /\ \A n \in Names : forwards[n] # 0 => ~listeners[forwards[n]].open
  BY <1>6, NewProxyInv
<1> QED BY <1>1, <1>2, <1>3, <1>4, <1>5, <1>6 DEF OwnerCalls

LEMMA StutterInv == ASSUME IInv, UNCHANGED forwardVars PROVE IInv'
BY DEF forwardVars, IInv, ForwardsTypeOK, EntryOpen, LostByOldLoop, Lost, EntryNewest,
       LeavingIsOut, LoopsClose

THEOREM Inductive == ForwardsSpec => []IInv
<1>1. IInv /\ [ForwardsNext]_forwardVars => IInv'
  BY LoopInv, OwnerInv, StutterInv DEF ForwardsNext
<1> QED BY ForwardsInitInv, <1>1, PTL DEF ForwardsSpec

\* Type correctness, for any protocol of the owner that ForwardsSpec allows.
THEOREM ForwardsTypeCorrect == ForwardsSpec => []ForwardsTypeOK
<1>1. IInv => ForwardsTypeOK
  BY DEF IInv
<1> QED BY Inductive, <1>1, PTL

\* While the Proxy runs, a name in the map (p.forwards in StartForward and StopForward)
\* has a listener that is open, or whose loop is about to take it out.
THEOREM EntriesOpen == ForwardsSpec => []EntryOpen
<1>1. IInv => EntryOpen
  BY DEF IInv
<1> QED BY Inductive, <1>1, PTL

\* The one way to lose a listener is the delete at the end of an older loop of its name
\* (loopForward).
THEOREM OnlyOldLoopsLose == ForwardsSpec => []LostByOldLoop
<1>1. IInv => LostByOldLoop
  BY DEF IInv
<1> QED BY Inductive, <1>1, PTL

(***************************************************************************)
(* The inductive invariant of Service.                                     *)
(***************************************************************************)
Owners == [pc : {"down", "start", "undo", "up", "failed", "remove", "add", "close"},
           todo : SUBSET Locs, new : Configs]

\* What the owner has to do is of the configuration it works on.
OwnerOK ==
    /\ file \in [data : Configs, edits : Nat] /\ config \in Configs /\ owner \in Owners
    /\ owner.pc \in {"start", "add"} => owner.todo \subseteq DOMAIN owner.new

\* The owner comes back to a Proxy whose calls are over, and leaves one that is closed.
ProtocolOK ==
    /\ owner.pc # "remove" => leaving = 0
    /\ owner.pc = "down" => \A n \in Names : forwards[n] # 0 => ~listeners[forwards[n]].open

SInv == IInv /\ OwnerOK /\ ProtocolOK

LEMMA ServiceInitInv == ASSUME Init PROVE SInv
<1>1. IInv
  BY ForwardsInitInv DEF Init
<1>2. OwnerOK
  <2>1. PICK c \in Configs : file = [data |-> c, edits |-> 0] /\ config = c
    BY DEF Init
  <2> QED BY <2>1 DEF Init, OwnerOK, Owners
<1>3. ProtocolOK
  BY DEF Init, ForwardsInit, NoForwards, ProtocolOK
<1> QED BY <1>1, <1>2, <1>3 DEF SInv

(***************************************************************************)
(* Every step is one that Forwards allows, or does not touch the Proxy.    *)
(***************************************************************************)
LEMMA LocTypes ==
    \A l \in Locs : /\ l.name \in Names
                    /\ l.scheme \in Served => l.at \in Ports
                    /\ l.scheme \notin Served => l.at \in Names
BY LocsAssumption DEF Served, WebKinds

LEMMA AddListenerMaps ==
    ASSUME SInv, NEW l \in owner.todo, owner.pc \in {"start", "add"},
           l.scheme \in Served, AddListener(l, owner.new[l])
    PROVE  [OwnerCalls]_forwardVars
<1>1. CASE AddFails(l)
  BY <1>1 DEF AddFails
<1>2. CASE ~AddFails(l)
  <2> DEFINE loop == IF l.scheme \in {"tcp", "rdp"} THEN "head" ELSE "library"
             uri == owner.new[l]
  <2>1. CanStart(l.name, l.at) /\ StartForward(l.name, loop, l.at, uri)
    BY <1>2 DEF AddListener
  <2>2. l \in Locs /\ l \in DOMAIN owner.new /\ owner.new \in Configs
    BY DEF SInv, OwnerOK, Owners
  <2>3. uri \in Uris
    BY <2>2, ConfigsAssumption
  <2>4. l.name \in Names /\ l.at \in Ports /\ loop \in {"head", "library"}
    BY <2>2, LocTypes
  <2>5. Len(listeners') > Len(listeners)
    BY <2>1 DEF StartForward, SInv, IInv, ForwardsTypeOK
  <2>6. leaving = 0
    BY DEF SInv, ProtocolOK
  <2> QED BY <2>1, <2>3, <2>4, <2>5, <2>6 DEF OwnerCalls
<1> QED BY <1>1, <1>2

LEMMA OwnerStepMaps == ASSUME SInv, OwnerSteps PROVE [OwnerCalls]_forwardVars
<1>1. CASE Start
  BY <1>1 DEF Start, SInv, ProtocolOK, OwnerCalls
<1>2. CASE StartEnds \/ Stop
  BY <1>2 DEF StartEnds, Stop, OwnerCalls
<1>3. CASE ReloadConfig \/ ReloadAdds \/ ReloadEnds
  BY <1>3 DEF ReloadConfig, ReloadAdds, ReloadEnds
<1>4. CASE StartUndone \/ StopEnds \/ RemoveCloses
  BY <1>4 DEF StartUndone, StopEnds, RemoveCloses, OwnerCalls
<1>5. CASE \E l \in owner.todo : AddForward(l)
  <2>1. PICK l \in owner.todo : AddForward(l)
    BY <1>5
  <2>2. CASE l.scheme \in Served /\ AddListener(l, owner.new[l])
    BY <2>1, <2>2, AddListenerMaps DEF AddForward
  <2>3. CASE AddAlias(l, owner.new[l]) \/ AddWeb(l, owner.new[l]) \/ AddFails(l)
    BY <2>3 DEF AddAlias, AddWeb, AddFails
  <2> QED BY <2>1, <2>2, <2>3 DEF AddForward
<1>6. CASE \E l \in owner.todo : RemoveForward(l)
  <2>1. PICK l \in owner.todo : RemoveForward(l)
    BY <1>6
  <2>2. l.name \in Names
    BY LocTypes DEF SInv, OwnerOK, Owners
  <2> QED BY <2>1, <2>2 DEF RemoveForward, RemoveBy, OwnerCalls
<1> QED BY <1>1, <1>2, <1>3, <1>4, <1>5, <1>6 DEF OwnerSteps

LEMMA DialMaps ==
    ASSUME DialBegin \/ (\E n \in Names : ProcName(n)) \/ SessionEnds \/ DialSteps
    PROVE  UNCHANGED <<forwardVars, configVars, tableVars>>
BY DEF DialBegin, ProcName, SessionEnds, DialSteps, LookAlias, LookWeb, Find, TryDial,
       DialReturns, WaitReturns, OnlyDial

LEMMA StepMaps == ASSUME SInv, [Next]_vars PROVE [ForwardsNext]_forwardVars
<1>1. CASE OwnerSteps
  BY <1>1, OwnerStepMaps DEF ForwardsNext
<1>2. CASE \E i \in DOMAIN listeners : AcceptSteps(i)
  BY <1>2 DEF AcceptSteps, ForwardsNext
<1>3. CASE EditFile \/ UNCHANGED vars
  BY <1>3 DEF EditFile, vars
<1> QED BY <1>1, <1>2, <1>3, DialMaps DEF Next

(***************************************************************************)
(* The invariant is kept.                                                  *)
(***************************************************************************)
\* The fields of owner that a step may set.
LEMMA OwnerSet ==
    ASSUME NEW o \in Owners,
           NEW pc \in {"down", "start", "undo", "up", "failed", "remove", "add", "close"},
           NEW todo \in SUBSET Locs
    PROVE  /\ [o EXCEPT !.pc = pc] \in Owners
           /\ [o EXCEPT !.todo = todo] \in Owners
           /\ [o EXCEPT !.pc = pc, !.todo = todo] \in Owners
           /\ [pc |-> pc, todo |-> todo, new |-> o.new] \in Owners
           /\ o.todo \subseteq Locs /\ o.new \in Configs
BY DEF Owners

LEMMA OwnerOKInv == ASSUME OwnerOK, [Next]_vars PROVE OwnerOK'
<1>0. /\ owner \in Owners /\ config \in Configs /\ file \in [data : Configs, edits : Nat]
      /\ owner.todo \subseteq Locs /\ owner.new \in Configs /\ file.data \in Configs
  BY OwnerSet DEF OwnerOK
<1>1. \A c \in Configs : DOMAIN c \subseteq Locs
  BY ConfigsAssumption
<1>2. CASE Start
  <2>1. /\ owner' \in {[pc |-> "start", todo |-> DOMAIN file.data, new |-> file.data],
                       [pc |-> "failed", todo |-> {}, new |-> file.data]}
        /\ config' = file.data /\ file' = file
    BY <1>2 DEF Start
  <2>2. owner' \in Owners
    BY <1>0, <1>1, <2>1 DEF Owners
  <2> QED BY <1>0, <2>1, <2>2 DEF OwnerOK
<1>3. CASE StartEnds \/ StartUndone \/ Stop \/ StopEnds
  <2>1. PICK pc \in {"up", "undo", "failed", "close", "down"} : owner' = [owner EXCEPT !.pc = pc]
    BY <1>3 DEF StartEnds, StartUndone, Stop, StopEnds
  <2>2. owner' \in Owners /\ owner'.pc = pc
    <3>1. owner' \in Owners
      BY <1>0, <2>1, OwnerSet
    <3> QED BY <1>0, <2>1, <3>1 DEF Owners
  <2>3. UNCHANGED <<file, config>>
    BY <1>3 DEF StartEnds, StartUndone, Stop, StopEnds
  <2> QED BY <1>0, <2>2, <2>3 DEF OwnerOK
<1>4. CASE ReloadConfig
  <2>1. owner' = [pc |-> "remove", todo |-> DOMAIN config \ DOMAIN file.data, new |-> file.data]
        /\ UNCHANGED <<file, config>>
    BY <1>4 DEF ReloadConfig
  <2>2. owner' \in Owners /\ owner'.pc = "remove"
    BY <1>0, <1>1, <2>1 DEF Owners
  <2> QED BY <1>0, <2>1, <2>2 DEF OwnerOK
<1>5. CASE ReloadAdds
  <2> DEFINE todo == {l \in DOMAIN owner.new : l \notin DOMAIN config \/ owner.new[l] # config[l]}
  <2>1. owner' = [owner EXCEPT !.pc = "add", !.todo = todo] /\ UNCHANGED <<file, config>>
    BY <1>5 DEF ReloadAdds
  <2>2. todo \subseteq DOMAIN owner.new /\ todo \in SUBSET Locs
    BY <1>0, <1>1
  <2>3. owner' \in Owners
    BY <1>0, <2>1, <2>2, OwnerSet
  <2>4. owner'.todo = todo /\ owner'.new = owner.new
    BY <1>0, <2>1 DEF Owners
  <2> HIDE DEF todo
  <2> QED BY <1>0, <2>1, <2>2, <2>3, <2>4 DEF OwnerOK
<1>6. CASE ReloadEnds
  <2>1. owner' = [owner EXCEPT !.pc = "up"] /\ config' = owner.new /\ file' = file
    BY <1>6 DEF ReloadEnds
  <2>2. owner' \in Owners /\ owner'.pc = "up"
    <3>1. owner' \in Owners
      BY <1>0, <2>1, OwnerSet
    <3> QED BY <1>0, <2>1, <3>1 DEF Owners
  <2> QED BY <1>0, <2>1, <2>2 DEF OwnerOK
<1>7. CASE \E l \in owner.todo : AddForward(l) \/ RemoveForward(l)
  <2>1. PICK l \in owner.todo : Handled(l) /\ UNCHANGED <<file, config>>
    BY <1>7 DEF AddForward, RemoveForward, RemoveBy
  <2> DEFINE todo == owner.todo \ {l}
  <2>2. owner' = [owner EXCEPT !.todo = todo]
    BY <2>1 DEF Handled
  <2>3. owner' \in Owners
    BY <1>0, <2>2, OwnerSet
  <2>4. owner'.todo = todo /\ owner'.new = owner.new /\ owner'.pc = owner.pc
    BY <1>0, <2>2 DEF Owners
  <2> QED BY <1>0, <2>1, <2>3, <2>4 DEF OwnerOK
<1>8. CASE EditFile
  <2>1. PICK c \in Configs : file' = [data |-> c, edits |-> file.edits + 1]
    BY <1>8 DEF EditFile
  <2>2. file' \in [data : Configs, edits : Nat]
    BY <1>0, <2>1
  <2>3. UNCHANGED <<config, owner>>
    BY <1>8 DEF EditFile
  <2> QED BY <1>0, <2>2, <2>3 DEF OwnerOK
<1>9. CASE UNCHANGED configVars
  BY <1>9 DEF configVars, OwnerOK
<1> QED BY <1>2, <1>3, <1>4, <1>5, <1>6, <1>7, <1>8, <1>9, DialMaps
        DEF Next, OwnerSteps, RemoveCloses, AcceptSteps, vars

\* A loop neither reopens a listener nor adds an entry.
LEMMA LoopKeepsClosed ==
    ASSUME IInv, NEW i \in DOMAIN listeners, LoopSteps(i),
           \A n \in Names : forwards[n] # 0 => ~listeners[forwards[n]].open
    PROVE  \A n \in Names : forwards'[n] # 0 => ~listeners'[forwards'[n]].open
<1>1. LoopFrame(i)
  BY LoopStepFrame DEF IInv
<1>2. \A n \in Names : /\ forwards'[n] \in {0, forwards[n]}
                       /\ forwards[n] # 0 => forwards[n] \in DOMAIN listeners
  BY DEF IInv, ForwardsTypeOK, LoopSteps, LoopHead, LoopAccept, LoopFails, LoopEnds
<1> QED BY <1>1, <1>2 DEF LoopFrame

LEMMA ProtocolInv == ASSUME SInv, [Next]_vars PROVE ProtocolOK'
<1> USE DEF SInv
<1>0. owner \in Owners
  BY DEF OwnerOK
<1>1. CASE Start
  BY <1>1 DEF Start, NewProxy, ProtocolOK
<1>2. CASE StartEnds
  BY <1>0, <1>2 DEF StartEnds, CloseRunning, forwardVars, ProtocolOK, Owners
<1>3. CASE StartUndone \/ Stop
  BY <1>0, <1>3 DEF StartUndone, CloseForwards, Stop, CloseRunning, ProtocolOK, Owners
<1>4. CASE StopEnds
  <2>1. owner'.pc = "down" /\ leaving' = 0
    BY <1>0, <1>4 DEF StopEnds, CloseForwards, ProtocolOK, Owners
  <2>2. \A n \in Names : forwards'[n] # 0 => ~listeners'[forwards'[n]].open
    <3> SUFFICES ASSUME NEW n \in Names, forwards[n] # 0
                 PROVE  ~listeners'[forwards[n]].open
      BY <1>4 DEF StopEnds, CloseForwards
    <3>1. forwards[n] \in DOMAIN listeners /\ listeners[forwards[n]] \in Listeners
      BY DEF IInv, ForwardsTypeOK
    <3>2. listeners'[forwards[n]] = [listeners[forwards[n]] EXCEPT !.open = FALSE]
      BY <1>4, <3>1 DEF StopEnds, CloseForwards
    <3> QED BY <3>1, <3>2 DEF Listeners
  <2> QED BY <2>1, <2>2 DEF ProtocolOK
<1>5. CASE ReloadConfig \/ ReloadAdds \/ ReloadEnds
  <2>1. leaving' = leaving /\ forwards' = forwards /\ listeners' = listeners
    BY <1>5 DEF ReloadConfig, ReloadAdds, ReloadEnds, forwardVars
  <2>2. leaving = 0
    BY <1>5 DEF ReloadConfig, ReloadAdds, ReloadEnds, ProtocolOK
  <2>3. owner'.pc # "down"
    <3>1. CASE ReloadConfig
      BY <3>1 DEF ReloadConfig
    <3>2. CASE ReloadAdds
      <4> DEFINE todo == {l \in DOMAIN owner.new :
                             l \notin DOMAIN config \/ owner.new[l] # config[l]}
      <4>1. owner' = [owner EXCEPT !.pc = "add", !.todo = todo]
        BY <3>2 DEF ReloadAdds
      <4> HIDE DEF todo
      <4> QED BY <1>0, <4>1 DEF Owners
    <3>3. CASE ReloadEnds
      BY <1>0, <3>3 DEF ReloadEnds, Owners
    <3> QED BY <1>5, <3>1, <3>2, <3>3
  <2> QED BY <2>1, <2>2, <2>3 DEF ProtocolOK
<1>6. CASE RemoveCloses
  BY <1>6 DEF RemoveCloses, StopForwardClose, configVars, ProtocolOK
<1>7. CASE \E l \in owner.todo : AddForward(l)
  <2>1. PICK l \in owner.todo : AddForward(l)
    BY <1>7
  <2>2. owner'.pc = owner.pc /\ owner.pc \in {"start", "add"}
    BY <1>0, <2>1 DEF AddForward, Handled, Owners
  <2>3. leaving' = leaving
    BY <2>1 DEF AddForward, AddAlias, AddListener, AddWeb, AddFails, StartForward, forwardVars
  <2> QED BY <2>2, <2>3 DEF ProtocolOK
<1>8. CASE \E l \in owner.todo : RemoveForward(l)
  <2>1. PICK l \in owner.todo : RemoveForward(l)
    BY <1>8
  <2>2. Handled(l) /\ owner.pc = "remove"
    BY <2>1 DEF RemoveForward, RemoveBy
  <2>3. owner'.pc = "remove"
    BY <1>0, <2>2 DEF Handled, Owners
  <2> QED BY <2>3 DEF ProtocolOK
<1>9. CASE \E i \in DOMAIN listeners : AcceptSteps(i)
  <2>1. PICK i \in DOMAIN listeners : LoopSteps(i) /\ UNCHANGED configVars
    BY <1>9 DEF AcceptSteps
  <2>2. leaving' = leaving /\ owner' = owner
    BY <2>1 DEF configVars, LoopSteps, LoopHead, LoopAccept, LoopFails, LoopEnds
  <2> QED BY <2>1, <2>2, LoopKeepsClosed DEF ProtocolOK
<1>10. CASE EditFile \/ UNCHANGED <<forwardVars, owner>>
  BY <1>10 DEF EditFile, forwardVars, ProtocolOK
<1> QED BY <1>1, <1>2, <1>3, <1>4, <1>5, <1>6, <1>7, <1>8, <1>9, <1>10, DialMaps
        DEF Next, OwnerSteps, vars, configVars

LEMMA SInvKept == ASSUME SInv, [Next]_vars PROVE SInv'
<1>1. CASE ForwardsNext
  BY <1>1, OwnerInv, LoopInv, OwnerOKInv, ProtocolInv DEF SInv, ForwardsNext
<1>2. CASE UNCHANGED forwardVars
  BY <1>2, StutterInv, OwnerOKInv, ProtocolInv DEF SInv
<1> QED BY <1>1, <1>2, StepMaps

(***************************************************************************)
(* The theorems.                                                           *)
(***************************************************************************)
THEOREM ServiceInductive == Spec => []SInv
<1>1. SInv /\ [Next]_vars => SInv'
  BY SInvKept
<1> QED BY ServiceInitInv, <1>1, PTL DEF Spec

\* The service keeps to the protocol of its Proxy: StartForward is only called for a name
\* and an address that are free, never while a forward is being stopped, and Start makes
\* a new Proxy only when the listeners in the map of the old one were closed.
THEOREM KeepsProtocol == Spec => ForwardsSpec
<1>1. Init => ForwardsInit
  BY DEF Init
<1>2. SInv /\ [Next]_vars => [ForwardsNext]_forwardVars
  BY StepMaps
<1> QED BY <1>1, <1>2, ServiceInductive, PTL DEF Spec, ForwardsSpec

\* What was proved of Forwards holds of the service, whatever is edited and reloaded: a
\* name in use has a listener, and only the end of an older loop loses one.
THEOREM ServiceLosesByOldLoop == Spec => [](EntryOpen /\ LostByOldLoop)
<1>1. SInv => EntryOpen /\ LostByOldLoop
  BY DEF SInv, IInv
<1> QED BY <1>1, ServiceInductive, PTL

\* After Stop the only listeners open are lost ones.
THEOREM StopClosesTheRest ==
    Spec => [](owner.pc = "down" => \A i \in DOMAIN listeners : listeners[i].open => Lost(i))
<1>1. SInv => (owner.pc = "down" => \A i \in DOMAIN listeners : listeners[i].open => Lost(i))
  <2> SUFFICES ASSUME SInv, owner.pc = "down", NEW i \in DOMAIN listeners, listeners[i].open
               PROVE  leaving # i /\ forwards[listeners[i].name] # i
    BY DEF Lost
  <2>1. listeners[i] \in Listeners /\ i # 0
    BY DEF SInv, IInv, ForwardsTypeOK
  <2>2. listeners[i].name \in Names
    BY <2>1 DEF Listeners
  <2> QED BY <2>1, <2>2 DEF SInv, ProtocolOK
<1> QED BY <1>1, ServiceInductive, PTL

(***************************************************************************)
(* Type correctness: what the tables hold, and what is dialed.             *)
(***************************************************************************)
TablesOK ==
    /\ alias \in [Names -> Uris \cup {NoUri}]
    /\ web \in [Names -> [kind : WebKinds \cup {"none"}, uri : Uris \cup {NoUri}]]
    /\ \A n \in Names : web[n] = NoWeb \/ web[n].uri \in Uris
    /\ shortcuts \in [Names -> 0 .. Len(listeners)]
    /\ failed \subseteq Locs /\ shared \subseteq Names

Dials == [pc : {"idle", "alias", "web", "find", "try", "panic", "ok", "fail", "wait"},
          left : Seq(Names \cup Uris), caller : {"none", "call", "websocket"},
          raw : {"none", "open", "bound", "closed"}, target : Uris \cup {NoUri},
          asked : BOOLEAN]

\* There is something left to dial when it is looked up or tried.
DialOK ==
    /\ dial \in Dials
    /\ dial.pc \in {"alias", "web", "try"} => dial.left # <<>>
    /\ dial.pc = "web" => Head(dial.left) \in Names
    /\ dial.pc = "try" => dial.target \in Uris

TInv == SInv /\ TablesOK /\ DialOK

LEMMA TypeInitInv == ASSUME Init PROVE TablesOK /\ DialOK
<1>1. TablesOK
  BY DEF Init, ForwardsInit, NoForwards, NoWeb, TablesOK
<1>2. dial = Idle /\ Idle \in Dials /\ Idle.pc = "idle"
  BY DEF Init, Idle, Dials
<1> QED BY <1>1, <1>2 DEF DialOK

LEMMA SharedNames == ASSUME NEW c \in Configs PROVE SharedIn(c) \subseteq Names
<1>1. \A l \in DOMAIN c : l \in Locs
  BY ConfigsAssumption
<1>2. \A l \in Locs : Key(l) \in Names
  BY LocTypes DEF Key, WebKinds, Served
<1> QED BY <1>1, <1>2 DEF SharedIn

\* The tables after AddForward or RemoveForward.
LEMMA AddTables ==
    ASSUME SInv, TablesOK, NEW l \in owner.todo, AddForward(l)
    PROVE  TablesOK'
<1> DEFINE uri == owner.new[l]
<1>1. /\ l \in Locs /\ l.name \in Names /\ uri \in Uris /\ shared' = shared
      /\ l.scheme \notin Served => l.at \in Names
  BY LocTypes, ConfigsAssumption DEF SInv, OwnerOK, Owners, AddForward
<1>2. CASE AddFails(l)
  BY <1>1, <1>2 DEF AddFails, forwardVars, TablesOK
<1>3. CASE ~AddFails(l) /\ l.scheme = "alias" /\ AddAlias(l, uri)
  BY <1>1, <1>3 DEF AddAlias, forwardVars, TablesOK
<1>4. CASE ~AddFails(l) /\ l.scheme \in Served /\ AddListener(l, uri)
  <2>1. /\ Len(listeners') = Len(listeners) + 1 /\ Len(listeners) \in Nat
        /\ UNCHANGED <<alias, web>> /\ failed' \in {failed \ {l}, failed \cup {l}}
    BY <1>4 DEF AddListener, StartForward, SInv, IInv, ForwardsTypeOK
  <2>2. shortcuts' \in [Names -> 0 .. Len(listeners')]
    <3>1. \/ shortcuts' = shortcuts
          \/ shortcuts' = [shortcuts EXCEPT ![l.name] = Len(listeners')]
      BY <1>4 DEF AddListener
    <3>2. shortcuts \in [Names -> 0 .. Len(listeners')]
      BY <2>1 DEF TablesOK
    <3> QED BY <2>1, <3>1, <3>2
  <2> QED BY <1>1, <2>1, <2>2 DEF TablesOK
<1>5. CASE ~AddFails(l) /\ l.scheme \in WebKinds /\ AddWeb(l, uri)
  <2> DEFINE entry == [kind |-> l.scheme, uri |-> uri]
  <2>1. /\ web' = [web EXCEPT ![l.at] = entry] /\ failed' = failed \ {l}
        /\ UNCHANGED <<listeners, alias, shortcuts>>
    BY <1>5 DEF AddWeb, forwardVars
  <2>2. entry \in [kind : WebKinds \cup {"none"}, uri : Uris \cup {NoUri}] /\ entry.uri \in Uris
    BY <1>1, <1>5
  <2> HIDE DEF entry
  <2> QED BY <1>1, <2>1, <2>2 DEF TablesOK
<1> QED BY <1>2, <1>3, <1>4, <1>5 DEF AddForward

LEMMA RemoveTables ==
    ASSUME SInv, TablesOK, NEW l \in owner.todo, RemoveForward(l)
    PROVE  TablesOK'
<1>1. l.name \in Names
  BY LocTypes DEF SInv, OwnerOK, Owners
<1>2. /\ UNCHANGED <<listeners, failed, shared>>
      /\ \/ alias' = [alias EXCEPT ![l.name] = NoUri] /\ UNCHANGED <<web, shortcuts>>
         \/ shortcuts' \in {shortcuts, [shortcuts EXCEPT ![l.name] = 0]} /\ UNCHANGED <<alias, web>>
         \/ web' = [web EXCEPT ![l.name] = NoWeb] /\ UNCHANGED <<alias, shortcuts>>
  BY DEF RemoveForward, RemoveBy, StopForward, forwardVars
<1>3. NoWeb \in [kind : WebKinds \cup {"none"}, uri : Uris \cup {NoUri}]
  BY DEF NoWeb
<1>4. Len(listeners) \in Nat
  BY DEF SInv, IInv, ForwardsTypeOK
<1>5. alias' \in [Names -> Uris \cup {NoUri}] /\ shortcuts' \in [Names -> 0 .. Len(listeners)]
  <2>1. alias' \in [Names -> Uris \cup {NoUri}]
    BY <1>1, <1>2 DEF TablesOK
  <2>2. shortcuts \in [Names -> 0 .. Len(listeners)] /\ 0 \in 0 .. Len(listeners)
    BY <1>4 DEF TablesOK
  <2>3. [shortcuts EXCEPT ![l.name] = 0] \in [Names -> 0 .. Len(listeners)]
    BY <1>1, <2>2
  <2> QED BY <1>2, <2>1, <2>2, <2>3
<1>6. /\ web' \in [Names -> [kind : WebKinds \cup {"none"}, uri : Uris \cup {NoUri}]]
      /\ \A n \in Names : web'[n] = NoWeb \/ web'[n].uri \in Uris
  <2>1. CASE web' = web
    BY <2>1 DEF TablesOK
  <2>2. CASE web' = [web EXCEPT ![l.name] = NoWeb]
    BY <1>1, <1>3, <2>2 DEF TablesOK
  <2> QED BY <1>2, <2>1, <2>2
<1> QED BY <1>2, <1>5, <1>6 DEF TablesOK

LEMMA TablesInv == ASSUME SInv, TablesOK, [Next]_vars PROVE TablesOK'
<1>1. CASE Start
  <2>1. /\ web' = [n \in Names |-> NoWeb] /\ failed' = {} /\ shared' \subseteq Names
        /\ UNCHANGED <<listeners, alias, shortcuts>>
    BY <1>1, SharedNames DEF Start, NewProxy, SInv, OwnerOK, TablesOK
  <2> QED BY <2>1 DEF NoWeb, TablesOK
<1>2. CASE ReloadConfig
  BY <1>2, SharedNames DEF ReloadConfig, forwardVars, SInv, OwnerOK, TablesOK
<1>3. CASE ReloadEnds
  BY <1>3 DEF ReloadEnds, forwardVars, TablesOK
<1>4. CASE \E l \in owner.todo : AddForward(l) \/ RemoveForward(l)
  BY <1>4, AddTables, RemoveTables
<1>5. CASE Len(listeners') = Len(listeners) /\ UNCHANGED tableVars
  BY <1>5 DEF tableVars, TablesOK
<1>6. CASE StartEnds \/ Stop \/ ReloadAdds \/ EditFile
  BY <1>5, <1>6 DEF StartEnds, Stop, CloseRunning, ReloadAdds, EditFile, forwardVars
<1>7. CASE StartUndone \/ StopEnds
  <2>1. listeners \in Seq(Listeners) /\ listeners' \in Seq(Listeners)
    BY <1>7, CloseForwardsInv DEF StartUndone, StopEnds, SInv, IInv, ForwardsTypeOK
  <2>2. DOMAIN listeners' = DOMAIN listeners /\ UNCHANGED tableVars
    BY <1>7 DEF StartUndone, StopEnds, CloseForwards
  <2>3. Len(listeners') = Len(listeners)
    BY <2>1, <2>2
  <2> QED BY <1>5, <2>2, <2>3
<1>8. CASE RemoveCloses
  BY <1>5, <1>8 DEF RemoveCloses, StopForwardClose, SInv, IInv, ForwardsTypeOK
<1>9. CASE \E i \in DOMAIN listeners : AcceptSteps(i)
  BY <1>5, <1>9, LoopStepFrame DEF AcceptSteps, LoopFrame, SInv, IInv
<1>10. CASE UNCHANGED <<forwardVars, tableVars>>
  BY <1>5, <1>10 DEF forwardVars
<1> QED BY <1>1, <1>2, <1>3, <1>4, <1>6, <1>7, <1>8, <1>9, <1>10, DialMaps
        DEF Next, OwnerSteps, vars

\* The rest of a list that is not empty.
LEMMA TailOK ==
    ASSUME NEW S, NEW s \in Seq(S), s # <<>>
    PROVE  /\ Head(s) \in S /\ Tail(s) \in Seq(S)
           /\ Len(s) > 1 => Tail(s) # <<>>
<1>1. Head(s) \in S /\ Tail(s) \in Seq(S) /\ Len(Tail(s)) = Len(s) - 1
  BY HeadTailProperties
<1>2. Len(s) > 1 => Len(Tail(s)) # 0
  BY <1>1
<1>3. Len(<<>>) = 0
  OBVIOUS
<1> QED BY <1>1, <1>2, <1>3

\* The fields of dial that a step may set.
LEMMA DialSet ==
    ASSUME NEW d \in Dials,
           NEW pc \in {"idle", "alias", "web", "find", "try", "panic", "ok", "fail", "wait"},
           NEW left \in Seq(Names \cup Uris), NEW raw \in {"none", "open", "bound", "closed"},
           NEW target \in Uris \cup {NoUri}, NEW asked \in BOOLEAN
    PROVE  /\ [d EXCEPT !.pc = pc] \in Dials
           /\ [d EXCEPT !.raw = raw] \in Dials
           /\ [d EXCEPT !.pc = pc, !.raw = raw] \in Dials
           /\ [d EXCEPT !.pc = pc, !.target = target] \in Dials
           /\ [d EXCEPT !.pc = pc, !.left = left, !.asked = asked] \in Dials
           /\ [d EXCEPT !.raw = raw, !.left = left, !.target = target, !.pc = pc] \in Dials
           /\ [d EXCEPT !.pc = pc, !.left = left, !.target = target, !.raw = raw] \in Dials
<1>1. [d EXCEPT !.pc = pc] \in Dials
  BY DEF Dials
<1>2. [d EXCEPT !.raw = raw] \in Dials
  BY DEF Dials
<1>3. [d EXCEPT !.pc = pc, !.raw = raw] \in Dials
  BY DEF Dials
<1>4. [d EXCEPT !.pc = pc, !.target = target] \in Dials
  BY DEF Dials
<1>5. [d EXCEPT !.pc = pc, !.left = left, !.asked = asked] \in Dials
  BY DEF Dials
<1>6. [d EXCEPT !.raw = raw, !.left = left, !.target = target, !.pc = pc] \in Dials
  BY DEF Dials
<1>7. [d EXCEPT !.pc = pc, !.left = left, !.target = target, !.raw = raw] \in Dials
  BY DEF Dials
<1> QED BY <1>1, <1>2, <1>3, <1>4, <1>5, <1>6, <1>7

LEMMA TryNextOK ==
    ASSUME DialOK, NEW error, NEW raw \in {"none", "open", "bound", "closed"},
           dial.left # <<>>, TryNext(error, raw)
    PROVE  DialOK'
<1>1. dial \in Dials /\ dial.left \in Seq(Names \cup Uris)
  BY DEF DialOK, Dials
<1> DEFINE pc == IF Len(dial.left) > 1 THEN "alias"
                 ELSE IF error = "unknown" /\ ~dial.asked THEN "find" ELSE "fail"
           left == Tail(dial.left)
<1>2. left \in Seq(Names \cup Uris) /\ (pc = "alias" => left # <<>>)
      /\ pc \in {"alias", "find", "fail"}
  BY <1>1, TailOK
<1>3. dial' = [dial EXCEPT !.raw = raw, !.left = left, !.target = NoUri, !.pc = pc]
  BY DEF TryNext
<1> HIDE DEF pc, left
<1>4. dial' \in Dials
  <2>1. NoUri \in Uris \cup {NoUri} /\ TRUE \in BOOLEAN
    OBVIOUS
  <2>2. pc \in {"idle", "alias", "web", "find", "try", "panic", "ok", "fail", "wait"}
    BY <1>2
  <2> QED BY <1>1, <1>2, <1>3, <2>1, <2>2, DialSet
<1>5. dial'.pc = pc /\ dial'.left = left
  BY <1>1, <1>3 DEF Dials
<1> QED BY <1>2, <1>4, <1>5 DEF DialOK

LEMMA TryOK ==
    ASSUME DialOK, NEW target \in Uris, dial.left # <<>>, Try(target)
    PROVE  DialOK'
<1>1. dial \in Dials /\ dial.left \in Seq(Names \cup Uris)
  BY DEF DialOK, Dials
<1>2. dial' = [dial EXCEPT !.pc = "try", !.target = target]
  BY DEF Try
<1>3. dial' \in Dials
  <2>1. target \in Uris \cup {NoUri} /\ TRUE \in BOOLEAN
    OBVIOUS
  <2> QED BY <1>1, <1>2, <2>1, DialSet
<1>4. dial'.pc = "try" /\ dial'.left = dial.left /\ dial'.target = target
  BY <1>1, <1>2 DEF Dials
<1> QED BY <1>3, <1>4 DEF DialOK

\* A dial that is over, or that begins.
LEMMA BeginOK ==
    ASSUME NEW list \in Seq(Names \cup Uris), list # <<>>,
           NEW caller \in {"call", "websocket"}
    PROVE  LET d == [Idle EXCEPT !.pc = "alias", !.left = list, !.caller = caller, !.raw = "open"]
           IN  d \in Dials /\ d.pc = "alias" /\ d.left = list
BY DEF Idle, Dials

LEMMA DialStepsInv ==
    ASSUME TablesOK, DialOK,
           LookAlias \/ LookWeb \/ Find \/ TryDial \/ DialReturns \/ WaitReturns \/ SessionEnds
    PROVE  DialOK'
<1>0. /\ dial \in Dials /\ dial.left \in Seq(Names \cup Uris) /\ dial.asked \in BOOLEAN
      /\ dial.raw \in {"none", "open", "bound", "closed"} /\ NoUri \in Uris \cup {NoUri}
      /\ Idle \in Dials /\ Idle.pc = "idle" /\ TRUE \in BOOLEAN
  BY DEF DialOK, Dials, Idle
<1> DEFINE Quiet == {"idle", "panic", "ok", "fail", "wait", "find"}
<1>1. CASE LookAlias
  <2> DEFINE x == Head(dial.left)
  <2>1. dial.pc = "alias" /\ dial.left # <<>>
    BY <1>1 DEF LookAlias, DialOK
  <2>2. x \in Names \cup Uris
    BY <1>0, <2>1, TailOK
  <2>3. CASE x \in Uris
    BY <1>1, <2>1, <2>3, TryOK DEF LookAlias
  <2>4. CASE x \notin Uris /\ alias[x] # NoUri
    <3>1. alias[x] \in Uris
      BY <2>2, <2>4 DEF TablesOK
    <3> QED BY <1>1, <2>1, <2>4, <3>1, TryOK DEF LookAlias
  <2>5. CASE x \notin Uris /\ alias[x] = NoUri
    <3>1. dial' = [dial EXCEPT !.pc = "web"]
      BY <1>1, <2>5 DEF LookAlias
    <3>2. dial' \in Dials
      BY <1>0, <3>1, DialSet
    <3>3. dial'.pc = "web" /\ dial'.left = dial.left
      BY <1>0, <3>1 DEF Dials
    <3> QED BY <2>1, <2>2, <2>5, <3>2, <3>3 DEF DialOK
  <2> QED BY <2>3, <2>4, <2>5
<1>2. CASE LookWeb
  <2> DEFINE x == Head(dial.left)
  <2>1. dial.pc = "web" /\ dial.left # <<>> /\ x \in Names
    BY <1>2 DEF LookWeb, DialOK
  <2>2. CASE web[x] # NoWeb
    <3>1. web[x].uri \in Uris
      BY <2>1, <2>2 DEF TablesOK
    <3> QED BY <1>2, <2>1, <2>2, <3>1, TryOK DEF LookWeb
  <2>3. CASE web[x] = NoWeb
    BY <1>0, <1>2, <2>1, <2>3, TryNextOK DEF LookWeb
  <2> QED BY <2>2, <2>3
<1>3. ASSUME dial' \in Dials, dial'.pc \in Quiet PROVE DialOK'
  BY <1>3 DEF DialOK
<1>4. CASE Find
  <2>1. CASE dial' = [dial EXCEPT !.pc = "fail"]
    <3>1. dial' \in Dials
      BY <1>0, <2>1, DialSet
    <3>2. dial'.pc = "fail"
      BY <1>0, <2>1 DEF Dials
    <3> QED BY <1>3, <3>1, <3>2
  <2>2. CASE dial' # [dial EXCEPT !.pc = "fail"]
    <3>1. PICK left \in Found :
            dial' = [dial EXCEPT !.pc = "alias", !.left = left, !.asked = TRUE]
      BY <1>4, <2>2 DEF Find
    <3>2. left \in Seq(Names \cup Uris) /\ left # <<>>
      BY DialListsAssumption
    <3>3. dial' \in Dials
      BY <1>0, <3>1, <3>2, DialSet
    <3>4. dial'.pc = "alias" /\ dial'.left = left
      BY <1>0, <3>1 DEF Dials
    <3> QED BY <3>2, <3>3, <3>4 DEF DialOK
  <2> QED BY <2>1, <2>2
<1>5. CASE TryDial
  <2>1. dial.left # <<>>
    BY <1>5 DEF TryDial, DialOK
  <2>2. CASE dial' = [dial EXCEPT !.pc = "panic"]
    <3>1. dial' \in Dials
      BY <1>0, <2>2, DialSet
    <3>2. dial'.pc = "panic"
      BY <1>0, <2>2 DEF Dials
    <3> QED BY <1>3, <3>1, <3>2
  <2>3. CASE TryNext("no channel", dial.raw) \/ TryNext("refused", "closed")
    BY <1>0, <2>1, <2>3, TryNextOK
  <2>4. CASE dial' = [dial EXCEPT !.pc = "ok", !.left = <<>>, !.target = NoUri,
                                 !.raw = IF @ = "open" THEN "bound" ELSE @]
    <3> DEFINE raw == IF dial.raw = "open" THEN "bound" ELSE dial.raw
               left == <<>>
    <3>1. raw \in {"none", "open", "bound", "closed"} /\ left \in Seq(Names \cup Uris)
      BY <1>0
    <3>2. dial' = [dial EXCEPT !.pc = "ok", !.left = left, !.target = NoUri, !.raw = raw]
      BY <1>0, <2>4 DEF Dials
    <3> HIDE DEF raw, left
    <3>3. dial' \in Dials
      BY <1>0, <3>1, <3>2, DialSet
    <3>4. dial'.pc = "ok"
      BY <1>0, <3>2 DEF Dials
    <3> QED BY <1>3, <3>3, <3>4
  <2> QED BY <1>5, <2>2, <2>3, <2>4 DEF TryDial
<1>6. CASE DialReturns
  <2>1. CASE dial.caller = "websocket"
    <3> DEFINE raw == IF dial.pc = "fail" THEN "closed" ELSE dial.raw
    <3>1. dial' = [dial EXCEPT !.pc = "wait", !.raw = raw] /\ raw \in {"none", "open", "bound", "closed"}
      BY <1>0, <1>6, <2>1 DEF DialReturns, Dials
    <3> HIDE DEF raw
    <3>2. dial' \in Dials
      BY <1>0, <3>1, DialSet
    <3>3. dial'.pc = "wait"
      BY <1>0, <3>1 DEF Dials
    <3> QED BY <1>3, <3>2, <3>3
  <2>2. CASE dial.caller # "websocket"
    BY <1>0, <1>3, <1>6, <2>2 DEF DialReturns
  <2> QED BY <2>1, <2>2
<1>7. CASE WaitReturns
  BY <1>0, <1>3, <1>7 DEF WaitReturns
<1>8. CASE SessionEnds
  <2>1. dial' = [dial EXCEPT !.raw = "closed"] /\ dial.pc = "wait"
    BY <1>8 DEF SessionEnds
  <2>2. dial' \in Dials
    BY <1>0, <2>1, DialSet
  <2>3. dial'.pc = "wait"
    BY <1>0, <2>1 DEF Dials
  <2> QED BY <1>3, <2>2, <2>3
<1> QED BY <1>1, <1>2, <1>4, <1>5, <1>6, <1>7, <1>8

LEMMA DialInv == ASSUME TablesOK, DialOK, [Next]_vars PROVE DialOK'
<1>1. CASE DialBegin
  <2>1. PICK list \in DialLists :
          dial' = [Idle EXCEPT !.pc = "alias", !.left = list, !.caller = "call", !.raw = "open"]
    BY <1>1 DEF DialBegin
  <2>2. list \in Seq(Names \cup Uris) /\ list # <<>>
    BY DialListsAssumption
  <2> QED BY <2>1, <2>2, BeginOK DEF DialOK
<1>2. CASE \E n \in Names : ProcName(n)
  <2>1. PICK n \in Names : ProcName(n)
    BY <1>2
  <2> DEFINE list == Listed[web[n].uri]
             caller == IF web[n].kind = "ws" THEN "websocket" ELSE "call"
  <2>4. web[n].uri \in Uris
    BY <2>1 DEF ProcName, TablesOK
  <2>2. list \in Seq(Names \cup Uris) /\ list # <<>> /\ caller \in {"call", "websocket"}
    BY <2>4, DialListsAssumption
  <2>3. dial' = [Idle EXCEPT !.pc = "alias", !.left = list, !.caller = caller, !.raw = "open"]
    BY <2>1 DEF ProcName, Idle
  <2> HIDE DEF list, caller
  <2> QED BY <2>2, <2>3, BeginOK DEF DialOK
<1>3. CASE DialSteps \/ SessionEnds
  BY <1>3, DialStepsInv DEF DialSteps
<1>4. CASE UNCHANGED dial
  BY <1>4 DEF DialOK
<1> QED BY <1>1, <1>2, <1>3, <1>4
        DEF Next, OwnerSteps, Start, StartEnds, StartUndone, ReloadConfig, ReloadAdds, ReloadEnds,
            Stop, StopEnds, RemoveCloses, AddForward, RemoveForward, RemoveBy, EditFile, AcceptSteps,
            vars

THEOREM TypesInductive == Spec => []TInv
<1>1. TablesOK /\ DialOK /\ SInv /\ [Next]_vars => TablesOK' /\ DialOK'
  BY TablesInv, DialInv
<1> QED BY TypeInitInv, <1>1, ServiceInductive, PTL DEF Spec, TInv

\* Type correctness; what DialAll dials is a uri that dialOne found in a table or in the
\* list, never an empty one, however the tables changed since they were looked at.
THEOREM ServiceTypeCorrect == Spec => []TypeOK
<1>1. TInv => TypeOK
  BY DEF TInv, SInv, IInv, OwnerOK, Owners, TablesOK, DialOK, Dials, TypeOK
<1> QED BY <1>1, TypesInductive, PTL
(***************************************************************************)
(* What the owner works on.                                                *)
(***************************************************************************)
Working == owner.pc \in {"start", "up", "remove", "add"}

\* While the service is served from, its Proxy runs; names that two local uris share are
\* known from the time on that they are added or removed; what is removed is not kept.
WorkOK ==
    /\ Working => node.running
    /\ owner.pc # "down" => node.no > 0
    /\ owner.pc \in {"up", "remove"} => SharedIn(config) \subseteq shared
    /\ owner.pc \in {"start", "remove", "add"} => SharedIn(owner.new) \subseteq shared
    /\ owner.pc = "start" => config = owner.new
    /\ owner.pc = "remove" =>
         /\ owner.todo \subseteq DOMAIN config \ DOMAIN owner.new
         /\ leaving # 0 => \A l \in DOMAIN config \cap DOMAIN owner.new :
              l.scheme \in Served /\ l.name = listeners[leaving].name => l.name \in shared

\* The steps by what they do to the owner.
LEMMA OwnerTo ==
    ASSUME OwnerOK
    PROVE  /\ Start => /\ owner'.pc \in {"start", "failed"} /\ owner'.new = file.data
                       /\ owner'.pc = "start" => owner'.todo = DOMAIN file.data
           /\ StartEnds => /\ owner'.pc \in {"up", "failed", "undo"} /\ owner'.new = owner.new
                           /\ owner'.pc # "undo" => UNCHANGED forwardVars
           /\ StartUndone => owner'.pc = "failed"
           /\ ReloadConfig => /\ owner'.pc = "remove" /\ owner'.new = file.data
                              /\ owner'.todo = DOMAIN config \ DOMAIN file.data
           /\ ReloadAdds => /\ owner'.pc = "add" /\ owner'.new = owner.new
                            /\ owner'.todo = {l \in DOMAIN owner.new :
                                  l \notin DOMAIN config \/ owner.new[l] # config[l]}
           /\ ReloadEnds => owner'.pc = "up" /\ owner'.new = owner.new
           /\ Stop => owner'.pc = "close"
           /\ StopEnds => owner'.pc = "down"
           /\ \A l : Handled(l) => /\ owner'.pc = owner.pc /\ owner'.new = owner.new
                                   /\ owner'.todo = owner.todo \ {l}
<1>0. owner \in Owners
  BY DEF OwnerOK
<1>1. Start => /\ owner'.pc \in {"start", "failed"} /\ owner'.new = file.data
               /\ owner'.pc = "start" => owner'.todo = DOMAIN file.data
  BY DEF Start
<1>2. StartEnds => /\ owner'.pc \in {"up", "failed", "undo"} /\ owner'.new = owner.new
                   /\ owner'.pc # "undo" => UNCHANGED forwardVars
  BY <1>0 DEF StartEnds, Owners
<1>3. ReloadConfig => /\ owner'.pc = "remove" /\ owner'.new = file.data
                      /\ owner'.todo = DOMAIN config \ DOMAIN file.data
  BY DEF ReloadConfig
<1>4. ReloadAdds => /\ owner'.pc = "add" /\ owner'.new = owner.new
                    /\ owner'.todo = {l \in DOMAIN owner.new :
                          l \notin DOMAIN config \/ owner.new[l] # config[l]}
  <2> DEFINE todo == {l \in DOMAIN owner.new : l \notin DOMAIN config \/ owner.new[l] # config[l]}
  <2>1. ReloadAdds => owner' = [owner EXCEPT !.pc = "add", !.todo = todo]
    BY DEF ReloadAdds
  <2> HIDE DEF todo
  <2>2. ReloadAdds => owner'.pc = "add" /\ owner'.new = owner.new /\ owner'.todo = todo
    BY <1>0, <2>1 DEF Owners
  <2> QED BY <2>2 DEF todo
<1>5. ReloadEnds => owner'.pc = "up" /\ owner'.new = owner.new
  BY <1>0 DEF ReloadEnds, Owners
<1>6. /\ StartUndone => owner'.pc = "failed"
      /\ Stop => owner'.pc = "close"
      /\ StopEnds => owner'.pc = "down"
  BY <1>0 DEF StartUndone, Stop, StopEnds, Owners
<1>7. ASSUME NEW l, Handled(l)
      PROVE  owner'.pc = owner.pc /\ owner'.new = owner.new /\ owner'.todo = owner.todo \ {l}
  BY <1>0, <1>7 DEF Handled, Owners
<1> QED BY <1>1, <1>2, <1>3, <1>4, <1>5, <1>6, <1>7

LEMMA StepCases ==
    ASSUME [Next]_vars
    PROVE  \/ OwnerSteps
           \/ \E i \in DOMAIN listeners : AcceptSteps(i)
           \/ UNCHANGED <<forwardVars, config, owner, tableVars>>
BY DialMaps DEF Next, EditFile, vars, configVars

\* Two local uris of a configuration that have a name in common.
LEMMA SharedKey ==
    ASSUME NEW c, NEW l \in DOMAIN c, NEW m \in DOMAIN c, l # m, m.name = Key(l)
    PROVE  Key(l) \in SharedIn(c)
BY DEF SharedIn

LEMMA AddFrame ==
    ASSUME SInv, NEW l \in owner.todo, AddForward(l)
    PROVE  /\ owner.pc \in {"start", "add"} /\ Handled(l)
           /\ l \in Locs /\ l \in DOMAIN owner.new /\ owner.new[l] \in Uris
           /\ UNCHANGED <<node, leaving, config, shared>> /\ leaving = 0
<1>1. l \in Locs /\ l \in DOMAIN owner.new /\ owner.new[l] \in Uris
  BY ConfigsAssumption DEF AddForward, SInv, OwnerOK, Owners
<1>2. UNCHANGED <<node, leaving>>
  BY DEF AddForward, AddAlias, AddListener, AddWeb, AddFails, StartForward, forwardVars
<1>3. owner.pc \in {"start", "add"} /\ Handled(l) /\ UNCHANGED <<config, shared>>
  BY DEF AddForward
<1> QED BY <1>1, <1>2, <1>3 DEF SInv, ProtocolOK

LEMMA RemoveFrame ==
    ASSUME SInv, NEW l \in owner.todo, RemoveForward(l)
    PROVE  /\ owner.pc = "remove" /\ Handled(l) /\ leaving = 0 /\ l \in Locs
           /\ UNCHANGED <<node, listeners, config, failed, shared>>
           /\ leaving' # 0 => leaving' \in DOMAIN listeners /\ listeners[leaving'].name = l.name
<1>1. owner.pc = "remove" /\ Handled(l) /\ leaving = 0 /\ UNCHANGED <<config, failed, shared>>
  BY DEF RemoveForward, RemoveBy
<1>2. UNCHANGED <<node, listeners>> /\ leaving' \in {0, forwards[l.name]}
  BY <1>1 DEF RemoveForward, RemoveBy, StopForward, forwardVars
<1>3. l \in Locs /\ l.name \in Names
  BY LocTypes DEF SInv, OwnerOK, Owners
<1>4. forwards[l.name] # 0 => /\ forwards[l.name] \in DOMAIN listeners
                              /\ listeners[forwards[l.name]].name = l.name
  BY <1>3 DEF SInv, IInv, ForwardsTypeOK, EntryOpen
<1> QED BY <1>1, <1>2, <1>3, <1>4

LEMMA WorkInv == ASSUME SInv, WorkOK, [Next]_vars PROVE WorkOK'
<1>0. OwnerOK /\ node.no \in Nat /\ node \in [no : Nat, running : BOOLEAN]
  BY DEF SInv, IInv, ForwardsTypeOK
<1> USE DEF Working
<1>1. CASE Start
  <2>1. owner'.pc \in {"start", "failed"} /\ owner'.new = file.data /\ config' = file.data
        /\ shared' = shared \cup SharedIn(file.data)
    BY <1>0, <1>1, OwnerTo DEF Start
  <2>2. node'.running /\ node'.no > 0
    BY <1>0, <1>1 DEF Start, NewProxy
  <2> QED BY <2>1, <2>2 DEF WorkOK
<1>2. CASE StartEnds
  <2>1. /\ owner'.pc \in {"up", "failed", "undo"} /\ owner.pc = "start"
        /\ owner'.pc # "undo" => UNCHANGED forwardVars
        /\ UNCHANGED <<config, shared>>
    BY <1>0, <1>2, OwnerTo DEF StartEnds, tableVars
  <2>2. node'.no = node.no
    BY <1>0, <1>2 DEF StartEnds, CloseRunning, forwardVars
  <2> QED BY <2>1, <2>2 DEF WorkOK, forwardVars, SharedIn
<1>3. CASE ReloadConfig
  <2>1. /\ owner'.pc = "remove" /\ owner'.new = file.data /\ owner'.todo = DOMAIN config \ DOMAIN file.data
        /\ owner.pc = "up" /\ UNCHANGED <<forwardVars, config>>
        /\ shared' = shared \cup SharedIn(file.data)
    BY <1>0, <1>3, OwnerTo DEF ReloadConfig
  <2>2. leaving' = 0
    BY <2>1 DEF SInv, ProtocolOK, forwardVars
  <2> QED BY <2>1, <2>2 DEF WorkOK, forwardVars, SharedIn
<1>4. CASE ReloadAdds \/ ReloadEnds
  <2>1. /\ UNCHANGED <<forwardVars, shared>> /\ owner'.new = owner.new /\ owner.pc \in {"remove", "add"}
        /\ \/ owner'.pc = "add"
           \/ owner'.pc = "up" /\ config' = owner.new
    BY <1>0, <1>4, OwnerTo DEF ReloadAdds, ReloadEnds, tableVars
  <2> QED BY <2>1 DEF WorkOK, forwardVars, SharedIn
<1>5. CASE StartUndone \/ Stop \/ StopEnds
  <2>1. owner'.pc \in {"failed", "close", "down"} /\ owner.pc # "down" /\ node'.no = node.no
    BY <1>0, <1>5, OwnerTo DEF StartUndone, Stop, StopEnds, CloseRunning, CloseForwards
  <2> QED BY <2>1 DEF WorkOK
<1>6. ASSUME NEW l \in owner.todo, AddForward(l) PROVE WorkOK'
  <2>1. /\ owner.pc \in {"start", "add"} /\ owner'.pc = owner.pc /\ owner'.new = owner.new
        /\ UNCHANGED <<node, config, shared>>
    BY <1>0, <1>6, AddFrame, OwnerTo
  <2> QED BY <2>1 DEF WorkOK, SharedIn
<1>7. ASSUME NEW l \in owner.todo, RemoveForward(l) PROVE WorkOK'
  <2>1. /\ owner.pc = "remove" /\ owner'.pc = owner.pc /\ owner'.new = owner.new
        /\ owner'.todo = owner.todo \ {l} /\ UNCHANGED <<node, listeners, config, shared>>
        /\ leaving' # 0 => listeners[leaving'].name = l.name
    BY <1>0, <1>7, RemoveFrame, OwnerTo
  <2>2. ASSUME leaving' # 0, NEW m \in DOMAIN config \cap DOMAIN owner.new,
               m.scheme \in Served, m.name = listeners[leaving'].name
        PROVE  m.name \in shared
    <3>1. l \in DOMAIN config /\ l # m /\ l.name = Key(m) /\ Key(m) = m.name
      BY <2>1, <2>2 DEF WorkOK, Key, Served, WebKinds
    <3>2. Key(m) \in SharedIn(config)
      BY <3>1, SharedKey
    <3> QED BY <2>1, <3>1, <3>2 DEF WorkOK
  <2> QED BY <2>1, <2>2 DEF WorkOK, SharedIn
<1>8. CASE RemoveCloses
  <2>1. leaving' = 0 /\ UNCHANGED <<node, config, owner, shared>>
    BY <1>8 DEF RemoveCloses, StopForwardClose, configVars, tableVars
  <2> QED BY <2>1 DEF WorkOK, SharedIn
<1>9. ASSUME NEW i \in DOMAIN listeners, AcceptSteps(i) PROVE WorkOK'
  <2>1. UNCHANGED <<node, leaving, config, owner, shared>>
    BY <1>9 DEF AcceptSteps, LoopSteps, LoopHead, LoopAccept, LoopFails, LoopEnds, configVars, tableVars
  <2>2. leaving # 0 => listeners'[leaving].name = listeners[leaving].name
    BY <1>9, LoopStepFrame DEF AcceptSteps, LoopFrame, SInv, IInv, ForwardsTypeOK
  <2> QED BY <2>1, <2>2 DEF WorkOK, SharedIn
<1>10. CASE UNCHANGED <<forwardVars, config, owner, tableVars>>
  BY <1>10 DEF WorkOK, forwardVars, tableVars, SharedIn
<1> QED BY <1>1, <1>2, <1>3, <1>4, <1>5, <1>6, <1>7, <1>8, <1>9, <1>10, StepCases DEF OwnerSteps
(***************************************************************************)
(* What is configured is served.                                           *)
(***************************************************************************)
Claim(l, uri) ==
    \/ l \in failed \/ IsServed(l, uri) \/ Key(l) \in shared
    \/ /\ l.scheme \in Served
       /\ \E i \in DOMAIN listeners : listeners[i].broken /\ listeners[i].name = l.name

\* The local uris that were added, or kept, and the configuration they are from.
Settled ==
    CASE owner.pc = "up" -> DOMAIN config
      [] owner.pc = "remove" -> DOMAIN config \cap DOMAIN owner.new
      [] owner.pc \in {"start", "add"} -> DOMAIN owner.new \ owner.todo
      [] OTHER -> {}
Now == IF owner.pc \in {"up", "remove"} THEN config ELSE owner.new

ServedInv == \A l \in Settled : Claim(l, Now[l])

LEMMA Schemes ==
    ASSUME NEW l \in Locs
    PROVE  /\ \/ l.scheme \in {"alias", "other"} /\ l.scheme \notin Served \cup WebKinds
              \/ l.scheme \in WebKinds /\ l.scheme \notin Served \cup {"alias"}
              \/ l.scheme \in Served /\ l.scheme \notin WebKinds \cup {"alias"}
           /\ l.scheme # "none" /\ Key(l) = IF l.scheme \in WebKinds THEN l.at ELSE l.name
BY LocsAssumption DEF Served, WebKinds, Key

\* No listener is taken from those there were, and what one was made with stays.
ListenersStay ==
    \A i \in DOMAIN listeners :
        /\ i \in DOMAIN listeners' /\ listeners'[i].name = listeners[i].name
        /\ listeners'[i].port = listeners[i].port /\ listeners'[i].uri = listeners[i].uri
        /\ listeners'[i].proxy = listeners[i].proxy
        /\ listeners[i].broken => listeners'[i].broken

\* What a step may do to what serves a local uri.
StaysServed(l) ==
    /\ l.scheme = "alias" => alias[l.name] \in {NoUri, alias'[l.name]}
    /\ l.scheme \in WebKinds => web[l.at] \in {NoWeb, web'[l.at]}
    /\ l.scheme = "rdp" => shortcuts'[l.name] = shortcuts[l.name]
    /\ l.scheme \in Served => \A i \in DOMAIN listeners :
         Present(i) /\ listeners[i].name = l.name => listeners'[i].open \/ listeners'[i].broken

LEMMA ClaimKept ==
    ASSUME NEW l \in Locs, NEW uri \in Uris, Claim(l, uri), shared \subseteq shared',
           l \in failed => l \in failed', ListenersStay, node'.no = node.no,
           Key(l) \notin shared => StaysServed(l)
    PROVE  Claim(l, uri)'
<1>1. CASE l \in failed \/ Key(l) \in shared
  BY <1>1 DEF Claim, Key
<1>2. CASE l.scheme \in Served /\ \E i \in DOMAIN listeners : listeners[i].broken /\ listeners[i].name = l.name
  BY <1>2 DEF Claim, ListenersStay
<1>3. CASE IsServed(l, uri) /\ Key(l) \notin shared
  <2>0. uri # NoUri
    BY NamesAssumption
  <2>1. CASE l.scheme = "alias"
    <3>1. alias[l.name] = uri
      BY <1>3, <2>1, Schemes DEF IsServed
    <3>2. alias'[l.name] = uri
      BY <1>3, <2>0, <2>1, <3>1 DEF StaysServed
    <3>3. IsServed(l, uri)'
      BY <2>1, <3>2 DEF IsServed
    <3> QED BY <3>3 DEF Claim
  <2>2. CASE l.scheme \in WebKinds
    <3>0. l.scheme # "alias" /\ l.scheme # "none" /\ l.scheme \notin Served
      BY <2>2 DEF WebKinds, Served
    <3>1. web[l.at] = [kind |-> l.scheme, uri |-> uri]
      BY <1>3, <2>2, <3>0 DEF IsServed
    <3>2. web[l.at] # NoWeb
      BY <3>0, <3>1 DEF NoWeb
    <3>3. web'[l.at] = [kind |-> l.scheme, uri |-> uri]
      BY <1>3, <2>2, <3>1, <3>2 DEF StaysServed
    <3>4. IsServed(l, uri)'
      BY <2>2, <3>0, <3>3 DEF IsServed
    <3> QED BY <3>4 DEF Claim
  <2>3. CASE l.scheme \in Served
    <3>0. l.scheme # "alias" /\ l.scheme \notin WebKinds
      BY <2>3 DEF WebKinds, Served
    <3>1. PICK i \in DOMAIN listeners :
            /\ Present(i)
            /\ listeners[i].name = l.name /\ listeners[i].port = l.at /\ listeners[i].uri = uri
            /\ l.scheme = "rdp" => shortcuts[l.name] = i
      BY <1>3, <2>3, <3>0 DEF IsServed
    <3>2. /\ i \in DOMAIN listeners' /\ listeners'[i].name = l.name /\ listeners'[i].port = l.at
          /\ listeners'[i].uri = uri /\ listeners'[i].proxy = node'.no
          /\ l.scheme = "rdp" => shortcuts'[l.name] = i
          /\ listeners'[i].open \/ listeners'[i].broken
      BY <1>3, <2>3, <3>1 DEF ListenersStay, StaysServed, Present
    <3>3. CASE listeners'[i].broken
      BY <2>3, <3>2, <3>3 DEF Claim
    <3>4. CASE listeners'[i].open
      <4>1. Present(i)'
        BY <3>2, <3>4 DEF Present
      <4>2. IsServed(l, uri)'
        BY <2>3, <3>0, <3>2, <4>1 DEF IsServed
      <4> QED BY <4>2 DEF Claim
    <3> QED BY <3>2, <3>3, <3>4
  <2>4. l.scheme = "alias" \/ l.scheme \in WebKinds \cup Served
    BY <1>3 DEF IsServed
  <2> QED BY <2>1, <2>2, <2>3, <2>4
<1> QED BY <1>1, <1>2, <1>3 DEF Claim

LEMMA SettledTypes ==
    ASSUME SInv, NEW l \in Settled PROVE l \in Locs /\ Now[l] \in Uris
BY ConfigsAssumption DEF SInv, OwnerOK, Owners, Settled, Now

LEMMA ClaimSame ==
    ASSUME SInv, NEW l \in Locs, NEW uri \in Uris, Claim(l, uri), shared \subseteq shared',
           l \in failed => l \in failed', UNCHANGED <<forwardVars, alias, web, shortcuts>>
    PROVE  Claim(l, uri)'
<1>1. ListenersStay /\ node'.no = node.no
  BY DEF ListenersStay, forwardVars
<1>2. StaysServed(l)
  BY DEF StaysServed, Present, forwardVars
<1> QED BY <1>1, <1>2, ClaimKept

\* The local uri that AddForward adds.
LEMMA AddClaims ==
    ASSUME SInv, TablesOK, NEW l \in owner.todo, AddForward(l), NEW uri, uri = owner.new[l]
    PROVE  Claim(l, uri)'
<1>0. l \in Locs /\ l.name \in Names /\ (l.scheme \notin Served => l.at \in Names)
  BY AddFrame, LocTypes
<1>1. CASE AddFails(l)
  BY <1>1 DEF AddFails, Claim
<1>2. CASE ~AddFails(l) /\ l.scheme = "alias" /\ AddAlias(l, uri)
  <2>1. alias'[l.name] = uri
    BY <1>0, <1>2 DEF AddAlias, TablesOK
  <2> QED BY <1>2, <2>1 DEF Claim, IsServed
<1>3. CASE ~AddFails(l) /\ l.scheme \in WebKinds /\ AddWeb(l, uri)
  <2>0. l.scheme # "alias" /\ l.scheme \notin Served
    BY <1>3 DEF WebKinds, Served
  <2> DEFINE entry == [kind |-> l.scheme, uri |-> uri]
  <2>1. web' = [web EXCEPT ![l.at] = entry] /\ l.at \in DOMAIN web
    BY <1>0, <1>3, <2>0 DEF AddWeb, TablesOK
  <2>2. web'[l.at] = entry
    <3> HIDE DEF entry
    <3> QED BY <2>1
  <2> QED BY <1>3, <2>0, <2>2 DEF Claim, IsServed
<1>4. CASE ~AddFails(l) /\ l.scheme \in Served /\ AddListener(l, uri)
  <2>0. l.scheme # "alias" /\ l.scheme \notin WebKinds
    BY <1>4 DEF WebKinds, Served
  <2> DEFINE loop == IF l.scheme \in {"tcp", "rdp"} THEN "head" ELSE "library"
             new == Listener(l.name, loop, l.at, uri)
  <2>1. /\ listeners' = Append(listeners, new) /\ listeners \in Seq(Listeners)
        /\ UNCHANGED node
    BY <1>4 DEF AddListener, StartForward, SInv, IInv, ForwardsTypeOK
  <2>2. /\ new.name = l.name /\ new.port = l.at /\ new.uri = uri /\ new.open /\ new.proxy = node.no
    BY DEF Listener
  <2> HIDE DEF new
  <2>i. PICK i \in Nat : i = Len(listeners) + 1
    BY <2>1
  <2>3. i \in DOMAIN listeners' /\ listeners'[i] = new /\ Len(listeners') = i
    BY <2>1, <2>i
  <2>4. l.scheme = "rdp" => shortcuts'[l.name] = i \/ l \in failed'
    BY <1>0, <1>4, <2>3 DEF AddListener, TablesOK
  <2>5. Present(i)'
    BY <2>1, <2>2, <2>3 DEF Present
  <2>6. CASE l \in failed'
    BY <2>6 DEF Claim
  <2>7. CASE l \notin failed'
    <3>1. IsServed(l, uri)'
      BY <1>4, <2>0, <2>2, <2>3, <2>4, <2>5, <2>7 DEF IsServed
    <3> QED BY <3>1 DEF Claim
  <2> QED BY <2>6, <2>7
<1> QED BY <1>1, <1>2, <1>3, <1>4 DEF AddForward

\* The others that were added.
LEMMA AddKeeps ==
    ASSUME SInv, TablesOK, WorkOK, NEW m \in owner.todo, AddForward(m),
           NEW l \in DOMAIN owner.new, l # m, l \in Locs, NEW uri \in Uris, Claim(l, uri)
    PROVE  Claim(l, uri)'
<1>0. /\ m \in Locs /\ m \in DOMAIN owner.new /\ m.name \in Names /\ node' = node /\ shared' = shared
      /\ m.scheme \notin Served => m.at \in Names
  BY AddFrame, LocTypes
<1>1. l \in failed => l \in failed'
  BY DEF AddForward, AddAlias, AddListener, AddWeb, AddFails
<1>2. \/ listeners' = listeners
      \/ \E new : listeners' = Append(listeners, new)
  BY DEF AddForward, AddAlias, AddListener, AddWeb, AddFails, StartForward, forwardVars
<1>3. listeners \in Seq(Listeners)
  BY DEF SInv, IInv, ForwardsTypeOK
<1>4. \A i \in DOMAIN listeners : i \in DOMAIN listeners' /\ listeners'[i] = listeners[i]
  BY <1>2, <1>3
<1>5. ListenersStay
  BY <1>4 DEF ListenersStay
<1>6. ASSUME Key(l) \notin shared PROVE StaysServed(l)
  <2>1. /\ alias' = alias \/ (alias[m.name] = NoUri /\ \A n \in DOMAIN alias \ {m.name} : alias'[n] = alias[n])
        /\ web' = web \/ (web[m.at] = NoWeb /\ \A n \in DOMAIN web \ {m.at} : web'[n] = web[n])
    BY DEF AddForward, AddAlias, AddListener, AddWeb, AddFails
  <2>2. l.name \in Names /\ (l.scheme \in WebKinds => l.at \in Names)
    BY LocTypes DEF WebKinds, Served
  <2>3. l.scheme = "alias" => alias[l.name] \in {NoUri, alias'[l.name]}
    BY <2>1, <2>2 DEF TablesOK
  <2>4. l.scheme \in WebKinds => web[l.at] \in {NoWeb, web'[l.at]}
    BY <2>1, <2>2 DEF TablesOK
  <2>5. l.scheme = "rdp" => shortcuts'[l.name] = shortcuts[l.name]
    <3> SUFFICES ASSUME l.scheme = "rdp" PROVE shortcuts'[l.name] = shortcuts[l.name]
      OBVIOUS
    <3>1. Key(l) = l.name
      BY DEF Key, WebKinds
    <3>2. owner.pc \in {"start", "add"}
      BY AddFrame
    <3>3. m.name # l.name
      BY <1>0, <1>6, <3>1, <3>2, SharedKey DEF WorkOK
    <3>4. shortcuts' = shortcuts \/ \E i : shortcuts' = [shortcuts EXCEPT ![m.name] = i]
      BY DEF AddForward, AddAlias, AddListener, AddWeb, AddFails
    <3> QED BY <2>2, <3>3, <3>4 DEF TablesOK
  <2>6. \A i \in DOMAIN listeners : Present(i) => listeners'[i].open
    BY <1>4 DEF Present
  <2> QED BY <2>3, <2>4, <2>5, <2>6 DEF StaysServed
<1> QED BY <1>0, <1>1, <1>5, <1>6, ClaimKept

\* A removal leaves what is kept alone, but for a name they share.
LEMMA RemoveKeeps ==
    ASSUME SInv, TablesOK, WorkOK, NEW m \in owner.todo, RemoveForward(m),
           NEW l \in DOMAIN config \cap DOMAIN owner.new, l \in Locs, NEW uri \in Uris, Claim(l, uri)
    PROVE  Claim(l, uri)'
<1>0. /\ owner.pc = "remove" /\ m \in Locs /\ UNCHANGED <<node, listeners, failed, shared>>
  BY RemoveFrame
<1>1. m \in DOMAIN config /\ m # l /\ SharedIn(config) \subseteq shared
  BY <1>0 DEF WorkOK
<1>2. ASSUME Key(l) \notin shared PROVE StaysServed(l)
  <2>0. m.name # Key(l)
    BY <1>1, <1>2, SharedKey
  <2>1. /\ alias' \in {alias, [alias EXCEPT ![m.name] = NoUri]}
        /\ web' \in {web, [web EXCEPT ![m.name] = NoWeb]}
        /\ shortcuts' \in {shortcuts, [shortcuts EXCEPT ![m.name] = 0]}
    BY DEF RemoveForward, RemoveBy
  <2>2. /\ l.name \in Names /\ (l.scheme \in WebKinds => l.at \in Names)
        /\ Key(l) = IF l.scheme \in WebKinds THEN l.at ELSE l.name
        /\ l.scheme = "alias" \/ l.scheme = "rdp" => l.scheme \notin WebKinds
    BY LocTypes, Schemes DEF WebKinds, Served
  <2>3. l.scheme = "alias" => alias'[l.name] = alias[l.name]
    BY <2>0, <2>1, <2>2 DEF TablesOK
  <2>4. l.scheme \in WebKinds => web'[l.at] = web[l.at]
    BY <2>0, <2>1, <2>2 DEF TablesOK
  <2>5. l.scheme = "rdp" => shortcuts'[l.name] = shortcuts[l.name]
    BY <2>0, <2>1, <2>2 DEF TablesOK
  <2>6. \A i \in DOMAIN listeners : Present(i) => listeners'[i].open
    BY <1>0 DEF Present
  <2> QED BY <2>3, <2>4, <2>5, <2>6 DEF StaysServed
<1>3. ListenersStay
  BY <1>0 DEF ListenersStay
<1> QED BY <1>0, <1>2, <1>3, ClaimKept
\* A step of the owner that adds and removes nothing.
LEMMA PassedOn ==
    ASSUME SInv, ServedInv, UNCHANGED <<forwardVars, alias, web, shortcuts>>, shared \subseteq shared',
           Settled' \subseteq Settled,
           \A l \in Settled' : Now'[l] = Now[l] /\ (l \in failed => l \in failed')
    PROVE  ServedInv'
<1> SUFFICES ASSUME NEW l \in Settled' PROVE Claim(l, Now[l])'
  BY DEF ServedInv
<1>1. PICK uri \in Uris : uri = Now[l]
  BY SettledTypes
<1>2. Claim(l, uri) /\ l \in Locs
  BY <1>1, SettledTypes DEF ServedInv
<1>3. Claim(l, uri)'
  BY <1>2, ClaimSame
<1> QED BY <1>1, <1>3

LEMMA ServedStep ==
    ASSUME SInv, TablesOK, WorkOK, ServedInv, [Next]_vars PROVE ServedInv'
<1>0. OwnerOK
  BY DEF SInv
<1>1. CASE Start \/ StartUndone \/ Stop \/ StopEnds
  <2>1. \/ owner'.pc = "start" /\ owner'.todo = DOMAIN owner'.new
        \/ owner'.pc \in {"failed", "close", "down"}
    BY <1>0, <1>1, OwnerTo
  <2>2. Settled' = {}
    BY <2>1 DEF Settled
  <2> QED BY <2>2 DEF ServedInv
<1>2. CASE StartEnds
  <2>1. /\ owner'.pc \in {"up", "failed", "undo"} /\ owner'.new = owner.new
        /\ owner'.pc # "undo" => UNCHANGED forwardVars
        /\ owner.pc = "start" /\ owner.todo = {} /\ UNCHANGED <<config, tableVars>>
    BY <1>0, <1>2, OwnerTo DEF StartEnds
  <2>2. CASE owner'.pc = "up"
    <3>1. Settled' = DOMAIN owner.new /\ Settled = DOMAIN owner.new /\ Now' = owner.new /\ Now = owner.new
      BY <2>1, <2>2 DEF Settled, Now, WorkOK
    <3> QED BY <2>1, <2>2, <3>1, PassedOn DEF tableVars
  <2>3. CASE owner'.pc # "up"
    <3>1. Settled' = {}
      BY <2>1, <2>3 DEF Settled
    <3> QED BY <3>1 DEF ServedInv
  <2> QED BY <2>2, <2>3
<1>3. CASE ReloadConfig
  <2>1. /\ owner'.pc = "remove" /\ owner'.new = file.data /\ owner.pc = "up"
        /\ UNCHANGED <<forwardVars, config, alias, web, shortcuts, failed>> /\ shared \subseteq shared'
    BY <1>0, <1>3, OwnerTo DEF ReloadConfig
  <2>2. Settled' = DOMAIN config \cap DOMAIN file.data /\ Settled = DOMAIN config /\ Now' = config /\ Now = config
    BY <2>1 DEF Settled, Now
  <2> QED BY <2>1, <2>2, PassedOn
<1>4. CASE ReloadAdds
  <2>1. /\ owner'.pc = "add" /\ owner'.new = owner.new /\ owner.pc = "remove"
        /\ owner'.todo = {l \in DOMAIN owner.new : l \notin DOMAIN config \/ owner.new[l] # config[l]}
        /\ UNCHANGED <<forwardVars, config, tableVars>>
    BY <1>0, <1>4, OwnerTo DEF ReloadAdds
  <2>2. /\ Settled' = {l \in DOMAIN owner.new : l \in DOMAIN config /\ owner.new[l] = config[l]}
        /\ Settled = DOMAIN config \cap DOMAIN owner.new /\ Now' = owner.new /\ Now = config
    BY <2>1 DEF Settled, Now
  <2> QED BY <2>1, <2>2, PassedOn DEF tableVars
<1>5. CASE ReloadEnds
  <2>1. /\ owner'.pc = "up" /\ owner.pc = "add" /\ owner.todo = {} /\ config' = owner.new
        /\ failed' = failed \cap DOMAIN owner.new
        /\ UNCHANGED <<forwardVars, alias, web, shortcuts, shared>>
    BY <1>0, <1>5, OwnerTo DEF ReloadEnds
  <2>2. Settled' = DOMAIN owner.new /\ Settled = DOMAIN owner.new /\ Now' = owner.new /\ Now = owner.new
    BY <2>1 DEF Settled, Now
  <2> QED BY <2>1, <2>2, PassedOn
<1>6. ASSUME NEW m \in owner.todo, AddForward(m) PROVE ServedInv'
  <2>1. /\ owner.pc \in {"start", "add"} /\ owner'.pc = owner.pc /\ owner'.new = owner.new
        /\ owner'.todo = owner.todo \ {m}
    BY <1>0, <1>6, AddFrame, OwnerTo
  <2>2. Settled' \subseteq Settled \cup {m} /\ Settled \subseteq DOMAIN owner.new /\ Now' = owner.new /\ Now = owner.new
    BY <2>1 DEF Settled, Now
  <2> SUFFICES ASSUME NEW l \in Settled' PROVE Claim(l, Now[l])'
    BY DEF ServedInv
  <2>3. CASE l = m
    <3>1. PICK uri : uri = owner.new[m]
      OBVIOUS
    <3>2. Claim(m, uri)'
      BY <1>6, <3>1, AddClaims
    <3> QED BY <2>2, <2>3, <3>1, <3>2
  <2>4. CASE l # m
    <3>1. l \in Settled /\ l \in Locs /\ l \in DOMAIN owner.new
      BY <2>2, <2>4, SettledTypes
    <3>2. PICK uri \in Uris : uri = owner.new[l]
      BY <2>2, <3>1, SettledTypes
    <3>3. Claim(l, uri)
      BY <2>2, <3>1, <3>2 DEF ServedInv
    <3>4. Claim(l, uri)'
      BY <1>6, <2>4, <3>1, <3>3, AddKeeps
    <3> QED BY <2>2, <3>2, <3>4
  <2> QED BY <2>3, <2>4
<1>7. ASSUME NEW m \in owner.todo, RemoveForward(m) PROVE ServedInv'
  <2>1. /\ owner.pc = "remove" /\ owner'.pc = owner.pc /\ owner'.new = owner.new /\ config' = config
    BY <1>0, <1>7, RemoveFrame, OwnerTo
  <2>2. /\ Settled' = DOMAIN config \cap DOMAIN owner.new /\ Settled = DOMAIN config \cap DOMAIN owner.new
        /\ Now' = config /\ Now = config
    BY <2>1 DEF Settled, Now
  <2> SUFFICES ASSUME NEW l \in DOMAIN config \cap DOMAIN owner.new PROVE Claim(l, Now[l])'
    BY <2>2 DEF ServedInv
  <2>3. PICK uri \in Uris : uri = config[l]
    BY <2>2, SettledTypes
  <2>4. Claim(l, uri) /\ l \in Locs
    BY <2>2, <2>3, SettledTypes DEF ServedInv
  <2>5. Claim(l, uri)'
    BY <1>7, <2>4, RemoveKeeps
  <2> QED BY <2>2, <2>3, <2>5
<1>8. CASE RemoveCloses
  <2>1. /\ owner.pc = "remove" /\ leaving # 0 /\ UNCHANGED <<node, config, owner, tableVars>>
        /\ listeners' = [listeners EXCEPT ![leaving].open = FALSE]
    BY <1>8 DEF RemoveCloses, StopForwardClose, configVars
  <2>2. leaving \in DOMAIN listeners /\ \A i \in DOMAIN listeners : listeners[i] \in Listeners
    BY <2>1 DEF SInv, IInv, ForwardsTypeOK
  <2>3. /\ DOMAIN listeners' = DOMAIN listeners
        /\ \A i \in DOMAIN listeners : i # leaving => listeners'[i] = listeners[i]
        /\ listeners'[leaving] = [listeners[leaving] EXCEPT !.open = FALSE]
    BY <2>1, <2>2
  <2>4. ListenersStay
    BY <2>2, <2>3 DEF ListenersStay, Listeners
  <2>5. /\ Settled' = DOMAIN config \cap DOMAIN owner.new /\ Settled = DOMAIN config \cap DOMAIN owner.new
        /\ Now' = config /\ Now = config
    BY <2>1 DEF Settled, Now
  <2> SUFFICES ASSUME NEW l \in DOMAIN config \cap DOMAIN owner.new PROVE Claim(l, Now[l])'
    BY <2>5 DEF ServedInv
  <2>6. PICK uri \in Uris : uri = config[l]
    BY <2>5, SettledTypes
  <2>7. Claim(l, uri) /\ l \in Locs
    BY <2>5, <2>6, SettledTypes DEF ServedInv
  <2>8. ASSUME Key(l) \notin shared PROVE StaysServed(l)
    <3>1. UNCHANGED <<alias, web, shortcuts>>
      BY <2>1 DEF tableVars
    <3>2. ASSUME l.scheme \in Served, NEW i \in DOMAIN listeners, Present(i), listeners[i].name = l.name
          PROVE  listeners'[i].open
      <4>1. Key(l) = l.name
        BY <2>7, <3>2, Schemes
      <4>2. i # leaving
        BY <2>1, <2>8, <3>2, <4>1 DEF WorkOK
      <4> QED BY <2>3, <3>2, <4>2 DEF Present
    <3> QED BY <3>1, <3>2 DEF StaysServed
  <2>9. Claim(l, uri)'
    BY <2>1, <2>4, <2>7, <2>8, ClaimKept DEF tableVars
  <2> QED BY <2>5, <2>6, <2>9
<1>9. ASSUME NEW j \in DOMAIN listeners, AcceptSteps(j) PROVE ServedInv'
  <2>1. LoopSteps(j) /\ UNCHANGED <<config, owner, tableVars>>
    BY <1>9 DEF AcceptSteps, configVars
  <2>2. node' = node
    BY <2>1 DEF LoopSteps, LoopHead, LoopAccept, LoopFails, LoopEnds
  <2>3. ListenersStay /\ LoopFrame(j)
    BY <2>1, LoopStepFrame DEF LoopFrame, ListenersStay, SInv, IInv
  <2>4. Settled' = Settled /\ Now' = Now
    BY <2>1 DEF Settled, Now
  <2> SUFFICES ASSUME NEW l \in Settled PROVE Claim(l, Now[l])'
    BY <2>4 DEF ServedInv
  <2>5. PICK uri \in Uris : uri = Now[l]
    BY SettledTypes
  <2>6. Claim(l, uri) /\ l \in Locs
    BY <2>5, SettledTypes DEF ServedInv
  <2>7. StaysServed(l)
    <3>1. node.running
      BY DEF WorkOK, Working, Settled
    <3>2. \A i \in DOMAIN listeners : Present(i) => listeners'[i].open \/ listeners'[i].broken
      BY <2>3, <3>1 DEF Present, LoopFrame, Running
    <3> QED BY <2>1, <3>2 DEF StaysServed, tableVars
  <2>8. Claim(l, uri)'
    BY <2>1, <2>2, <2>3, <2>6, <2>7, ClaimKept DEF tableVars
  <2> QED BY <2>4, <2>5, <2>8
<1>10. CASE UNCHANGED <<forwardVars, config, owner, tableVars>>
  <2>1. Settled' = Settled /\ Now' = Now
    BY <1>10 DEF Settled, Now
  <2> QED BY <1>10, <2>1, PassedOn DEF tableVars
<1> QED BY <1>1, <1>2, <1>3, <1>4, <1>5, <1>6, <1>7, <1>8, <1>9, <1>10, StepCases DEF OwnerSteps

THEOREM ServedInductive == Spec => [](WorkOK /\ ServedInv)
<1>1. Init => WorkOK /\ ServedInv
  BY DEF Init, WorkOK, Working, ServedInv, Settled
<1>2. TInv /\ WorkOK /\ ServedInv /\ [Next]_vars => (WorkOK /\ ServedInv)'
  BY WorkInv, ServedStep DEF TInv
<1> QED BY <1>1, <1>2, TypesInductive, PTL DEF Spec

\* Whatever the file was edited to, however often it was reloaded and the service was
\* restarted: a forward of the configuration is served as it says, or AddForward logged an
\* error or a warning for it, or an Accept that failed has ended its loop, or it shared its name
\* (ReloadConfig, AddForward and RemoveForward of service.go).
THEOREM ConfiguredIsServed == Spec => []ServedOrReported
<1>1. ServedInv => ServedOrReported
  BY DEF ServedInv, ServedOrReported, Settled, Now, Claim
<1> QED BY <1>1, ServedInductive, PTL
(***************************************************************************)
(* What is left over.                                                      *)
(***************************************************************************)
\* The local uris that may be in the tables.
Wanted ==
    CASE owner.pc = "up" -> DOMAIN config
      [] owner.pc \in {"start", "add"} -> DOMAIN owner.new
      [] owner.pc = "remove" -> (DOMAIN config \cap DOMAIN owner.new) \cup owner.todo
      [] OTHER -> {}

AliasKnown(n) == alias[n] # NoUri => node.no > 1 \/ \E l \in Wanted : l.name = n /\ l.scheme = "alias"
WebKnown(n) ==
    web[n] # NoWeb => \E l \in Locs : /\ l.scheme = web[n].kind /\ l.at = n
                                      /\ l \in Wanted \/ l.name # n
ListenerKnown(i) ==
    Present(i) /\ forwards[listeners[i].name] = i =>
        \E l \in Locs : /\ l.scheme \in Served /\ l.name = listeners[i].name
                        /\ l \in Wanted \/ l.scheme = "proxy"

LeftInv ==
    /\ node.no = 0 => \A n \in Names : alias[n] = NoUri
    /\ Working => /\ \A n \in Names : AliasKnown(n) /\ WebKnown(n)
                  /\ \A i \in DOMAIN listeners : ListenerKnown(i)

LEMMA ListenerNames ==
    ASSUME SInv, NEW i \in DOMAIN listeners PROVE listeners[i].name \in Names /\ i # 0
<1>1. listeners[i] \in Listeners /\ i # 0
  BY DEF SInv, IInv, ForwardsTypeOK
<1> QED BY <1>1 DEF Listeners

\* A step that wants no less and puts nothing into the tables.
LEMMA LeftKept ==
    ASSUME SInv, LeftInv, Working' => Working, Working' => Wanted \subseteq Wanted',
           node'.no = node.no, UNCHANGED <<alias, web>>,
           \A i \in DOMAIN listeners' :
             /\ i \in DOMAIN listeners /\ listeners'[i].name = listeners[i].name
             /\ Present(i)' => Present(i)
             /\ forwards'[listeners[i].name] \in {0, forwards[listeners[i].name]}
    PROVE  LeftInv'
<1>1. \A i \in DOMAIN listeners' : i # 0
  BY DEF SInv, IInv, ForwardsTypeOK
<1>2. ASSUME Working', NEW n \in Names PROVE AliasKnown(n)' /\ WebKnown(n)'
  BY <1>2 DEF LeftInv, AliasKnown, WebKnown
<1>3. ASSUME Working', NEW i \in DOMAIN listeners' PROVE ListenerKnown(i)'
  BY <1>1, <1>3 DEF LeftInv, ListenerKnown
<1> QED BY <1>2, <1>3 DEF LeftInv

LEMMA LeftSame ==
    ASSUME SInv, LeftInv, Working' => Working, Working' => Wanted \subseteq Wanted',
           UNCHANGED <<forwardVars, alias, web>>
    PROVE  LeftInv'
<1>1. \A i \in DOMAIN listeners' :
        /\ i \in DOMAIN listeners /\ listeners'[i].name = listeners[i].name
        /\ Present(i)' => Present(i)
        /\ forwards'[listeners[i].name] \in {0, forwards[listeners[i].name]}
  BY DEF forwardVars, Present
<1> QED BY <1>1, LeftKept DEF forwardVars

\* What AddForward adds is wanted.
LEMMA LeftAdd ==
    ASSUME SInv, TablesOK, WorkOK, LeftInv, NEW m \in owner.todo, AddForward(m) PROVE LeftInv'
<1>0. /\ m \in Locs /\ m \in DOMAIN owner.new /\ m.name \in Names /\ node' = node
      /\ owner.pc \in {"start", "add"} /\ owner'.pc = owner.pc /\ owner'.new = owner.new
      /\ m.scheme \notin Served => m.at \in Names
  BY AddFrame, OwnerTo, LocTypes DEF SInv
<1>1. Wanted' = DOMAIN owner.new /\ Wanted = DOMAIN owner.new /\ Working /\ Working'
  BY <1>0 DEF Wanted, Working
<1>2. node'.no > 0 /\ node.no > 0 /\ node.no \in Nat
  BY <1>0 DEF WorkOK, SInv, IInv, ForwardsTypeOK
<1>3. CASE AddFails(m)
  BY <1>1, <1>3, LeftSame DEF AddFails
<1>4. CASE m.scheme = "alias" /\ AddAlias(m, owner.new[m]) /\ ~AddFails(m)
  <2>1. /\ UNCHANGED <<forwardVars, web>>
        /\ alias' = [alias EXCEPT ![m.name] = owner.new[m]]
    BY <1>4 DEF AddAlias
  <2>2. ASSUME NEW n \in Names PROVE AliasKnown(n)' /\ WebKnown(n)'
    <3>1. alias'[n] = alias[n] \/ n = m.name
      BY <2>1 DEF TablesOK
    <3> QED BY <1>0, <1>1, <1>4, <2>1, <3>1 DEF LeftInv, AliasKnown, WebKnown
  <2>3. ASSUME NEW i \in DOMAIN listeners' PROVE ListenerKnown(i)'
    BY <1>0, <1>1, <2>1, <2>3 DEF LeftInv, ListenerKnown, Present, forwardVars
  <2> QED BY <1>2, <2>2, <2>3 DEF LeftInv
<1>5. CASE m.scheme \in WebKinds /\ AddWeb(m, owner.new[m]) /\ ~AddFails(m)
  <2> DEFINE entry == [kind |-> m.scheme, uri |-> owner.new[m]]
  <2>1. /\ UNCHANGED <<forwardVars, alias>> /\ web' = [web EXCEPT ![m.at] = entry]
        /\ entry.kind = m.scheme /\ m.at \in Names
    BY <1>0, <1>5 DEF AddWeb, WebKinds, Served
  <2> HIDE DEF entry
  <2>2. ASSUME NEW n \in Names PROVE AliasKnown(n)' /\ WebKnown(n)'
    <3>1. CASE n = m.at
      <4>1. web'[n].kind = m.scheme
        BY <2>1, <3>1 DEF TablesOK
      <4> QED BY <1>0, <1>1, <2>1, <3>1, <4>1 DEF LeftInv, AliasKnown, WebKnown
    <3>2. CASE n # m.at
      <4>1. web'[n] = web[n]
        BY <2>1, <3>2 DEF TablesOK
      <4> QED BY <1>0, <1>1, <2>1, <4>1 DEF LeftInv, AliasKnown, WebKnown
    <3> QED BY <3>1, <3>2
  <2>3. ASSUME NEW i \in DOMAIN listeners' PROVE ListenerKnown(i)'
    BY <1>0, <1>1, <2>1, <2>3 DEF LeftInv, ListenerKnown, Present, forwardVars
  <2> QED BY <1>2, <2>1, <2>2, <2>3 DEF LeftInv, forwardVars
<1>6. CASE m.scheme \in Served /\ AddListener(m, owner.new[m]) /\ ~AddFails(m)
  <2> DEFINE loop == IF m.scheme \in {"tcp", "rdp"} THEN "head" ELSE "library"
             new == Listener(m.name, loop, m.at, owner.new[m])
  <2>1. /\ listeners' = Append(listeners, new) /\ UNCHANGED <<alias, web>>
        /\ forwards' = [forwards EXCEPT ![m.name] = Len(listeners) + 1]
        /\ new.name = m.name
    BY <1>6 DEF AddListener, StartForward, Listener
  <2>2. listeners \in Seq(Listeners) /\ forwards \in [Names -> 0 .. Len(listeners)]
    BY DEF SInv, IInv, ForwardsTypeOK
  <2> HIDE DEF new
  <2>3. ASSUME NEW n \in Names PROVE AliasKnown(n)' /\ WebKnown(n)'
    BY <1>0, <1>1, <2>1 DEF LeftInv, AliasKnown, WebKnown
  <2>4. ASSUME NEW i \in DOMAIN listeners' PROVE ListenerKnown(i)'
    <3>1. CASE listeners'[i].name = m.name
      BY <1>0, <1>1, <1>6, <3>1 DEF ListenerKnown
    <3>2. CASE listeners'[i].name # m.name
      <4>1. i \in DOMAIN listeners /\ listeners'[i] = listeners[i]
        BY <2>1, <2>2, <3>2
      <4>2. listeners[i].name \in Names
        BY <4>1, ListenerNames
      <4>3. forwards'[listeners[i].name] = forwards[listeners[i].name]
        BY <2>1, <2>2, <3>2, <4>1, <4>2
      <4> QED BY <1>0, <1>1, <4>1, <4>3 DEF LeftInv, ListenerKnown, Present
    <3> QED BY <3>1, <3>2
  <2> QED BY <1>2, <2>3, <2>4 DEF LeftInv
<1> QED BY <1>3, <1>4, <1>5, <1>6 DEF AddForward

\* RemoveForward leaves nothing of what is wanted no more but a web forward that has not
\* the name of its host, and a proxy forward.
LEMMA LeftRemove ==
    ASSUME SInv, TablesOK, WorkOK, LeftInv, NEW m \in owner.todo, RemoveForward(m) PROVE LeftInv'
<1>0. /\ m \in Locs /\ m.name \in Names /\ UNCHANGED <<node, listeners, config>>
      /\ owner.pc = "remove" /\ owner'.pc = "remove" /\ owner'.new = owner.new
      /\ owner'.todo = owner.todo \ {m}
  BY RemoveFrame, OwnerTo, LocTypes DEF SInv
<1>1. Wanted \subseteq Wanted' \cup {m} /\ Working /\ Working'
  BY <1>0 DEF Wanted, Working
<1>2. node'.no > 0 /\ node.no > 0
  BY <1>0 DEF WorkOK
<1>3. /\ \A i \in DOMAIN listeners : listeners[i] \in Listeners /\ i # 0
      /\ forwards \in [Names -> 0 .. Len(listeners)]
  BY DEF SInv, IInv, ForwardsTypeOK
<1>4. CASE m.scheme = "alias" /\ alias' = [alias EXCEPT ![m.name] = NoUri] /\ UNCHANGED <<forwardVars, web>>
  <2>1. ASSUME NEW n \in Names PROVE AliasKnown(n)' /\ WebKnown(n)'
    <3>1. alias'[n] = IF n = m.name THEN NoUri ELSE alias[n]
      BY <1>4 DEF TablesOK
    <3>2. web[n] = NoWeb \/ web[n].kind # "alias"
      BY DEF TablesOK, NoWeb, WebKinds
    <3> QED BY <1>0, <1>1, <1>4, <3>1, <3>2 DEF LeftInv, AliasKnown, WebKnown
  <2>2. ASSUME NEW i \in DOMAIN listeners PROVE ListenerKnown(i)'
    BY <1>0, <1>1, <1>4, <2>2 DEF LeftInv, ListenerKnown, Present, forwardVars, Served
  <2> QED BY <1>0, <1>2, <2>1, <2>2 DEF LeftInv
<1>5. CASE m.scheme \in {"socks", "tcp", "rdp"} /\ StopForward(m.name) /\ UNCHANGED <<alias, web>>
  <2>1. forwards' = [forwards EXCEPT ![m.name] = 0]
    BY <1>5 DEF StopForward
  <2>2. ASSUME NEW n \in Names PROVE AliasKnown(n)' /\ WebKnown(n)'
    <3>1. web[n] = NoWeb \/ web[n].kind \notin {"socks", "tcp", "rdp"}
      BY DEF TablesOK, NoWeb, WebKinds
    <3> QED BY <1>0, <1>1, <1>5, <3>1 DEF LeftInv, AliasKnown, WebKnown
  <2>3. ASSUME NEW i \in DOMAIN listeners PROVE ListenerKnown(i)'
    <3>1. listeners[i].name \in Names
      BY <1>3 DEF Listeners
    <3>2. CASE listeners[i].name = m.name
      BY <1>0, <1>3, <2>1, <3>1, <3>2 DEF ListenerKnown
    <3>3. CASE listeners[i].name # m.name
      <4>1. forwards'[listeners[i].name] = forwards[listeners[i].name]
        BY <1>3, <2>1, <3>1, <3>3
      <4> QED BY <1>0, <1>1, <3>3, <4>1 DEF LeftInv, ListenerKnown, Present
    <3> QED BY <3>2, <3>3
  <2> QED BY <1>0, <1>2, <2>2, <2>3 DEF LeftInv
<1>6. CASE /\ m.scheme \notin {"socks", "tcp", "rdp", "alias"}
           /\ web' = [web EXCEPT ![m.name] = NoWeb] /\ UNCHANGED <<forwardVars, alias>>
  <2>1. ASSUME NEW n \in Names PROVE AliasKnown(n)' /\ WebKnown(n)'
    <3>1. web'[n] = IF n = m.name THEN NoWeb ELSE web[n]
      BY <1>6 DEF TablesOK
    <3> QED BY <1>0, <1>1, <1>6, <3>1 DEF LeftInv, AliasKnown, WebKnown
  <2>2. ASSUME NEW i \in DOMAIN listeners PROVE ListenerKnown(i)'
    BY <1>0, <1>1, <1>6, <2>2 DEF LeftInv, ListenerKnown, Present, forwardVars, Served
  <2> QED BY <1>0, <1>2, <2>1, <2>2 DEF LeftInv
<1> QED BY <1>4, <1>5, <1>6 DEF RemoveForward, RemoveBy

LEMMA LeftStep ==
    ASSUME SInv, TablesOK, WorkOK, LeftInv, [Next]_vars PROVE LeftInv'
<1>0. OwnerOK /\ node \in [no : Nat, running : BOOLEAN]
  BY DEF SInv, IInv, ForwardsTypeOK
<1>1. CASE Start
  <2>1. /\ owner'.pc \in {"start", "failed"} /\ web' = [n \in Names |-> NoWeb] /\ alias' = alias
        /\ node'.no = node.no + 1 /\ forwards' = NoForwards /\ listeners' = listeners
    BY <1>0, <1>1, OwnerTo DEF Start, NewProxy
  <2>2. \A i \in DOMAIN listeners : i # 0 /\ listeners[i].name \in Names
    BY ListenerNames
  <2>3. ASSUME NEW n \in Names PROVE AliasKnown(n)' /\ WebKnown(n)'
    <3>1. alias[n] # NoUri => node'.no > 1
      BY <1>0, <2>1 DEF LeftInv
    <3> QED BY <2>1, <3>1 DEF AliasKnown, WebKnown
  <2>4. ASSUME NEW i \in DOMAIN listeners PROVE ListenerKnown(i)'
    BY <2>1, <2>2 DEF ListenerKnown, NoForwards
  <2>5. node'.no # 0
    BY <1>0, <2>1
  <2> QED BY <2>1, <2>3, <2>4, <2>5 DEF LeftInv
<1>2. CASE StartEnds
  <2>1. /\ owner'.pc \in {"up", "failed", "undo"} /\ owner'.new = owner.new
        /\ owner'.pc # "undo" => UNCHANGED forwardVars
        /\ owner.pc = "start" /\ owner.todo = {} /\ UNCHANGED <<config, tableVars>>
    BY <1>0, <1>2, OwnerTo DEF StartEnds
  <2>2. Working' => Working /\ Wanted \subseteq Wanted'
    BY <2>1 DEF Working, Wanted, WorkOK
  <2>3. CASE owner'.pc # "undo"
    BY <2>1, <2>2, <2>3, LeftSame DEF tableVars
  <2>4. CASE owner'.pc = "undo"
    <3>1. node'.no = node.no /\ ~Working'
      BY <1>0, <1>2, <2>4 DEF StartEnds, CloseRunning, Working
    <3> QED BY <2>1, <3>1 DEF LeftInv, tableVars
  <2> QED BY <2>3, <2>4
<1>3. CASE ReloadConfig
  <2>1. /\ owner'.pc = "remove" /\ owner'.new = file.data /\ owner.pc = "up"
        /\ owner'.todo = DOMAIN config \ DOMAIN file.data
        /\ UNCHANGED <<forwardVars, config, alias, web>>
    BY <1>0, <1>3, OwnerTo DEF ReloadConfig
  <2>2. Wanted' = DOMAIN config /\ Wanted = DOMAIN config /\ Working
    BY <2>1 DEF Wanted, Working
  <2> QED BY <2>1, <2>2, LeftSame
<1>4. CASE ReloadAdds
  <2>1. /\ owner'.pc = "add" /\ owner'.new = owner.new /\ owner.pc = "remove" /\ owner.todo = {}
        /\ UNCHANGED <<forwardVars, config, tableVars>>
    BY <1>0, <1>4, OwnerTo DEF ReloadAdds
  <2>2. Wanted' = DOMAIN owner.new /\ Wanted = DOMAIN config \cap DOMAIN owner.new /\ Working
    BY <2>1 DEF Wanted, Working
  <2> QED BY <2>1, <2>2, LeftSame DEF tableVars
<1>5. CASE ReloadEnds
  <2>1. /\ owner'.pc = "up" /\ owner.pc = "add" /\ config' = owner.new
        /\ UNCHANGED <<forwardVars, alias, web>>
    BY <1>0, <1>5, OwnerTo DEF ReloadEnds
  <2>2. Wanted' = DOMAIN owner.new /\ Wanted = DOMAIN owner.new /\ Working
    BY <2>1 DEF Wanted, Working
  <2> QED BY <2>1, <2>2, LeftSame
<1>6. CASE StartUndone \/ Stop \/ StopEnds
  <2>1. owner'.pc \in {"failed", "close", "down"} /\ node'.no = node.no /\ alias' = alias
    BY <1>0, <1>6, OwnerTo DEF StartUndone, Stop, StopEnds, CloseRunning, CloseForwards, tableVars
  <2> QED BY <2>1 DEF LeftInv, Working
<1>7. CASE RemoveCloses
  <2>1. /\ leaving # 0 /\ UNCHANGED <<node, forwards, config, owner, tableVars>>
        /\ listeners' = [listeners EXCEPT ![leaving].open = FALSE]
    BY <1>7 DEF RemoveCloses, StopForwardClose, configVars
  <2>2. leaving \in DOMAIN listeners /\ \A i \in DOMAIN listeners : listeners[i] \in Listeners
    BY <2>1 DEF SInv, IInv, ForwardsTypeOK
  <2>3. /\ DOMAIN listeners' = DOMAIN listeners
        /\ \A i \in DOMAIN listeners : i # leaving => listeners'[i] = listeners[i]
        /\ listeners'[leaving] = [listeners[leaving] EXCEPT !.open = FALSE]
    BY <2>1, <2>2
  <2>4. \A i \in DOMAIN listeners : /\ listeners'[i].name = listeners[i].name
                                    /\ Present(i)' => Present(i)
    BY <2>1, <2>2, <2>3 DEF Listeners, Present
  <2>5. Wanted' = Wanted /\ Working' = Working
    BY <2>1 DEF Wanted, Working
  <2> QED BY <2>1, <2>3, <2>4, <2>5, LeftKept DEF tableVars
<1>8. ASSUME NEW j \in DOMAIN listeners, AcceptSteps(j) PROVE LeftInv'
  <2>1. LoopSteps(j) /\ UNCHANGED <<config, owner, tableVars>>
    BY <1>8 DEF AcceptSteps, configVars
  <2>2. /\ node' = node
        /\ \A n \in Names : forwards'[n] \in {0, forwards[n]}
    BY <2>1 DEF LoopSteps, LoopHead, LoopAccept, LoopFails, LoopEnds, SInv, IInv, ForwardsTypeOK
  <2>3. LoopFrame(j) /\ DOMAIN listeners' = DOMAIN listeners
    BY <2>1, LoopStepFrame DEF SInv, IInv
  <2>4. \A i \in DOMAIN listeners : listeners[i].name \in Names
    BY ListenerNames
  <2>5. \A i \in DOMAIN listeners : /\ listeners'[i].name = listeners[i].name
                                    /\ Present(i)' => Present(i)
    BY <2>2, <2>3 DEF LoopFrame, Present
  <2>6. Wanted' = Wanted /\ Working' = Working
    BY <2>1 DEF Wanted, Working
  <2> QED BY <2>1, <2>2, <2>3, <2>4, <2>5, <2>6, LeftKept DEF tableVars
<1>9. CASE UNCHANGED <<forwardVars, config, owner, tableVars>>
  <2>1. Wanted' = Wanted /\ Working' = Working
    BY <1>9 DEF Wanted, Working
  <2> QED BY <1>9, <2>1, LeftSame DEF tableVars
<1> QED BY <1>1, <1>2, <1>3, <1>4, <1>5, <1>6, <1>7, <1>8, <1>9, LeftAdd, LeftRemove, StepCases
        DEF OwnerSteps

THEOREM LeftInductive == Spec => []LeftInv
<1>1. Init => LeftInv
  BY DEF Init, ForwardsInit, LeftInv, Working
<1>2. TInv /\ WorkOK /\ LeftInv /\ [Next]_vars => LeftInv'
  BY LeftStep DEF TInv
<1> QED BY <1>1, <1>2, ServedInductive, TypesInductive, PTL DEF Spec

\* What is served without being configured is an alias from before a restart, a web
\* forward whose host is not its alias, a proxy forward, or a listener lost to an old
\* loop; after Stop it is only the last.
THEOREM OnlyKnownLeftovers == Spec => []LeftoversKnown
<1>1. TInv /\ LeftInv => LeftoversKnown
  <2> SUFFICES ASSUME TInv, LeftInv PROVE LeftoversKnown
    OBVIOUS
  <2>1. SInv /\ \A i \in DOMAIN listeners : listeners[i].name \in Names /\ i # 0
    BY ListenerNames DEF TInv
  <2>2. ASSUME owner.pc = "up"
        PROVE  /\ \A n \in Names :
                    /\ alias[n] # NoUri =>
                         node.no > 1 \/ \E l \in DOMAIN config : l.name = n /\ l.scheme = "alias"
                    /\ web[n] # NoWeb =>
                         \E l \in Locs : /\ l.scheme = web[n].kind /\ l.at = n
                                         /\ l \in DOMAIN config \/ l.name # n
               /\ \A i \in DOMAIN listeners : Present(i) /\ ~Lost(i) =>
                    \E l \in Locs : /\ l.scheme \in Served /\ l.name = listeners[i].name
                                    /\ l \in DOMAIN config \/ l.scheme = "proxy"
    <3>1. Wanted = DOMAIN config /\ Working /\ leaving = 0
      BY <2>1, <2>2 DEF Wanted, Working, SInv, ProtocolOK
    <3>2. \A n \in Names : AliasKnown(n) /\ WebKnown(n)
      BY <3>1 DEF LeftInv
    <3>3. ASSUME NEW i \in DOMAIN listeners, Present(i), ~Lost(i)
          PROVE  \E l \in Locs : /\ l.scheme \in Served /\ l.name = listeners[i].name
                                 /\ l \in DOMAIN config \/ l.scheme = "proxy"
      <4>1. forwards[listeners[i].name] = i
        BY <2>1, <3>1, <3>3 DEF Present, Lost
      <4> QED BY <3>1, <3>3, <4>1 DEF LeftInv, ListenerKnown
    <3> QED BY <3>1, <3>2, <3>3 DEF AliasKnown, WebKnown
  <2>3. ASSUME owner.pc = "down", NEW i \in DOMAIN listeners, listeners[i].open PROVE Lost(i)
    BY <2>1, <2>3 DEF SInv, ProtocolOK, Lost
  <2> QED BY <2>2, <2>3 DEF LeftoversKnown
<1> QED BY <1>1, TypesInductive, LeftInductive, PTL
(***************************************************************************)
(* What a name is dialed to.                                               *)
(***************************************************************************)
\* Only a look at a table finds what to try.
LEMMA Looks ==
    ASSUME TInv, Next, dial'.pc = "try", dial.pc \in {"alias", "web"}, Head(dial.left) \in Names,
           NEW n, n = Head(dial.left)
    PROVE  \/ dial.pc = "alias" /\ alias[n] # NoUri /\ dial'.target = alias[n]
           \/ dial.pc = "web" /\ web[n] # NoWeb /\ dial'.target = web[n].uri
<1>0. dial \in Dials
  BY DEF TInv, DialOK
<1>1. ASSUME NEW target, Try(target) PROVE dial'.target = target
  BY <1>0, <1>1 DEF Try, Dials
<1>2. CASE LookAlias
  <2>1. dial.pc = "alias" /\ n \notin Uris
    BY <1>2, NamesAssumption DEF LookAlias
  <2>2. CASE alias[n] = NoUri
    BY <1>0, <1>2, <2>1, <2>2 DEF LookAlias, Dials
  <2>3. CASE alias[n] # NoUri
    BY <1>1, <1>2, <2>1, <2>3 DEF LookAlias
  <2> QED BY <2>2, <2>3
<1>3. CASE LookWeb
  <2>1. dial.pc = "web"
    BY <1>3 DEF LookWeb
  <2>2. CASE web[n] = NoWeb
    <3> DEFINE left == Tail(dial.left)
               pc == IF Len(dial.left) > 1 THEN "alias" ELSE IF ~dial.asked THEN "find" ELSE "fail"
               raw == dial.raw
    <3>1. dial' = [dial EXCEPT !.raw = raw, !.left = left, !.target = NoUri, !.pc = pc]
      BY <1>3, <2>2 DEF LookWeb, TryNext
    <3>2. pc # "try"
      OBVIOUS
    <3> HIDE DEF left, pc, raw
    <3>3. dial'.pc = pc
      BY <1>0, <3>1 DEF Dials
    <3> QED BY <3>2, <3>3
  <2>3. CASE web[n] # NoWeb
    BY <1>1, <1>3, <2>1, <2>3 DEF LookWeb
  <2> QED BY <2>2, <2>3
<1>4. CASE \/ Find \/ TryDial \/ DialReturns \/ WaitReturns \/ DialBegin \/ SessionEnds
           \/ \E m \in Names : ProcName(m)
  BY <1>4 DEF Find, TryDial, DialReturns, WaitReturns, DialBegin, ProcName, SessionEnds
<1>5. CASE UNCHANGED dial
  BY <1>5
<1> QED BY <1>2, <1>3, <1>4, <1>5
        DEF Next, DialSteps, OwnerSteps, Start, StartEnds, StartUndone, ReloadConfig, ReloadAdds, ReloadEnds,
            Stop, StopEnds, RemoveCloses, AddForward, RemoveForward, RemoveBy, EditFile, AcceptSteps

LEMMA DialsWhatIsConfigured ==
    ASSUME TInv, WorkOK, ServedInv, LeftInv, Next, dial'.pc = "try", owner.pc = "up",
           NEW n, n = Head(dial.left), n \in Names \ shared,
           NEW l \in DOMAIN config \ failed, FoundAt(l, dial.pc), Key(l) = n
    PROVE  dial'.target = config[l]
<1>1. l \in Locs /\ config \in Configs /\ SInv /\ TablesOK
  BY ConfigsAssumption DEF TInv, SInv, OwnerOK
<1>2. l.scheme \in {"alias"} \cup WebKinds /\ l.scheme \notin Served
  BY <1>1, Schemes DEF FoundAt
<1>3. IsServed(l, config[l])
  <2>1. l \in Settled /\ Now = config
    BY DEF Settled, Now
  <2> QED BY <1>2, <2>1 DEF ServedInv, Claim
<1>4. \/ dial.pc = "alias" /\ alias[n] # NoUri /\ dial'.target = alias[n]
      \/ dial.pc = "web" /\ web[n] # NoWeb /\ dial'.target = web[n].uri
  BY Looks DEF FoundAt
<1>5. CASE l.scheme = "alias"
  <2>1. dial.pc = "alias" /\ l.name = n
    BY <1>1, <1>5, Schemes DEF FoundAt
  <2>2. alias[n] = config[l]
    BY <1>1, <1>3, <1>5, <2>1, Schemes DEF IsServed
  <2> QED BY <1>4, <2>1, <2>2
<1>6. CASE l.scheme \in WebKinds
  <2>1. l.at = n /\ l.scheme # "alias"
    BY <1>1, <1>6, Schemes
  <2>2. web[n].uri = config[l]
    BY <1>2, <1>3, <1>6, <2>1 DEF IsServed
  <2>3. CASE dial.pc = "web"
    BY <1>4, <2>2, <2>3
  <2>4. CASE dial.pc = "alias"
    <3>1. node.no = 1 /\ alias[n] # NoUri
      BY <1>4, <2>1, <2>4 DEF FoundAt
    <3>2. Working /\ Wanted = DOMAIN config
      BY DEF Working, Wanted
    <3>3. PICK m \in DOMAIN config : m.name = n /\ m.scheme = "alias"
      BY <3>1, <3>2 DEF LeftInv, AliasKnown
    <3>4. Key(l) \in SharedIn(config)
      BY <2>1, <3>3, SharedKey
    <3> QED BY <3>4 DEF WorkOK
  <2> QED BY <1>4, <2>3, <2>4
<1> QED BY <1>2, <1>5, <1>6

\* A dial by name goes where the configuration says, whatever the name stood for before:
\* to the alias, or to the web forward that is under it (dialOne of service.go).
THEOREM DialsAsConfigured == Spec => DialsConfigured
<1>1. TInv /\ WorkOK /\ ServedInv /\ LeftInv /\ [Next]_vars =>
        [LET n == Head(dial.left) IN
         dial'.pc = "try" /\ owner.pc = "up" /\ n \in Names \ shared
         => \A l \in DOMAIN config \ failed :
              FoundAt(l, dial.pc) /\ Key(l) = n => dial'.target = config[l]]_vars
  BY DialsWhatIsConfigured
<1> QED BY <1>1, TypesInductive, ServedInductive, LeftInductive, PTL DEF Spec, DialsConfigured
=============================================================================
