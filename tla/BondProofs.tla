----------------------------- MODULE BondProofs -----------------------------
(***************************************************************************)
(* Proofs about Bond, for any slots and any number of losses, refusals and *)
(* dials: type correctness, that a slot is logged in once at a time, that  *)
(* the master's registry keeps every live channel and selects registered   *)
(* ones, and what Proxy.Close leaves open.                                 *)
(***************************************************************************)
EXTENDS Bond, SequenceTheorems, TLAPS

(***************************************************************************)
(* The inductive invariant.                                                *)
(***************************************************************************)
Ended   == {"leaked", "done", "forgotten"}
Reading == {"read", "unregister", "onclose"}

\* At the slaver only the last connection of a slot is in use, and what it is at goes
\* with what the login of the slot is at; the registry has it while it is read.
SlotOK(s) ==
    /\ \A i \in DOMAIN conn[s] : i # Last(s) => conn[s][i].slaver \in Ended
    /\ login[s] \in {"check", "dial"} => \A i \in DOMAIN conn[s] : conn[s][i].slaver \in Ended
    /\ login[s] \in {"join", "register", "context"} => Last(s) > 0 /\ ~conn[s][Last(s)].tagged
    /\ login[s] = "join" => conn[s][Last(s)].slaver = "join"
    /\ login[s] = "register" => conn[s][Last(s)].slaver = "joined"
    /\ login[s] = "context" => conn[s][Last(s)].slaver \in Ended \cup Reading
    /\ login[s] = "none" => \A i \in DOMAIN conn[s] : conn[s][i].slaver \in Ended \cup Reading
    /\ \A i \in DOMAIN conn[s] : conn[s][i].slaver = "read" => sreg[s] = i
    /\ sreg[s] # 0 => sreg[s] \in DOMAIN conn[s] /\ conn[s][sreg[s]].slaver \in {"read", "unregister"}

\* After Proxy.Close nobody begins to log in.
CloseOK ==
    /\ stopping # "no" => ~running
    /\ stopping = "done" => \A s \in Slots : login[s] \in {"dial", "join", "register"} => s \in env.late
    /\ ClosedUnlessLate

\* At the master a bond that was dropped is empty, and a live channel is in the bond or
\* replaced by a login that will close it.
Accepted == {"replace", "back", "read"}
Replaced(s, i) == \E j \in DOMAIN conn[s] : conn[s][j].master = "replace" /\ conn[s][j].old = i

BondOK ==
    /\ bond = 0 \/ bond \in DOMAIN bonds
    /\ \A b \in DOMAIN bonds : b # bond => bonds[b] = Nobody
MasterOK(s) ==
    /\ Registered(s) # 0 => /\ Registered(s) \in DOMAIN conn[s]
                            /\ conn[s][Registered(s)].master \in Accepted \cup {"unregister"}
    /\ \A i \in DOMAIN conn[s] :
         /\ conn[s][i].master = "replace" => conn[s][i].old # i
         /\ conn[s][i].alive /\ conn[s][i].master \in Accepted => Registered(s) = i \/ Replaced(s, i)

SelOK ==
    /\ sel.pc = "pick" => sel.bond \in DOMAIN bonds
    /\ sel.pc = "write" => sel.slot \in Slots /\ sel.no \in DOMAIN conn[sel.slot]

IInv ==
    /\ TypeOK
    /\ \A s \in Slots : SlotOK(s) /\ MasterOK(s)
    /\ CloseOK /\ BondOK /\ SelOK

(***************************************************************************)
(* Changes of conn.                                                        *)
(***************************************************************************)
Conns == [Slots -> Seq(ConnStates)]

LEMMA ConnSet ==
    ASSUME conn \in Conns, NEW s \in Slots, NEW i \in DOMAIN conn[s], NEW c \in ConnStates,
           conn' = [conn EXCEPT ![s] = [conn[s] EXCEPT ![i] = c]]
    PROVE  /\ conn' \in Conns
           /\ \A t \in Slots : Len(conn'[t]) = Len(conn[t]) /\ DOMAIN conn'[t] = DOMAIN conn[t]
           /\ conn'[s][i] = c
           /\ \A t \in Slots : \A j \in DOMAIN conn[t] : t # s \/ j # i => conn'[t][j] = conn[t][j]
<1>1. conn[s] \in Seq(ConnStates)
  BY DEF Conns
<1> DEFINE q == [conn[s] EXCEPT ![i] = c]
<1>2. q \in Seq(ConnStates) /\ Len(q) = Len(conn[s]) /\ DOMAIN q = DOMAIN conn[s] /\ q[i] = c
      /\ \A j \in DOMAIN conn[s] : j # i => q[j] = conn[s][j]
  BY <1>1
<1>3. conn' = [conn EXCEPT ![s] = q]
  OBVIOUS
<1> HIDE DEF q
<1> QED BY <1>2, <1>3 DEF Conns

\* What changes nothing of what the slaver's side looks at, and nothing of the master's.
SlaverSame ==
    \A t \in Slots : /\ Len(conn'[t]) = Len(conn[t]) /\ DOMAIN conn'[t] = DOMAIN conn[t]
                     /\ \A j \in DOMAIN conn[t] : /\ conn'[t][j].slaver = conn[t][j].slaver
                                                  /\ conn'[t][j].tagged = conn[t][j].tagged
                                                  /\ conn'[t][j].alive => conn[t][j].alive
MasterSame ==
    \A t \in Slots : /\ DOMAIN conn'[t] = DOMAIN conn[t]
                     /\ \A j \in DOMAIN conn[t] : /\ conn'[t][j].master = conn[t][j].master
                                                  /\ conn'[t][j].old = conn[t][j].old
                                                  /\ conn'[t][j].alive => conn[t][j].alive

LEMMA SlaverKeeps ==
    ASSUME IInv, SlaverSame, UNCHANGED <<running, stopping, login, sreg>>, env'.late = env.late
    PROVE  (\A s \in Slots : SlotOK(s)') /\ CloseOK'
<1>1. ASSUME NEW s \in Slots PROVE SlotOK(s)'
  <2>1. SlotOK(s)
    BY DEF IInv
  <2>2. /\ Len(conn'[s]) = Len(conn[s]) /\ DOMAIN conn'[s] = DOMAIN conn[s]
        /\ \A j \in DOMAIN conn[s] : /\ conn'[s][j].slaver = conn[s][j].slaver
                                     /\ conn'[s][j].tagged = conn[s][j].tagged
    BY DEF SlaverSame
  <2>3. Last(s) > 0 => Last(s) \in DOMAIN conn[s]
    BY DEF IInv, TypeOK, Last
  <2> QED BY <2>1, <2>2, <2>3 DEF SlotOK, Last
<1>2. CloseOK'
  BY DEF IInv, CloseOK, ClosedUnlessLate, SlaverSame
<1> QED BY <1>1, <1>2

LEMMA MasterKeeps ==
    ASSUME IInv, MasterSame, UNCHANGED <<bond, bonds>>
    PROVE  (\A s \in Slots : MasterOK(s)') /\ BondOK'
<1>1. ASSUME NEW s \in Slots PROVE MasterOK(s)'
  <2>1. MasterOK(s) /\ Registered(s)' = Registered(s)
    BY DEF IInv, Registered
  <2>2. /\ DOMAIN conn'[s] = DOMAIN conn[s]
        /\ \A j \in DOMAIN conn[s] : /\ conn'[s][j].master = conn[s][j].master
                                     /\ conn'[s][j].old = conn[s][j].old
                                     /\ conn'[s][j].alive => conn[s][j].alive
    BY DEF MasterSame
  <2>3. \A i : Replaced(s, i) => Replaced(s, i)'
    BY <2>2 DEF Replaced
  <2> QED BY <2>1, <2>2, <2>3 DEF MasterOK
<1>2. BondOK'
  BY DEF IInv, BondOK
<1> QED BY <1>1, <1>2

LEMMA SelKeeps ==
    ASSUME IInv, UNCHANGED sel, UNCHANGED bonds,
           \A t \in Slots : DOMAIN conn[t] \subseteq DOMAIN conn'[t]
    PROVE  SelOK'
BY DEF IInv, SelOK

LEMMA InitInv == ASSUME Init PROVE IInv
<1>1. TypeOK
  <2>1. <<>> \in Seq(ConnStates) /\ <<>> \in Seq([Slots -> Nat])
    OBVIOUS
  <2> QED BY <2>1 DEF Init, TypeOK, Nobody
<1>2. \A s \in Slots : conn[s] = <<>> /\ Len(conn[s]) = 0 /\ DOMAIN conn[s] = {} /\ sreg[s] = 0
  BY DEF Init, Nobody
<1>3. \A s \in Slots : SlotOK(s) /\ MasterOK(s)
  BY <1>2 DEF Init, SlotOK, MasterOK, Registered
<1>4. CloseOK /\ BondOK /\ SelOK
  BY <1>2 DEF Init, CloseOK, ClosedUnlessLate, BondOK, SelOK
<1> QED BY <1>1, <1>3, <1>4 DEF IInv

(***************************************************************************)
(* The slaver's login.                                                     *)
(***************************************************************************)
LEMMA Typed ==
    ASSUME IInv, NEW s \in Slots
    PROVE  /\ TypeOK /\ conn \in Conns /\ conn[s] \in Seq(ConnStates) /\ Last(s) \in Nat
           /\ DOMAIN conn[s] = 1 .. Last(s) /\ SlotOK(s) /\ MasterOK(s)
           /\ \A i \in DOMAIN conn[s] : conn[s][i] \in ConnStates
           /\ login[s] \in {"join", "register", "context"} => Last(s) \in DOMAIN conn[s]
<1>1. conn \in Conns /\ conn[s] \in Seq(ConnStates)
  BY DEF IInv, TypeOK, Conns
<1>2. Last(s) \in Nat /\ DOMAIN conn[s] = 1 .. Last(s) /\ \A i \in DOMAIN conn[s] : conn[s][i] \in ConnStates
  BY <1>1 DEF Last
<1>3. TypeOK /\ SlotOK(s) /\ MasterOK(s)
  BY DEF IInv
<1>4. login[s] \in {"join", "register", "context"} => Last(s) > 0
  BY <1>3 DEF SlotOK
<1> QED BY <1>1, <1>2, <1>3, <1>4

\* A step of one slot that leaves the other slots to themselves.
LEMMA SlotsOK ==
    ASSUME IInv, NEW s \in Slots, SlotOK(s)',
           \A t \in Slots \ {s} : conn'[t] = conn[t] /\ login'[t] = login[t] /\ sreg'[t] = sreg[t]
    PROVE  \A t \in Slots : SlotOK(t)'
<1> SUFFICES ASSUME NEW t \in Slots, t # s PROVE SlotOK(t)'
  OBVIOUS
<1>1. conn'[t] = conn[t] /\ login'[t] = login[t] /\ sreg'[t] = sreg[t] /\ SlotOK(t)
  BY DEF IInv
<1> QED BY <1>1 DEF SlotOK, Last

LEMMA EventOK ==
    ASSUME IInv, Event
    PROVE  env' \in [events : Nat, late : SUBSET Slots] /\ env'.late = env.late
<1>1. env \in [events : Nat, late : SUBSET Slots]
  BY DEF IInv, TypeOK
<1> DEFINE k == env.events + 1
<1>2. k \in Nat
  BY <1>1
<1>3. env' = [env EXCEPT !.events = k]
  BY DEF Event
<1> HIDE DEF k
<1> QED BY <1>1, <1>2, <1>3

LEMMA CheckInv ==
    ASSUME IInv, NEW s \in Slots, ReconnectCheck(s) PROVE IInv'
<1>1. /\ login[s] = "check" /\ login' = [login EXCEPT ![s] = IF running THEN "dial" ELSE "none"]
      /\ UNCHANGED <<running, stopping, conn, sreg, bond, bonds, sel, env>>
  BY DEF ReconnectCheck
<1>2. TypeOK'
  BY <1>1 DEF IInv, TypeOK
<1>3. /\ login'[s] = IF running THEN "dial" ELSE "none"
      /\ \A t \in Slots \ {s} : login'[t] = login[t]
  BY <1>1 DEF IInv, TypeOK
<1>4. SlotOK(s)'
  BY <1>1, <1>3, Typed DEF SlotOK, Last
<1>5. \A t \in Slots : SlotOK(t)'
  BY <1>1, <1>3, <1>4, SlotsOK
<1>6. CloseOK'
  BY <1>1, <1>3 DEF IInv, CloseOK, ClosedUnlessLate
<1>7. (\A t \in Slots : MasterOK(t)') /\ BondOK' /\ SelOK'
  BY <1>1, MasterKeeps, SelKeeps DEF MasterSame
<1> QED BY <1>2, <1>5, <1>6, <1>7 DEF IInv

LEMMA ConnAppend ==
    ASSUME IInv, NEW s \in Slots, conn' = [conn EXCEPT ![s] = Append(@, NewConn)]
    PROVE  /\ conn' \in Conns /\ NewConn \in ConnStates
           /\ Len(conn'[s]) = Last(s) + 1 /\ conn'[s][Last(s) + 1] = NewConn
           /\ DOMAIN conn'[s] = 1 .. Last(s) + 1
           /\ \A j \in DOMAIN conn[s] : conn'[s][j] = conn[s][j]
           /\ \A t \in Slots \ {s} : conn'[t] = conn[t]
<1>1. NewConn \in ConnStates
  <2>1. <<>> \in Seq({"back", "refused", "dial"})
    OBVIOUS
  <2> QED BY <2>1 DEF NewConn, ConnStates
<1>2. conn \in Conns /\ conn[s] \in Seq(ConnStates) /\ Last(s) = Len(conn[s])
  BY Typed DEF Last
<1> DEFINE q == Append(conn[s], NewConn)
<1>3. /\ q \in Seq(ConnStates) /\ Len(q) = Last(s) + 1 /\ q[Last(s) + 1] = NewConn
      /\ DOMAIN q = 1 .. Last(s) + 1
      /\ \A j \in DOMAIN conn[s] : q[j] = conn[s][j]
  BY <1>1, <1>2, AppendProperties
<1>4. conn' = [conn EXCEPT ![s] = q]
  OBVIOUS
<1> HIDE DEF q
<1> QED BY <1>1, <1>2, <1>3, <1>4 DEF Conns

LEMMA DialInv ==
    ASSUME IInv, NEW s \in Slots, LoginDial(s) PROVE IInv'
<1>0. login[s] = "dial" /\ UNCHANGED <<running, stopping, sreg, bond, bonds, sel>>
  BY DEF LoginDial
<1>1. CASE conn' = [conn EXCEPT ![s] = Append(@, NewConn)] /\ login' = [login EXCEPT ![s] = "join"]
           /\ UNCHANGED env
  <2>1. /\ conn' \in Conns /\ NewConn \in ConnStates
        /\ Len(conn'[s]) = Last(s) + 1 /\ conn'[s][Last(s) + 1] = NewConn
        /\ DOMAIN conn'[s] = 1 .. Last(s) + 1
        /\ \A j \in DOMAIN conn[s] : conn'[s][j] = conn[s][j]
        /\ \A t \in Slots \ {s} : conn'[t] = conn[t]
    BY <1>1, ConnAppend
  <2>2. login'[s] = "join" /\ \A t \in Slots \ {s} : login'[t] = login[t]
    BY <1>1 DEF IInv, TypeOK
  <2>3. Last(s) \in Nat /\ DOMAIN conn[s] = 1 .. Last(s) /\ SlotOK(s) /\ MasterOK(s)
    BY Typed
  <2>4. TypeOK'
    BY <1>0, <1>1, <2>1 DEF IInv, TypeOK, Conns
  <2>n. NewConn.slaver = "join" /\ NewConn.master = "login" /\ ~NewConn.tagged
    BY DEF NewConn
  <2>5. SlotOK(s)'
    <3>1. \A i \in DOMAIN conn'[s] : i = Last(s) + 1 \/ i \in DOMAIN conn[s]
      BY <2>1, <2>3
    <3>2. \A i \in DOMAIN conn[s] : conn'[s][i].slaver \in Ended
      BY <1>0, <2>1, <2>3 DEF SlotOK
    <3>3. sreg'[s] = 0
      BY <1>0, <2>3 DEF SlotOK, Ended
    <3>4. conn'[s][Last(s) + 1].slaver = "join" /\ ~conn'[s][Last(s) + 1].tagged /\ Last(s)' = Last(s) + 1 /\ Last(s) + 1 > 0
      BY <2>1, <2>3, <2>n DEF Last
    <3> QED BY <2>2, <3>1, <3>2, <3>3, <3>4 DEF SlotOK, Ended
  <2>6. \A t \in Slots : SlotOK(t)'
    BY <1>0, <2>1, <2>2, <2>5, SlotsOK
  <2>7. CloseOK'
    <3>1. \A t \in Slots : \A i \in DOMAIN conn'[t] : conn'[t][i].slaver = "read" =>
            i \in DOMAIN conn[t] /\ conn'[t][i] = conn[t][i]
      <4> SUFFICES ASSUME NEW t \in Slots, NEW i \in DOMAIN conn'[t], conn'[t][i].slaver = "read"
                   PROVE  i \in DOMAIN conn[t] /\ conn'[t][i] = conn[t][i]
        OBVIOUS
      <4>1. CASE t = s
        <5>1. i # Last(s) + 1
          BY <2>1, <2>n, <4>1
        <5>2. i \in 1 .. Last(s) + 1
          BY <2>1, <4>1
        <5>3. i \in DOMAIN conn[s]
          BY <2>3, <5>1, <5>2
        <5> QED BY <2>1, <4>1, <5>3
      <4>2. CASE t # s
        BY <2>1, <4>2
      <4> QED BY <4>1, <4>2
    <3>2. stopping = "done" => s \in env.late
      BY <1>0 DEF IInv, CloseOK
    <3> QED BY <1>0, <1>1, <2>2, <3>1, <3>2 DEF IInv, CloseOK, ClosedUnlessLate
  <2>8. ASSUME NEW t \in Slots PROVE MasterOK(t)'
    <3>1. CASE t = s
      <4>1. Registered(s)' = Registered(s)
        BY <1>0 DEF Registered
      <4>2. \A i \in DOMAIN conn'[s] : i = Last(s) + 1 \/ i \in DOMAIN conn[s]
        BY <2>1, <2>3
      <4>3. \A i \in DOMAIN conn[s] : i \in DOMAIN conn'[s] /\ conn'[s][i] = conn[s][i]
        BY <2>1, <2>3
      <4>4. \A i : Replaced(s, i) => Replaced(s, i)'
        BY <4>3 DEF Replaced
      <4>5. conn'[s][Last(s) + 1].master = "login"
        BY <2>1, <2>n
      <4>6. MasterOK(s)'
        BY <2>3, <4>1, <4>2, <4>3, <4>4, <4>5 DEF MasterOK, Accepted
      <4> QED BY <3>1, <4>6
    <3>2. CASE t # s
      BY <1>0, <2>1, <3>2 DEF IInv, MasterOK, Registered, Replaced
    <3> QED BY <3>1, <3>2
  <2>9. BondOK' /\ SelOK'
    <3>1. \A t \in Slots : DOMAIN conn[t] \subseteq DOMAIN conn'[t]
      BY <2>1, <2>3
    <3> QED BY <1>0, <3>1, SelKeeps DEF IInv, BondOK
  <2> QED BY <2>4, <2>6, <2>7, <2>8, <2>9 DEF IInv
<1>2. CASE Event /\ login' = [login EXCEPT ![s] = "check"] /\ UNCHANGED conn
  <2>1. login'[s] = "check" /\ \A t \in Slots \ {s} : login'[t] = login[t]
    BY <1>2 DEF IInv, TypeOK
  <2>2. env' \in [events : Nat, late : SUBSET Slots] /\ env'.late = env.late
    BY <1>2, EventOK
  <2>3. TypeOK'
    BY <1>0, <1>2, <2>2 DEF IInv, TypeOK
  <2>4. SlotOK(s)'
    BY <1>0, <1>2, <2>1, Typed DEF SlotOK, Last
  <2>5. \A t \in Slots : SlotOK(t)'
    BY <1>0, <1>2, <2>1, <2>4, SlotsOK
  <2>6. CloseOK'
    BY <1>0, <1>2, <2>1, <2>2 DEF IInv, CloseOK, ClosedUnlessLate
  <2>7. (\A t \in Slots : MasterOK(t)') /\ BondOK' /\ SelOK'
    BY <1>0, <1>2, MasterKeeps, SelKeeps DEF MasterSame
  <2> QED BY <2>3, <2>5, <2>6, <2>7 DEF IInv
<1> QED BY <1>1, <1>2 DEF LoginDial

\* The slaver's side of one connection changes.
LEMMA SlaverSets ==
    ASSUME IInv, NEW s \in Slots, NEW i \in DOMAIN conn[s], NEW c \in ConnStates,
           conn' = [conn EXCEPT ![s] = [conn[s] EXCEPT ![i] = c]],
           c.master = conn[s][i].master, c.old = conn[s][i].old, c.alive = conn[s][i].alive,
           UNCHANGED <<bond, bonds, sel>>
    PROVE  /\ conn' \in Conns
           /\ Last(s)' = Last(s) /\ DOMAIN conn'[s] = DOMAIN conn[s] /\ conn'[s][i] = c
           /\ \A j \in DOMAIN conn[s] : j # i => conn'[s][j] = conn[s][j]
           /\ \A t \in Slots \ {s} : conn'[t] = conn[t]
           /\ (\A t \in Slots : MasterOK(t)') /\ BondOK' /\ SelOK'
<1>1. /\ conn' \in Conns
      /\ \A t \in Slots : Len(conn'[t]) = Len(conn[t]) /\ DOMAIN conn'[t] = DOMAIN conn[t]
      /\ conn'[s][i] = c
      /\ \A t \in Slots : \A j \in DOMAIN conn[t] : t # s \/ j # i => conn'[t][j] = conn[t][j]
  BY Typed, ConnSet
<1>2. MasterSame
  BY <1>1 DEF MasterSame
<1>3. (\A t \in Slots : MasterOK(t)') /\ BondOK' /\ SelOK'
  BY <1>1, <1>2, MasterKeeps, SelKeeps
<1>4. \A t \in Slots \ {s} : conn'[t] = conn[t]
  BY Typed DEF Conns
<1> QED BY <1>1, <1>3, <1>4 DEF Last

LEMMA CloseKeeps ==
    ASSUME IInv, UNCHANGED <<running, stopping>>, env'.late = env.late,
           \A t \in Slots : login'[t] \in {"dial", "join", "register"} =>
               login[t] \in {"dial", "join", "register"},
           \A t \in Slots : \A i \in DOMAIN conn'[t] :
               conn'[t][i].slaver = "read" /\ conn'[t][i].alive =>
               i \in DOMAIN conn[t] /\ conn[t][i].slaver = "read" /\ conn[t][i].alive
    PROVE  CloseOK'
BY DEF IInv, CloseOK, ClosedUnlessLate

LEMMA JoinInv ==
    ASSUME IInv, NEW s \in Slots, login[s] = "join", NEW ok \in BOOLEAN,
           login' = [login EXCEPT ![s] = IF ok THEN "register" ELSE "check"],
           NEW c \in ConnStates, conn' = [conn EXCEPT ![s] = [conn[s] EXCEPT ![Last(s)] = c]],
           c.master = conn[s][Last(s)].master, c.old = conn[s][Last(s)].old,
           c.alive = conn[s][Last(s)].alive, c.tagged = conn[s][Last(s)].tagged,
           c.slaver = IF ok THEN "joined" ELSE "leaked",
           UNCHANGED <<running, stopping, sreg, bond, bonds, sel, env>>
    PROVE  IInv'
<1> DEFINE n == Last(s)
<1>1. n \in DOMAIN conn[s] /\ SlotOK(s) /\ n \in Nat /\ DOMAIN conn[s] = 1 .. n
  BY Typed
<1>2. /\ conn' \in Conns
      /\ Last(s)' = n /\ DOMAIN conn'[s] = DOMAIN conn[s] /\ conn'[s][n] = c
      /\ \A j \in DOMAIN conn[s] : j # n => conn'[s][j] = conn[s][j]
      /\ \A t \in Slots \ {s} : conn'[t] = conn[t]
      /\ (\A t \in Slots : MasterOK(t)') /\ BondOK' /\ SelOK'
  BY <1>1, SlaverSets
<1>3. /\ login'[s] = IF ok THEN "register" ELSE "check"
      /\ \A t \in Slots \ {s} : login'[t] = login[t]
      /\ login' \in [Slots -> {"check", "dial", "join", "register", "context", "none"}]
  BY DEF IInv, TypeOK
<1>4. TypeOK'
  BY <1>2, <1>3 DEF IInv, TypeOK, Conns
<1>5. SlotOK(s)'
  <2>1. sreg[s] = 0
    BY <1>1 DEF SlotOK, Ended
  <2>2. n > 0
    BY <1>1
  <2>3. \A j \in DOMAIN conn[s] : j # n => conn'[s][j].slaver \in Ended
    BY <1>1, <1>2 DEF SlotOK
  <2>4. conn'[s][n].slaver = (IF ok THEN "joined" ELSE "leaked") /\ ~conn'[s][n].tagged
    BY <1>1, <1>2 DEF SlotOK
  <2> QED BY <1>1, <1>2, <1>3, <2>1, <2>2, <2>3, <2>4 DEF SlotOK, Ended
<1>6. \A t \in Slots : SlotOK(t)'
  BY <1>2, <1>3, <1>5, SlotsOK
<1>7. CloseOK'
  <2>1. \A t \in Slots : login'[t] \in {"dial", "join", "register"} =>
               login[t] \in {"dial", "join", "register"}
    BY <1>3
  <2>2. ASSUME NEW t \in Slots, NEW i \in DOMAIN conn'[t], conn'[t][i].slaver = "read"
        PROVE  i \in DOMAIN conn[t] /\ conn'[t][i] = conn[t][i]
    BY <1>2, <2>2
  <2> QED BY <2>1, <2>2, CloseKeeps
<1> QED BY <1>2, <1>4, <1>6, <1>7 DEF IInv

LEMMA JoinReadInv ==
    ASSUME IInv, NEW s \in Slots, JoinRead(s) PROVE IInv'
<1> DEFINE o == conn[s][Last(s)]
           ok == Head(o.wire) = "back"
           d == [o EXCEPT !.wire = <<>>]
           c == [d EXCEPT !.slaver = IF ok THEN "joined" ELSE "leaked"]
<1>1. login[s] = "join" /\ UNCHANGED <<running, stopping, sreg, bond, bonds, sel, env>>
  BY DEF JoinRead
<1>2. login' = [login EXCEPT ![s] = IF ok THEN "register" ELSE "check"]
  BY DEF JoinRead
<1>3. conn' = [conn EXCEPT ![s] = [conn[s] EXCEPT ![Last(s)] = c]]
  BY DEF JoinRead
<1>4. o \in ConnStates
  BY <1>1, Typed
<1> HIDE DEF o, ok
<1>5. d \in ConnStates /\ d.master = o.master /\ d.old = o.old /\ d.alive = o.alive /\ d.tagged = o.tagged
  <2>1. <<>> \in Seq({"back", "refused", "dial"})
    OBVIOUS
  <2> QED BY <1>4, <2>1 DEF ConnStates
<1> HIDE DEF d
<1>6. /\ c \in ConnStates /\ c.master = o.master /\ c.old = o.old /\ c.alive = o.alive
      /\ c.tagged = o.tagged /\ c.slaver = IF ok THEN "joined" ELSE "leaked"
  BY <1>5 DEF ConnStates
<1>7. ok \in BOOLEAN
  BY DEF ok
<1> HIDE DEF c
<1> QED BY <1>1, <1>2, <1>3, <1>6, <1>7, JoinInv DEF o

LEMMA JoinFailInv ==
    ASSUME IInv, NEW s \in Slots, JoinFail(s) PROVE IInv'
<1> DEFINE o == conn[s][Last(s)]
           d == [o EXCEPT !.wire = <<>>]
           c == [d EXCEPT !.slaver = "leaked"]
<1>1. login[s] = "join" /\ UNCHANGED <<running, stopping, sreg, bond, bonds, sel, env>>
  BY DEF JoinFail
<1>2. login' = [login EXCEPT ![s] = IF FALSE THEN "register" ELSE "check"]
  BY DEF JoinFail
<1>3. conn' = [conn EXCEPT ![s] = [conn[s] EXCEPT ![Last(s)] = c]]
  BY DEF JoinFail
<1>4. o \in ConnStates
  BY <1>1, Typed
<1> HIDE DEF o
<1>5. d \in ConnStates /\ d.master = o.master /\ d.old = o.old /\ d.alive = o.alive /\ d.tagged = o.tagged
  <2>1. <<>> \in Seq({"back", "refused", "dial"})
    OBVIOUS
  <2> QED BY <1>4, <2>1 DEF ConnStates
<1> HIDE DEF d
<1>6. /\ c \in ConnStates /\ c.master = o.master /\ c.old = o.old /\ c.alive = o.alive
      /\ c.tagged = o.tagged /\ c.slaver = IF FALSE THEN "joined" ELSE "leaked"
  BY <1>5 DEF ConnStates
<1> HIDE DEF c
<1> QED BY <1>1, <1>2, <1>3, <1>6, JoinInv DEF o

LEMMA RegisterInv ==
    ASSUME IInv, NEW s \in Slots, JoinRegister(s) PROVE IInv'
<1> DEFINE n == Last(s)
           o == conn[s][n]
           c == [o EXCEPT !.slaver = "read"]
           q == [i \in DOMAIN conn[s] |->
                   IF i = n THEN [conn[s][i] EXCEPT !.slaver = "read"]
                   ELSE IF i = sreg[s] THEN [conn[s][i] EXCEPT !.alive = FALSE] ELSE conn[s][i]]
<1>1. /\ login[s] = "register" /\ UNCHANGED <<running, stopping, bond, bonds, sel, env>>
      /\ sreg' = [sreg EXCEPT ![s] = n] /\ login' = [login EXCEPT ![s] = "context"]
      /\ conn' = [conn EXCEPT ![s] = q]
  BY DEF JoinRegister
<1>2. /\ n \in DOMAIN conn[s] /\ SlotOK(s) /\ n \in Nat /\ DOMAIN conn[s] = 1 .. n
      /\ conn[s] \in Seq(ConnStates)
  BY <1>1, Typed
<1>3. sreg[s] = 0 /\ conn[s][n].slaver = "joined" /\ ~(0 \in DOMAIN conn[s])
  <2>1. conn[s][n].slaver = "joined" /\ ~(0 \in DOMAIN conn[s])
    BY <1>1, <1>2 DEF SlotOK
  <2>2. ASSUME sreg[s] # 0 PROVE FALSE
    <3>1. sreg[s] \in DOMAIN conn[s] /\ conn[s][sreg[s]].slaver \in {"read", "unregister"}
      BY <1>2, <2>2 DEF SlotOK
    <3>2. sreg[s] = n
      BY <1>2, <3>1 DEF SlotOK, Ended
    <3> QED BY <2>1, <3>1, <3>2
  <2> QED BY <2>1, <2>2
<1>4. q = [conn[s] EXCEPT ![n] = c]
  BY <1>2, <1>3
<1>5. conn' = [conn EXCEPT ![s] = [conn[s] EXCEPT ![n] = c]]
  BY <1>1, <1>4
<1>6. o \in ConnStates
  BY <1>2
<1> HIDE DEF q, o
<1>7. c \in ConnStates /\ c.master = o.master /\ c.old = o.old /\ c.alive = o.alive
      /\ c.slaver = "read"
  BY <1>6 DEF ConnStates
<1>t. c.tagged = o.tagged
  BY <1>6 DEF ConnStates
<1> HIDE DEF c
<1>8. /\ conn' \in Conns
      /\ Last(s)' = n /\ DOMAIN conn'[s] = DOMAIN conn[s] /\ conn'[s][n] = c
      /\ \A j \in DOMAIN conn[s] : j # n => conn'[s][j] = conn[s][j]
      /\ \A t \in Slots \ {s} : conn'[t] = conn[t]
      /\ (\A t \in Slots : MasterOK(t)') /\ BondOK' /\ SelOK'
  BY <1>1, <1>2, <1>5, <1>7, SlaverSets DEF o
<1>9. /\ login'[s] = "context" /\ sreg'[s] = n
      /\ \A t \in Slots \ {s} : login'[t] = login[t] /\ sreg'[t] = sreg[t]
      /\ sreg' \in [Slots -> Nat]
      /\ login' \in [Slots -> {"check", "dial", "join", "register", "context", "none"}]
  BY <1>1, <1>2 DEF IInv, TypeOK
<1>10. TypeOK'
  BY <1>1, <1>8, <1>9 DEF IInv, TypeOK, Conns
<1>11. ~o.tagged
  \* a new connection is not tagged before LoginDone
  BY <1>1, <1>2 DEF SlotOK, o
<1>12. SlotOK(s)'
  <2>1. \A j \in DOMAIN conn[s] : j # n => conn'[s][j].slaver \in Ended
    BY <1>2, <1>8 DEF SlotOK
  <2>2. conn'[s][n].slaver = "read" /\ ~conn'[s][n].tagged
    BY <1>7, <1>8, <1>t, <1>11
  <2>3. n > 0
    BY <1>2
  <2> QED BY <1>2, <1>8, <1>9, <2>1, <2>2, <2>3 DEF SlotOK, Ended, Reading
<1>13. \A t \in Slots : SlotOK(t)'
  BY <1>8, <1>9, <1>12, SlotsOK
<1>14. CloseOK'
  <2>1. stopping = "done" => s \in env.late
    BY <1>1 DEF IInv, CloseOK
  <2>2. ASSUME NEW t \in Slots, NEW i \in DOMAIN conn'[t], t # s \/ i # n
        PROVE  i \in DOMAIN conn[t] /\ conn'[t][i] = conn[t][i]
    BY <1>8, <2>2
  <2>3. ClosedUnlessLate'
    BY <1>1, <2>1, <2>2 DEF IInv, CloseOK, ClosedUnlessLate
  <2> QED BY <1>1, <1>9, <2>3 DEF IInv, CloseOK
<1> QED BY <1>8, <1>10, <1>13, <1>14 DEF IInv

LEMMA DoneInv ==
    ASSUME IInv, NEW s \in Slots, LoginDone(s) PROVE IInv'
<1> DEFINE n == Last(s)
           o == conn[s][n]
           c == [o EXCEPT !.tagged = TRUE]
<1>1. /\ login[s] = "context" /\ UNCHANGED <<running, stopping, sreg, bond, bonds, sel, env>>
      /\ login' = [login EXCEPT ![s] = "none"]
      /\ conn' = [conn EXCEPT ![s] = [conn[s] EXCEPT ![n] = c]]
  BY DEF LoginDone
<1>2. /\ n \in DOMAIN conn[s] /\ SlotOK(s) /\ n \in Nat /\ DOMAIN conn[s] = 1 .. n
      /\ conn[s] \in Seq(ConnStates)
  BY <1>1, Typed
<1>3. o \in ConnStates
  BY <1>2
<1> HIDE DEF o
<1>4. c \in ConnStates /\ c.master = o.master /\ c.old = o.old /\ c.alive = o.alive
      /\ c.slaver = o.slaver
  BY <1>3 DEF ConnStates
<1> HIDE DEF c
<1>5. /\ conn' \in Conns
      /\ Last(s)' = n /\ DOMAIN conn'[s] = DOMAIN conn[s] /\ conn'[s][n] = c
      /\ \A j \in DOMAIN conn[s] : j # n => conn'[s][j] = conn[s][j]
      /\ \A t \in Slots \ {s} : conn'[t] = conn[t]
      /\ (\A t \in Slots : MasterOK(t)') /\ BondOK' /\ SelOK'
  BY <1>1, <1>2, <1>4, SlaverSets DEF o
<1>6. /\ login'[s] = "none" /\ \A t \in Slots \ {s} : login'[t] = login[t]
      /\ login' \in [Slots -> {"check", "dial", "join", "register", "context", "none"}]
  BY <1>1 DEF IInv, TypeOK
<1>7. TypeOK'
  BY <1>1, <1>5, <1>6 DEF IInv, TypeOK, Conns
<1>8. \A j \in DOMAIN conn[s] : conn'[s][j].slaver = conn[s][j].slaver /\ conn'[s][j].alive = conn[s][j].alive
  BY <1>4, <1>5 DEF o
<1>9. SlotOK(s)'
  <2>1. \A j \in DOMAIN conn[s] : conn[s][j].slaver \in Ended \cup Reading
    BY <1>1, <1>2 DEF SlotOK
  <2> QED BY <1>1, <1>2, <1>5, <1>6, <1>8, <2>1 DEF SlotOK
<1>10. \A t \in Slots : SlotOK(t)'
  BY <1>1, <1>5, <1>6, <1>9, SlotsOK
<1>11. CloseOK'
  <2>1. \A t \in Slots : login'[t] \in {"dial", "join", "register"} =>
               login[t] \in {"dial", "join", "register"}
    BY <1>6
  <2>2. ASSUME NEW t \in Slots, NEW i \in DOMAIN conn'[t]
        PROVE  /\ i \in DOMAIN conn[t] /\ conn'[t][i].slaver = conn[t][i].slaver
               /\ conn'[t][i].alive = conn[t][i].alive
    BY <1>5, <1>8
  <2> QED BY <1>1, <2>1, <2>2, CloseKeeps
<1> QED BY <1>5, <1>7, <1>10, <1>11 DEF IInv

(***************************************************************************)
(* The slaver's readers.                                                   *)
(***************************************************************************)
LEMMA ReaderAt ==
    ASSUME IInv, NEW s \in Slots, NEW i \in DOMAIN conn[s], conn[s][i].slaver \in Reading
    PROVE  i = Last(s) /\ login[s] \in {"context", "none"} /\ (sreg[s] # 0 => sreg[s] = i)
<1>1. SlotOK(s) /\ login[s] \in {"check", "dial", "join", "register", "context", "none"}
  BY DEF IInv, TypeOK
<1>2. i = Last(s)
  BY <1>1 DEF SlotOK, Ended, Reading
<1>3. login[s] \in {"context", "none"}
  BY <1>1, <1>2 DEF SlotOK, Ended, Reading
<1>4. sreg[s] # 0 => sreg[s] = i
  BY <1>1, <1>2 DEF SlotOK, Ended
<1> QED BY <1>2, <1>3, <1>4

LEMMA ReaderInv ==
    ASSUME IInv, NEW s \in Slots, NEW i \in DOMAIN conn[s], conn[s][i].slaver \in Reading,
           NEW c \in ConnStates, conn' = [conn EXCEPT ![s] = [conn[s] EXCEPT ![i] = c]],
           c.master = conn[s][i].master, c.old = conn[s][i].old, c.alive = conn[s][i].alive,
           c.tagged = conn[s][i].tagged, c.slaver \in (Ended \cup Reading) \ {"read"},
           login' \in [Slots -> {"check", "dial", "join", "register", "context", "none"}],
           sreg' \in [Slots -> Nat],
           \A t \in Slots \ {s} : login'[t] = login[t] /\ sreg'[t] = sreg[t],
           login'[s] = login[s] \/ (login'[s] = "check" /\ c.slaver \in Ended),
           sreg'[s] # 0 => sreg'[s] = i /\ c.slaver = "unregister",
           UNCHANGED <<running, stopping, bond, bonds, sel, env>>
    PROVE  IInv'
<1> DEFINE n == Last(s)
<1>1. /\ i = n /\ login[s] \in {"context", "none"} /\ SlotOK(s)
      /\ n \in Nat /\ DOMAIN conn[s] = 1 .. n
  BY ReaderAt, Typed
<1>2. /\ conn' \in Conns
      /\ Last(s)' = n /\ DOMAIN conn'[s] = DOMAIN conn[s] /\ conn'[s][i] = c
      /\ \A j \in DOMAIN conn[s] : j # i => conn'[s][j] = conn[s][j]
      /\ \A t \in Slots \ {s} : conn'[t] = conn[t]
      /\ (\A t \in Slots : MasterOK(t)') /\ BondOK' /\ SelOK'
  BY SlaverSets
<1>3. TypeOK'
  BY <1>2 DEF IInv, TypeOK, Conns
<1>4. SlotOK(s)'
  <2>1. \A j \in DOMAIN conn[s] : j # n => conn'[s][j].slaver \in Ended
    BY <1>1, <1>2 DEF SlotOK
  <2>2. conn'[s][n].slaver \in (Ended \cup Reading) \ {"read"}
    BY <1>1, <1>2
  <2>3. login'[s] = "check" => conn'[s][n].slaver \in Ended
    BY <1>1, <1>2
  <2>4. login'[s] = "context" => n > 0 /\ ~conn'[s][n].tagged
    BY <1>1, <1>2 DEF SlotOK
  <2>5. login'[s] \in {"check", "context", "none"}
    BY <1>1
  <2>6. sreg'[s] # 0 => sreg'[s] = n /\ conn'[s][n].slaver = "unregister" /\ n \in DOMAIN conn'[s]
    BY <1>1, <1>2
  <2>7. \A j \in DOMAIN conn'[s] : conn'[s][j].slaver \in (Ended \cup Reading) \ {"read"}
    BY <1>1, <1>2, <2>1, <2>2 DEF Ended
  <2> QED BY <1>2, <2>1, <2>2, <2>3, <2>4, <2>5, <2>6, <2>7 DEF SlotOK
<1>5. \A t \in Slots : SlotOK(t)'
  BY <1>2, <1>4, SlotsOK
<1>6. CloseOK'
  <2>1. \A t \in Slots : login'[t] \in {"dial", "join", "register"} =>
               login[t] \in {"dial", "join", "register"}
    BY <1>1
  <2>2. ASSUME NEW t \in Slots, NEW j \in DOMAIN conn'[t], conn'[t][j].slaver = "read"
        PROVE  j \in DOMAIN conn[t] /\ conn'[t][j] = conn[t][j]
    BY <1>2, <2>2
  <2> QED BY <2>1, <2>2, CloseKeeps
<1> QED BY <1>2, <1>3, <1>5, <1>6 DEF IInv

LEMMA SlaverFailsInv ==
    ASSUME IInv, NEW s \in Slots, NEW i \in DOMAIN conn[s], SlaverFails(s, i) PROVE IInv'
<1> DEFINE o == conn[s][i]
           c == [o EXCEPT !.slaver = "unregister"]
<1>1. /\ o.slaver = "read" /\ conn' = [conn EXCEPT ![s] = [conn[s] EXCEPT ![i] = c]]
      /\ UNCHANGED <<running, stopping, login, sreg, bond, bonds, sel, env>>
  BY DEF SlaverFails, SetSlaver
<1>2. o \in ConnStates
  BY Typed
<1>3. sreg[s] # 0 => sreg[s] = i
  BY <1>1, ReaderAt DEF Reading
<1> HIDE DEF o
<1>4. c \in ConnStates /\ c.master = o.master /\ c.old = o.old /\ c.alive = o.alive
      /\ c.tagged = o.tagged /\ c.slaver = "unregister"
  BY <1>2 DEF ConnStates
<1> HIDE DEF c
<1>5. o.slaver \in Reading /\ c.slaver \in (Ended \cup Reading) \ {"read"}
  BY <1>1, <1>4 DEF Reading
<1>6. /\ login' \in [Slots -> {"check", "dial", "join", "register", "context", "none"}]
      /\ sreg' \in [Slots -> Nat]
  BY <1>1 DEF IInv, TypeOK
<1> QED BY <1>1, <1>3, <1>4, <1>5, <1>6, ReaderInv DEF o

LEMMA SlaverUnregistersInv ==
    ASSUME IInv, NEW s \in Slots, NEW i \in DOMAIN conn[s], SlaverUnregisters(s, i) PROVE IInv'
<1> DEFINE o == conn[s][i]
           c == [o EXCEPT !.slaver = "onclose"]
<1>1. /\ o.slaver = "unregister" /\ conn' = [conn EXCEPT ![s] = [conn[s] EXCEPT ![i] = c]]
      /\ sreg' = [sreg EXCEPT ![s] = IF sreg[s] = i THEN 0 ELSE sreg[s]]
      /\ UNCHANGED <<running, stopping, login, bond, bonds, sel, env>>
  BY DEF SlaverUnregisters, SetSlaver
<1>2. o \in ConnStates
  BY Typed
<1>3. sreg[s] # 0 => sreg[s] = i
  BY <1>1, ReaderAt DEF Reading
<1> HIDE DEF o
<1>4. c \in ConnStates /\ c.master = o.master /\ c.old = o.old /\ c.alive = o.alive
      /\ c.tagged = o.tagged /\ c.slaver = "onclose"
  BY <1>2 DEF ConnStates
<1> HIDE DEF c
<1>5. o.slaver \in Reading /\ c.slaver \in (Ended \cup Reading) \ {"read"}
  BY <1>1, <1>4 DEF Reading
<1>6. /\ login' \in [Slots -> {"check", "dial", "join", "register", "context", "none"}]
      /\ sreg' \in [Slots -> Nat] /\ sreg'[s] = 0
      /\ \A t \in Slots \ {s} : login'[t] = login[t] /\ sreg'[t] = sreg[t]
  BY <1>1, <1>3 DEF IInv, TypeOK
<1> QED BY <1>1, <1>4, <1>5, <1>6, ReaderInv DEF o

LEMMA OnCloseInv ==
    ASSUME IInv, NEW s \in Slots, NEW i \in DOMAIN conn[s], OnConnClose(s, i) PROVE IInv'
<1> DEFINE o == conn[s][i]
           pc == IF running /\ ~o.tagged THEN "forgotten" ELSE "done"
           c == [o EXCEPT !.slaver = pc]
<1>1. /\ o.slaver = "onclose" /\ conn' = [conn EXCEPT ![s] = [conn[s] EXCEPT ![i] = c]]
      /\ UNCHANGED <<running, stopping, sreg, bond, bonds, sel, env>>
  BY DEF OnConnClose, SetSlaver
<1>2. o \in ConnStates /\ pc \in Ended /\ pc \in {"forgotten", "done"}
  BY Typed DEF Ended
<1>3. sreg[s] = 0
  BY <1>1, ReaderAt, Typed DEF Reading, SlotOK
<1>7. login' = login \/ login' = [login EXCEPT ![s] = "check"]
  BY DEF OnConnClose
<1> HIDE DEF o, pc
<1>4. c \in ConnStates /\ c.master = o.master /\ c.old = o.old /\ c.alive = o.alive
      /\ c.tagged = o.tagged /\ c.slaver = pc
  BY <1>2 DEF ConnStates
<1> HIDE DEF c
<1>5. o.slaver \in Reading /\ c.slaver \in (Ended \cup Reading) \ {"read"} /\ c.slaver \in Ended
  BY <1>1, <1>2, <1>4 DEF Reading
<1>6. /\ login' \in [Slots -> {"check", "dial", "join", "register", "context", "none"}]
      /\ sreg' \in [Slots -> Nat] /\ sreg'[s] = 0
      /\ login'[s] = login[s] \/ login'[s] = "check"
      /\ \A t \in Slots \ {s} : login'[t] = login[t] /\ sreg'[t] = sreg[t]
  BY <1>1, <1>3, <1>7 DEF IInv, TypeOK
<1> QED BY <1>1, <1>4, <1>5, <1>6, ReaderInv DEF o

(***************************************************************************)
(* Proxy.Close.                                                            *)
(***************************************************************************)
LEMMA ProxyCloseInv == ASSUME IInv, ProxyClose PROVE IInv'
<1>1. /\ running' = FALSE /\ stopping' = "router"
      /\ UNCHANGED <<login, conn, sreg, bond, bonds, sel, env>>
  BY DEF ProxyClose
<1>2. TypeOK'
  BY <1>1 DEF IInv, TypeOK
<1>3. \A s \in Slots : SlotOK(s)' /\ MasterOK(s)'
  BY <1>1 DEF IInv, SlotOK, Last, MasterOK, Registered, Replaced
<1>4. CloseOK' /\ BondOK' /\ SelOK'
  BY <1>1 DEF IInv, CloseOK, ClosedUnlessLate, BondOK, SelOK
<1> QED BY <1>2, <1>3, <1>4 DEF IInv

LEMMA RouterCloseInv == ASSUME IInv, RouterClose PROVE IInv'
<1> DEFINE q(s) == [i \in DOMAIN conn[s] |->
                      IF i = sreg[s] THEN [conn[s][i] EXCEPT !.alive = FALSE] ELSE conn[s][i]]
           late == {s \in Slots : login[s] \in {"dial", "join", "register"}}
<1>1. /\ stopping = "router" /\ stopping' = "done" /\ conn' = [s \in Slots |-> q(s)]
      /\ env' = [env EXCEPT !.late = late]
      /\ UNCHANGED <<running, login, sreg, bond, bonds, sel>>
  BY DEF RouterClose
<1>2. env' \in [events : Nat, late : SUBSET Slots] /\ env'.late = late
  <2>1. env \in [events : Nat, late : SUBSET Slots]
    BY DEF IInv, TypeOK
  <2>2. late \in SUBSET Slots
    OBVIOUS
  <2> HIDE DEF late
  <2> QED BY <1>1, <2>1, <2>2
<1>3. ASSUME NEW s \in Slots
      PROVE  /\ q(s) \in Seq(ConnStates) /\ Len(q(s)) = Len(conn[s]) /\ DOMAIN q(s) = DOMAIN conn[s]
             /\ \A i \in DOMAIN conn[s] :
                  /\ q(s)[i].slaver = conn[s][i].slaver /\ q(s)[i].tagged = conn[s][i].tagged
                  /\ q(s)[i].master = conn[s][i].master /\ q(s)[i].old = conn[s][i].old
                  /\ q(s)[i].alive => conn[s][i].alive /\ i # sreg[s]
  <2>1. conn[s] \in Seq(ConnStates) /\ \A i \in DOMAIN conn[s] : conn[s][i] \in ConnStates
    BY Typed
  <2>2. ASSUME NEW o \in ConnStates
        PROVE  [o EXCEPT !.alive = FALSE] \in ConnStates
    BY DEF ConnStates
  <2>3. \A i \in DOMAIN conn[s] : q(s)[i] \in ConnStates
    BY <2>1, <2>2
  <2>4. q(s) \in Seq(ConnStates) /\ Len(q(s)) = Len(conn[s]) /\ DOMAIN q(s) = DOMAIN conn[s]
    <3> DEFINE f == q(s)
    <3>1. Len(conn[s]) \in Nat /\ DOMAIN conn[s] = 1 .. Len(conn[s])
      BY <2>1
    <3>2. f = [i \in DOMAIN conn[s] |-> f[i]] /\ DOMAIN f = DOMAIN conn[s]
      OBVIOUS
    <3>3. \A i \in DOMAIN conn[s] : f[i] \in ConnStates
      BY <2>3
    <3> HIDE DEF f
    <3>4. f \in [1 .. Len(conn[s]) -> ConnStates]
      BY <3>1, <3>2, <3>3
    <3>5. f \in Seq(ConnStates) /\ Len(f) = Len(conn[s])
      BY <3>1, <3>4
    <3> QED BY <3>2, <3>5 DEF f
  <2>5. ASSUME NEW i \in DOMAIN conn[s]
        PROVE  /\ q(s)[i].slaver = conn[s][i].slaver /\ q(s)[i].tagged = conn[s][i].tagged
               /\ q(s)[i].master = conn[s][i].master /\ q(s)[i].old = conn[s][i].old
               /\ q(s)[i].alive => conn[s][i].alive /\ i # sreg[s]
    <3> DEFINE o == conn[s][i]
    <3>1. o \in ConnStates
      BY <2>1
    <3>2. q(s)[i] = IF i = sreg[s] THEN [o EXCEPT !.alive = FALSE] ELSE o
      OBVIOUS
    <3> HIDE DEF o, q
    <3>3. CASE i = sreg[s]
      <4>1. q(s)[i] = [o EXCEPT !.alive = FALSE]
        BY <3>2, <3>3
      <4>2. /\ q(s)[i].slaver = o.slaver /\ q(s)[i].tagged = o.tagged
            /\ q(s)[i].master = o.master /\ q(s)[i].old = o.old /\ ~q(s)[i].alive
        BY <3>1, <4>1 DEF ConnStates
      <4> QED BY <4>2 DEF o
    <3>4. CASE i # sreg[s]
      BY <3>2, <3>4 DEF o
    <3> QED BY <3>3, <3>4
  <2> QED BY <2>4, <2>5
<1> HIDE DEF q
<1>4. conn' \in Conns /\ \A s \in Slots : conn'[s] = q(s)
  BY <1>1, <1>3 DEF Conns
<1>5. TypeOK'
  BY <1>1, <1>2, <1>4 DEF IInv, TypeOK, Conns
<1>6. MasterSame
  BY <1>3, <1>4 DEF MasterSame
<1>7. \A s \in Slots : SlotOK(s)'
  <2> SUFFICES ASSUME NEW s \in Slots PROVE SlotOK(s)'
    OBVIOUS
  <2>1. Last(s)' = Last(s) /\ DOMAIN conn'[s] = DOMAIN conn[s]
        /\ \A i \in DOMAIN conn[s] : /\ conn'[s][i].slaver = conn[s][i].slaver
                                     /\ conn'[s][i].tagged = conn[s][i].tagged
    BY <1>3, <1>4 DEF Last
  <2>2. SlotOK(s) /\ (Last(s) > 0 => Last(s) \in DOMAIN conn[s])
    BY Typed
  <2> QED BY <1>1, <2>1, <2>2 DEF SlotOK
<1>8. CloseOK'
  <2>1. ASSUME NEW s \in Slots, NEW i \in DOMAIN conn'[s], conn'[s][i].slaver = "read" PROVE ~conn'[s][i].alive
    <3>1. i \in DOMAIN conn[s] /\ conn[s][i].slaver = "read"
      BY <1>3, <1>4, <2>1
    <3>2. sreg[s] = i
      BY <3>1 DEF IInv, SlotOK
    <3> QED BY <1>3, <1>4, <3>1, <3>2
  <2>2. ~running
    BY <1>1 DEF IInv, CloseOK
  <2> QED BY <1>1, <1>2, <2>1, <2>2 DEF CloseOK, ClosedUnlessLate
<1>9. (\A s \in Slots : MasterOK(s)') /\ BondOK' /\ SelOK'
  BY <1>1, <1>3, <1>4, <1>6, MasterKeeps, SelKeeps
<1> QED BY <1>5, <1>7, <1>8, <1>9 DEF IInv

(***************************************************************************)
(* The master.                                                             *)
(***************************************************************************)
\* The master's side of one connection changes.
LEMMA MasterSets ==
    ASSUME IInv, NEW s \in Slots, NEW i \in DOMAIN conn[s], NEW c \in ConnStates,
           conn' = [conn EXCEPT ![s] = [conn[s] EXCEPT ![i] = c]],
           c.slaver = conn[s][i].slaver, c.tagged = conn[s][i].tagged,
           c.alive => conn[s][i].alive,
           UNCHANGED <<running, stopping, login, sreg>>, env'.late = env.late
    PROVE  /\ conn' \in Conns /\ conn'[s][i] = c
           /\ \A t \in Slots : DOMAIN conn'[t] = DOMAIN conn[t]
           /\ \A j \in DOMAIN conn[s] : j # i => conn'[s][j] = conn[s][j]
           /\ \A t \in Slots \ {s} : conn'[t] = conn[t]
           /\ (\A t \in Slots : SlotOK(t)') /\ CloseOK'
<1>1. /\ conn' \in Conns
      /\ \A t \in Slots : Len(conn'[t]) = Len(conn[t]) /\ DOMAIN conn'[t] = DOMAIN conn[t]
      /\ conn'[s][i] = c
      /\ \A t \in Slots : \A j \in DOMAIN conn[t] : t # s \/ j # i => conn'[t][j] = conn[t][j]
  <2>1. conn \in Conns
    BY Typed
  <2> QED BY <2>1, ConnSet
<1>2. SlaverSame
  BY <1>1 DEF SlaverSame
<1>3. (\A t \in Slots : SlotOK(t)') /\ CloseOK'
  BY <1>2, SlaverKeeps
<1>4. \A t \in Slots \ {s} : conn'[t] = conn[t]
  BY Typed DEF Conns
<1> QED BY <1>1, <1>3, <1>4

\* A step of one slot that leaves the other slots' places in the bond alone.
LEMMA MastersOK ==
    ASSUME IInv, NEW s \in Slots, MasterOK(s)',
           \A t \in Slots \ {s} : conn'[t] = conn[t] /\ Registered(t)' = Registered(t)
    PROVE  \A t \in Slots : MasterOK(t)'
<1> SUFFICES ASSUME NEW t \in Slots, t # s PROVE MasterOK(t)'
  OBVIOUS
<1>1. conn'[t] = conn[t] /\ Registered(t)' = Registered(t) /\ MasterOK(t)
  BY DEF IInv
<1> QED BY <1>1 DEF MasterOK, Replaced

LEMMA Bonds ==
    ASSUME IInv
    PROVE  /\ bonds \in Seq([Slots -> Nat]) /\ Len(bonds) \in Nat /\ DOMAIN bonds = 1 .. Len(bonds)
           /\ \A b \in DOMAIN bonds : bonds[b] \in [Slots -> Nat] /\ (b # bond => bonds[b] = Nobody)
           /\ bond = 0 \/ bond \in DOMAIN bonds
           /\ \A s \in Slots : Registered(s) \in Nat
           /\ Nobody \in [Slots -> Nat] /\ \A s \in Slots : Nobody[s] = 0
<1>1. bonds \in Seq([Slots -> Nat]) /\ BondOK
  BY DEF IInv, TypeOK
<1>2. /\ Len(bonds) \in Nat /\ DOMAIN bonds = 1 .. Len(bonds)
      /\ \A b \in DOMAIN bonds : bonds[b] \in [Slots -> Nat]
  BY <1>1
<1>3. \A s \in Slots : Registered(s) \in Nat
  BY <1>1, <1>2 DEF Registered, BondOK
<1> QED BY <1>1, <1>2, <1>3 DEF BondOK, Nobody

\* The bond of the master changes in one place.
LEMMA BondSets ==
    ASSUME IInv, NEW s \in Slots, bond # 0, NEW left \in [Slots -> Nat],
           bonds' = [bonds EXCEPT ![bond] = left],
           bond' = bond \/ (bond' = 0 /\ left = Nobody)
    PROVE  /\ bonds' \in Seq([Slots -> Nat]) /\ DOMAIN bonds' = DOMAIN bonds /\ bond' \in Nat
           /\ \A t \in Slots : Registered(t)' = left[t]
           /\ BondOK'
<1>1. bonds' \in Seq([Slots -> Nat]) /\ DOMAIN bonds' = DOMAIN bonds /\ bonds'[bond] = left
      /\ \A b \in DOMAIN bonds : b # bond => bonds'[b] = bonds[b]
  BY Bonds
<1>2. bond' \in Nat /\ (bond' = 0 \/ bond' \in DOMAIN bonds')
  BY <1>1, Bonds
<1>3. \A t \in Slots : Registered(t)' = left[t]
  <2>1. CASE bond' = bond
    BY <1>1, <2>1 DEF Registered
  <2>2. CASE bond' = 0 /\ left = Nobody
    BY <2>2, Bonds DEF Registered
  <2> QED BY <2>1, <2>2
<1>4. BondOK'
  <2>1. ASSUME NEW b \in DOMAIN bonds', b # bond' PROVE bonds'[b] = Nobody
    BY <1>1, <2>1, Bonds
  <2>2. Nobody' = Nobody
    BY DEF Nobody
  <2> QED BY <1>2, <2>1, <2>2 DEF BondOK
<1> QED BY <1>1, <1>2, <1>3, <1>4

LEMMA AcceptInv ==
    ASSUME IInv, NEW s \in Slots, NEW i \in DOMAIN conn[s], LoginAccept(s, i) PROVE IInv'
<1>k. PICK k \in Nat : k = Registered(s)
  BY Bonds
<1> DEFINE o == conn[s][i]
           d == [o EXCEPT !.master = "replace"]
           c == [d EXCEPT !.old = k]
<1>1. /\ o.master = "login" /\ conn' = [conn EXCEPT ![s] = [conn[s] EXCEPT ![i] = c]]
      /\ UNCHANGED <<running, stopping, login, sreg, sel, env>>
  BY <1>k DEF LoginAccept
<1>2. o \in ConnStates /\ i \in Nat /\ i # 0
  BY Typed
<1>3. k # i
  BY <1>1, <1>2, <1>k, Typed DEF MasterOK, Accepted
<1>4. /\ bonds' \in Seq([Slots -> Nat]) /\ DOMAIN bonds \subseteq DOMAIN bonds' /\ bond' \in Nat
      /\ Registered(s)' = i /\ \A t \in Slots \ {s} : Registered(t)' = Registered(t)
      /\ BondOK'
  <2>1. CASE bond = 0
    <3> DEFINE new == [Nobody EXCEPT ![s] = i]
    <3>1. new \in [Slots -> Nat] /\ new[s] = i /\ \A t \in Slots \ {s} : new[t] = 0
      BY <1>2, Bonds
    <3>2. bonds' = Append(bonds, new) /\ bond' = Len(bonds) + 1
      BY <2>1 DEF LoginAccept
    <3> HIDE DEF new
    <3>3. /\ bonds' \in Seq([Slots -> Nat]) /\ DOMAIN bonds' = 1 .. Len(bonds) + 1
          /\ bonds'[Len(bonds) + 1] = new /\ \A b \in DOMAIN bonds : bonds'[b] = bonds[b]
      BY <3>1, <3>2, Bonds, AppendProperties
    <3>4. bond' \in Nat /\ bond' # 0 /\ bond' \in DOMAIN bonds' /\ DOMAIN bonds \subseteq DOMAIN bonds'
          /\ \A b \in DOMAIN bonds' : b = bond' \/ b \in DOMAIN bonds
      BY <3>2, <3>3, Bonds
    <3>5. \A t \in Slots : Registered(t)' = new[t]
      BY <3>2, <3>3, <3>4 DEF Registered
    <3>6. \A t \in Slots : Registered(t) = 0
      BY <2>1 DEF Registered
    <3>7. BondOK'
      <4>1. ASSUME NEW b \in DOMAIN bonds', b # bond' PROVE bonds'[b] = Nobody
        <5>1. b \in DOMAIN bonds /\ b # 0
          BY <3>4, <4>1, Bonds
        <5> QED BY <2>1, <3>3, <5>1, Bonds
      <4>2. Nobody' = Nobody
        BY DEF Nobody
      <4> QED BY <3>4, <4>1, <4>2 DEF BondOK
    <3> QED BY <3>1, <3>3, <3>4, <3>5, <3>6, <3>7
  <2>2. CASE bond # 0
    <3> DEFINE left == [bonds[bond] EXCEPT ![s] = i]
    <3>1. bonds' = [bonds EXCEPT ![bond] = left] /\ bond' = bond
      BY <2>2 DEF LoginAccept
    <3>2. left \in [Slots -> Nat] /\ left[s] = i /\ \A t \in Slots \ {s} : left[t] = Registered(t)
      BY <1>2, <2>2, Bonds DEF Registered
    <3> HIDE DEF left
    <3> QED BY <2>2, <3>1, <3>2, BondSets
  <2> QED BY <2>1, <2>2
<1> HIDE DEF o
<1>5. d \in ConnStates /\ d.slaver = o.slaver /\ d.tagged = o.tagged /\ d.alive = o.alive
      /\ d.master = "replace"
  BY <1>2 DEF ConnStates
<1> HIDE DEF d
<1>6. c \in ConnStates /\ c.slaver = o.slaver /\ c.tagged = o.tagged /\ c.alive = o.alive
      /\ c.master = "replace" /\ c.old = k
  BY <1>2, <1>5 DEF ConnStates
<1> HIDE DEF c
<1>7. /\ conn' \in Conns /\ conn'[s][i] = c
      /\ \A t \in Slots : DOMAIN conn'[t] = DOMAIN conn[t]
      /\ \A j \in DOMAIN conn[s] : j # i => conn'[s][j] = conn[s][j]
      /\ \A t \in Slots \ {s} : conn'[t] = conn[t]
      /\ (\A t \in Slots : SlotOK(t)') /\ CloseOK'
  BY <1>1, <1>6, MasterSets DEF o
<1>8. TypeOK'
  BY <1>1, <1>4, <1>7 DEF IInv, TypeOK, Conns
<1>9. MasterOK(s)'
  <2>1. \A j : Replaced(s, j) => Replaced(s, j)'
    BY <1>1, <1>7 DEF Replaced, o
  <2>2. Replaced(s, k)'
    BY <1>6, <1>7 DEF Replaced
  <2>3. Registered(s)' \in DOMAIN conn'[s] /\ conn'[s][Registered(s)'].master \in Accepted \cup {"unregister"}
    BY <1>4, <1>6, <1>7 DEF Accepted
  <2>4. ASSUME NEW j \in DOMAIN conn[s]
        PROVE  /\ conn'[s][j].master = "replace" => conn'[s][j].old # j
               /\ conn'[s][j].alive /\ conn'[s][j].master \in Accepted => Registered(s)' = j \/ Replaced(s, j)'
    <3>1. CASE j = i
      BY <1>3, <1>4, <1>6, <1>7, <3>1
    <3>2. CASE j # i
      <4>1. conn'[s][j] = conn[s][j]
        BY <1>7, <3>2
      <4>2. /\ conn[s][j].master = "replace" => conn[s][j].old # j
            /\ conn[s][j].alive /\ conn[s][j].master \in Accepted => k = j \/ Replaced(s, j)
        BY <1>k, Typed DEF MasterOK
      <4> QED BY <2>1, <2>2, <4>1, <4>2
    <3> QED BY <3>1, <3>2
  <2> QED BY <1>7, <2>3, <2>4 DEF MasterOK
<1>10. \A t \in Slots : MasterOK(t)'
  BY <1>4, <1>7, <1>9, MastersOK
<1>11. SelOK'
  BY <1>1, <1>4, <1>7 DEF IInv, SelOK
<1> QED BY <1>4, <1>7, <1>8, <1>10, <1>11 DEF IInv

\* A step that closes or writes to a connection, or changes the pc of a reader at the
\* master that neither begins nor ends a place in the bond.
LEMMA OneMasterInv ==
    ASSUME IInv, NEW s \in Slots, NEW i \in DOMAIN conn[s], NEW c \in ConnStates,
           conn' = [conn EXCEPT ![s] = [conn[s] EXCEPT ![i] = c]],
           c.slaver = conn[s][i].slaver, c.tagged = conn[s][i].tagged,
           c.alive => conn[s][i].alive, c.old = conn[s][i].old,
           \/ c.master = conn[s][i].master
           \/ conn[s][i].master = "back" /\ c.master = "read"
           \/ conn[s][i].master = "login" /\ c.master \in {"read", "unregister"} /\ ~c.alive
           \/ conn[s][i].master = "read" /\ c.master = "unregister",
           UNCHANGED <<running, stopping, login, sreg, bond, bonds>>,
           env' \in [events : Nat, late : SUBSET Slots], env'.late = env.late,
           sel' = sel \/ sel' = [pc |-> "idle"]
    PROVE  IInv'
<1>1. /\ conn' \in Conns /\ conn'[s][i] = c
      /\ \A t \in Slots : DOMAIN conn'[t] = DOMAIN conn[t]
      /\ \A j \in DOMAIN conn[s] : j # i => conn'[s][j] = conn[s][j]
      /\ \A t \in Slots \ {s} : conn'[t] = conn[t]
      /\ (\A t \in Slots : SlotOK(t)') /\ CloseOK'
  BY MasterSets
<1>2. TypeOK'
  BY <1>1 DEF IInv, TypeOK, Conns
<1>3. \A t \in Slots : Registered(t)' = Registered(t)
  BY DEF Registered
<1>4. MasterOK(s) /\ MasterOK(s)'
  <2>1. MasterOK(s)
    BY Typed
  <2>2. \A j : Replaced(s, j) => Replaced(s, j)'
    BY <1>1 DEF Replaced
  <2>3. Registered(s) # 0 => /\ Registered(s) \in DOMAIN conn[s]
                             /\ conn'[s][Registered(s)].master \in Accepted \cup {"unregister"}
    BY <1>1, <2>1 DEF MasterOK, Accepted
  <2>4. ASSUME NEW j \in DOMAIN conn[s]
        PROVE  /\ conn'[s][j].master = "replace" => conn'[s][j].old # j
               /\ conn'[s][j].alive /\ conn'[s][j].master \in Accepted => Registered(s) = j \/ Replaced(s, j)
    <3>1. CASE j # i
      BY <1>1, <2>1, <3>1 DEF MasterOK
    <3>2. CASE j = i
      BY <1>1, <2>1, <3>2 DEF MasterOK, Accepted
    <3> QED BY <3>1, <3>2
  <2>5. MasterOK(s)'
    BY <1>1, <1>3, <2>2, <2>3, <2>4 DEF MasterOK
  <2> QED BY <2>1, <2>5
<1>5. \A t \in Slots : MasterOK(t)'
  BY <1>1, <1>3, <1>4, MastersOK
<1>6. BondOK'
  BY DEF IInv, BondOK, Nobody
<1>7. SelOK'
  BY <1>1 DEF IInv, SelOK
<1> QED BY <1>1, <1>2, <1>5, <1>6, <1>7 DEF IInv

LEMMA EnvOK ==
    ASSUME IInv PROVE env \in [events : Nat, late : SUBSET Slots]
BY DEF IInv, TypeOK

LEMMA RefuseInv ==
    ASSUME IInv, NEW s \in Slots, NEW i \in DOMAIN conn[s], LoginRefuse(s, i) PROVE IInv'
<1> DEFINE o == conn[s][i]
           d == [o EXCEPT !.wire = <<"refused">>]
           e == [d EXCEPT !.alive = FALSE]
           c == [e EXCEPT !.master = "read"]
<1>1. /\ o.master = "login" /\ conn' = [conn EXCEPT ![s] = [conn[s] EXCEPT ![i] = c]]
      /\ UNCHANGED <<running, stopping, login, sreg, bond, bonds, sel>>
  BY DEF LoginRefuse
<1>2. o \in ConnStates
  BY Typed
<1>3. env' \in [events : Nat, late : SUBSET Slots] /\ env'.late = env.late
  BY EventOK DEF LoginRefuse
<1> HIDE DEF o
<1>4. d \in ConnStates /\ d.slaver = o.slaver /\ d.tagged = o.tagged /\ d.old = o.old
  <2>1. <<"refused">> \in Seq({"back", "refused", "dial"})
    OBVIOUS
  <2> QED BY <1>2, <2>1 DEF ConnStates
<1> HIDE DEF d
<1>5. e \in ConnStates /\ e.slaver = o.slaver /\ e.tagged = o.tagged /\ e.old = o.old /\ ~e.alive
  BY <1>4 DEF ConnStates
<1> HIDE DEF e
<1>6. c \in ConnStates /\ c.slaver = o.slaver /\ c.tagged = o.tagged /\ c.old = o.old /\ ~c.alive
      /\ c.master = "read"
  BY <1>5 DEF ConnStates
<1> HIDE DEF c
<1> QED BY <1>1, <1>3, <1>6, OneMasterInv DEF o

LEMMA MasterFailsInv ==
    ASSUME IInv, NEW s \in Slots, NEW i \in DOMAIN conn[s], MasterFails(s, i) PROVE IInv'
<1> DEFINE o == conn[s][i]
           c == [o EXCEPT !.master = "unregister"]
<1>1. /\ o.master \in {"login", "read"} /\ ~o.alive
      /\ conn' = [conn EXCEPT ![s] = [conn[s] EXCEPT ![i] = c]]
      /\ UNCHANGED <<running, stopping, login, sreg, bond, bonds, sel, env>>
  BY DEF MasterFails, SetMaster
<1>2. o \in ConnStates
  BY Typed
<1> HIDE DEF o
<1>3. c \in ConnStates /\ c.slaver = o.slaver /\ c.tagged = o.tagged /\ c.old = o.old
      /\ c.alive = o.alive /\ c.master = "unregister"
  BY <1>2 DEF ConnStates
<1> HIDE DEF c
<1> QED BY <1>1, <1>3, EnvOK, OneMasterInv DEF o

\* A frame to the slaver.
LEMMA WrittenOK ==
    ASSUME IInv, NEW s \in Slots, NEW i \in DOMAIN conn[s], NEW m \in {"back", "dial"}
    PROVE  \E c \in ConnStates :
             /\ Written(s, i, m) = [conn EXCEPT ![s] = [conn[s] EXCEPT ![i] = c]]
             /\ c.slaver = conn[s][i].slaver /\ c.tagged = conn[s][i].tagged /\ c.old = conn[s][i].old
             /\ c.alive = conn[s][i].alive /\ c.master = conn[s][i].master
<1> DEFINE o == conn[s][i]
           w == Append(o.wire, m)
           c == [o EXCEPT !.wire = w]
<1>1. o \in ConnStates /\ conn \in Conns /\ conn[s] \in Seq(ConnStates)
  BY Typed
<1>2. CASE o.alive /\ o.slaver = "join"
  <2>1. Written(s, i, m) = [conn EXCEPT ![s] = [conn[s] EXCEPT ![i] = c]]
    BY <1>2 DEF Written
  <2> HIDE DEF o
  <2>2. o.wire \in Seq({"back", "refused", "dial"})
    BY <1>1 DEF ConnStates
  <2>3. w \in Seq({"back", "refused", "dial"})
    BY <2>2
  <2> HIDE DEF w
  <2>4. /\ c \in ConnStates /\ c.slaver = o.slaver /\ c.tagged = o.tagged /\ c.old = o.old
        /\ c.alive = o.alive /\ c.master = o.master
    BY <1>1, <2>3 DEF ConnStates
  <2> HIDE DEF c
  <2> QED BY <2>1, <2>4 DEF o
<1>3. CASE ~(o.alive /\ o.slaver = "join")
  <2>1. Written(s, i, m) = conn
    BY <1>3 DEF Written
  <2>2. conn = [conn EXCEPT ![s] = [conn[s] EXCEPT ![i] = o]]
    BY <1>1 DEF Conns
  <2> QED BY <1>1, <2>1, <2>2
<1> QED BY <1>2, <1>3

LEMMA BackInv ==
    ASSUME IInv, NEW s \in Slots, NEW i \in DOMAIN conn[s], LoginBack(s, i) PROVE IInv'
<1>1. PICK o \in ConnStates :
             /\ Written(s, i, "back") = [conn EXCEPT ![s] = [conn[s] EXCEPT ![i] = o]]
             /\ o.slaver = conn[s][i].slaver /\ o.tagged = conn[s][i].tagged /\ o.old = conn[s][i].old
             /\ o.alive = conn[s][i].alive /\ o.master = conn[s][i].master
  BY WrittenOK
<1> DEFINE c == [o EXCEPT !.master = "read"]
           w == [conn EXCEPT ![s] = [conn[s] EXCEPT ![i] = o]]
<1>2. /\ conn[s][i].master = "back" /\ conn' = [w EXCEPT ![s][i].master = "read"]
      /\ UNCHANGED <<running, stopping, login, sreg, bond, bonds, sel, env>>
  BY <1>1 DEF LoginBack
<1>3. conn' = [conn EXCEPT ![s] = [conn[s] EXCEPT ![i] = c]]
  <2>1. conn \in Conns /\ conn[s] \in Seq(ConnStates)
    BY Typed
  <2>2. w[s] = [conn[s] EXCEPT ![i] = o] /\ w[s][i] = o
    BY <2>1 DEF Conns
  <2>3. conn' = [w EXCEPT ![s] = [w[s] EXCEPT ![i] = [w[s][i] EXCEPT !.master = "read"]]]
    BY <1>2
  <2>4. conn' = [w EXCEPT ![s] = [w[s] EXCEPT ![i] = c]]
    BY <2>2, <2>3
  <2>5. [w[s] EXCEPT ![i] = c] = [conn[s] EXCEPT ![i] = c]
    BY <2>2
  <2>6. conn' = [w EXCEPT ![s] = [conn[s] EXCEPT ![i] = c]]
    BY <2>4, <2>5
  <2> HIDE DEF c
  <2> QED BY <2>1, <2>6 DEF Conns
<1>4. c \in ConnStates /\ c.slaver = o.slaver /\ c.tagged = o.tagged /\ c.old = o.old
      /\ c.alive = o.alive /\ c.master = "read"
  BY DEF ConnStates
<1>5. /\ c.slaver = conn[s][i].slaver /\ c.tagged = conn[s][i].tagged /\ c.old = conn[s][i].old
      /\ c.alive = conn[s][i].alive /\ conn[s][i].master = "back"
  BY <1>1, <1>2, <1>4
<1>6. UNCHANGED <<running, stopping, login, sreg, bond, bonds, sel, env>>
  BY <1>2
<1> HIDE DEF c
<1> QED BY <1>3, <1>4, <1>5, <1>6, EnvOK, OneMasterInv

LEMMA ClosedInv ==
    ASSUME IInv, NEW s \in Slots, NEW i \in DOMAIN conn[s], HeartbeatMissed(s, i) \/ Lose(s, i)
    PROVE  IInv'
<1> DEFINE o == conn[s][i]
           c == [o EXCEPT !.alive = FALSE]
<1>1. /\ conn' = [conn EXCEPT ![s] = [conn[s] EXCEPT ![i] = c]]
      /\ UNCHANGED <<running, stopping, login, sreg, bond, bonds, sel>>
  BY DEF HeartbeatMissed, Lose
<1>2. o \in ConnStates
  BY Typed
<1>3. env' \in [events : Nat, late : SUBSET Slots] /\ env'.late = env.late
  BY EventOK, EnvOK DEF HeartbeatMissed, Lose
<1> HIDE DEF o
<1>4. c \in ConnStates /\ c.slaver = o.slaver /\ c.tagged = o.tagged /\ c.old = o.old
      /\ ~c.alive /\ c.master = o.master
  BY <1>2 DEF ConnStates
<1> HIDE DEF c
<1> QED BY <1>1, <1>3, <1>4, OneMasterInv DEF o

LEMMA ReplaceInv ==
    ASSUME IInv, NEW s \in Slots, NEW i \in DOMAIN conn[s], LoginReplace(s, i) PROVE IInv'
<1>k. PICK old \in Nat : old = conn[s][i].old
  BY Typed DEF ConnStates
<1> DEFINE o == conn[s][i]
           d == [o EXCEPT !.master = "back"]
           c == [d EXCEPT !.old = 0]
           f(j) == IF j = i THEN c ELSE IF j = old THEN [conn[s][j] EXCEPT !.alive = FALSE] ELSE conn[s][j]
           q == [j \in DOMAIN conn[s] |-> f(j)]
<1>1. /\ o.master = "replace"
      /\ UNCHANGED <<running, stopping, login, sreg, bond, bonds, sel, env>>
  BY DEF LoginReplace
<1>2. conn' = [conn EXCEPT ![s] = [j \in DOMAIN conn[s] |->
                  IF j = i THEN [conn[s][j] EXCEPT !.master = "back", !.old = 0]
                  ELSE IF j = old THEN [conn[s][j] EXCEPT !.alive = FALSE] ELSE conn[s][j]]]
  BY <1>k DEF LoginReplace
<1>3. conn' = [conn EXCEPT ![s] = q]
  BY <1>2
<1>4. /\ conn \in Conns /\ conn[s] \in Seq(ConnStates) /\ \A j \in DOMAIN conn[s] : conn[s][j] \in ConnStates
      /\ MasterOK(s)
  BY Typed
<1>5. old # i
  BY <1>1, <1>4, <1>k DEF MasterOK
<1>6. c \in ConnStates /\ c.slaver = o.slaver /\ c.tagged = o.tagged
      /\ c.alive = o.alive /\ c.master = "back"
  <2>1. o \in ConnStates
    BY <1>4
  <2> HIDE DEF o
  <2>2. d \in ConnStates /\ d.slaver = o.slaver /\ d.tagged = o.tagged /\ d.alive = o.alive
        /\ d.master = "back"
    BY <2>1 DEF ConnStates
  <2> HIDE DEF d
  <2> QED BY <2>2 DEF ConnStates
<1> HIDE DEF c
<1>7. ASSUME NEW j \in DOMAIN conn[s]
      PROVE  /\ f(j) \in ConnStates /\ f(j).slaver = conn[s][j].slaver /\ f(j).tagged = conn[s][j].tagged
             /\ f(j).alive => conn[s][j].alive
             /\ j = i => f(j).master = "back"
             /\ j # i => f(j).master = conn[s][j].master /\ f(j).old = conn[s][j].old
             /\ j = old => ~f(j).alive
  <2>1. CASE j = i
    BY <1>5, <1>6, <2>1
  <2>2. CASE j # i /\ j = old
    <3> DEFINE p == conn[s][j]
    <3>1. p \in ConnStates /\ f(j) = [p EXCEPT !.alive = FALSE]
      BY <1>4, <2>2
    <3> HIDE DEF p, f
    <3>2. /\ f(j) \in ConnStates /\ f(j).slaver = p.slaver /\ f(j).tagged = p.tagged
          /\ f(j).master = p.master /\ f(j).old = p.old /\ ~f(j).alive
      BY <3>1 DEF ConnStates
    <3> QED BY <2>2, <3>2 DEF p
  <2>3. CASE j # i /\ j # old
    BY <1>4, <2>3
  <2> QED BY <2>1, <2>2, <2>3
<1>8. /\ q \in Seq(ConnStates) /\ Len(q) = Len(conn[s]) /\ DOMAIN q = DOMAIN conn[s]
      /\ \A j \in DOMAIN conn[s] : q[j] = f(j)
  <2>1. Len(conn[s]) \in Nat /\ DOMAIN conn[s] = 1 .. Len(conn[s])
    BY <1>4
  <2>2. DOMAIN q = DOMAIN conn[s] /\ q = [j \in DOMAIN conn[s] |-> q[j]]
        /\ \A j \in DOMAIN conn[s] : q[j] = f(j)
    OBVIOUS
  <2>3. \A j \in DOMAIN conn[s] : q[j] \in ConnStates
    BY <1>7, <2>2
  <2> HIDE DEF q, f
  <2>4. q \in [1 .. Len(conn[s]) -> ConnStates]
    BY <2>1, <2>2, <2>3
  <2>5. q \in Seq(ConnStates) /\ Len(q) = Len(conn[s])
    BY <2>1, <2>4
  <2> QED BY <2>2, <2>5
<1> HIDE DEF q, f
<1>9. conn' \in Conns /\ conn'[s] = q /\ \A t \in Slots \ {s} : conn'[t] = conn[t]
  BY <1>3, <1>4, <1>8 DEF Conns
<1>10. SlaverSame
  BY <1>7, <1>8, <1>9 DEF SlaverSame
<1>11. (\A t \in Slots : SlotOK(t)') /\ CloseOK'
  BY <1>1, <1>10, SlaverKeeps
<1>12. TypeOK'
  BY <1>1, <1>9 DEF IInv, TypeOK, Conns
<1>13. \A t \in Slots : Registered(t)' = Registered(t)
  BY <1>1 DEF Registered
<1>14. MasterOK(s)'
  <2>1. ASSUME NEW j, Replaced(s, j), j # old PROVE Replaced(s, j)'
    <3>1. PICK m \in DOMAIN conn[s] : conn[s][m].master = "replace" /\ conn[s][m].old = j
      BY <2>1 DEF Replaced
    <3>2. m # i
      BY <1>k, <2>1, <3>1
    <3>3. m \in DOMAIN conn'[s] /\ conn'[s][m].master = "replace" /\ conn'[s][m].old = j
      BY <1>7, <1>8, <1>9, <3>1, <3>2
    <3> QED BY <3>3 DEF Replaced
  <2>2. Registered(s) # 0 => /\ Registered(s) \in DOMAIN conn'[s]
                             /\ conn'[s][Registered(s)].master \in Accepted \cup {"unregister"}
    BY <1>4, <1>7, <1>8, <1>9 DEF MasterOK, Accepted
  <2>3. ASSUME NEW j \in DOMAIN conn'[s]
        PROVE  /\ conn'[s][j].master = "replace" => conn'[s][j].old # j
               /\ conn'[s][j].alive /\ conn'[s][j].master \in Accepted => Registered(s) = j \/ Replaced(s, j)'
    <3>1. j \in DOMAIN conn[s] /\ conn'[s][j] = f(j)
      BY <1>8, <1>9
    <3>2. CASE j = old
      BY <1>4, <1>5, <1>7, <3>1, <3>2 DEF MasterOK
    <3>3. CASE j = i
      <4>1. conn'[s][j].master = "back" /\ (conn'[s][j].alive => conn[s][j].alive)
        BY <1>7, <3>1, <3>3
      <4>2. conn[s][j].alive => Registered(s) = j \/ Replaced(s, j)
        BY <1>1, <1>4, <3>1, <3>3 DEF MasterOK, Accepted
      <4> QED BY <1>5, <2>1, <3>3, <4>1, <4>2
    <3>4. CASE j # old /\ j # i
      <4>1. /\ conn'[s][j].master = conn[s][j].master /\ conn'[s][j].old = conn[s][j].old
            /\ conn'[s][j].alive => conn[s][j].alive
        BY <1>7, <3>1, <3>4
      <4> QED BY <1>4, <2>1, <3>1, <3>4, <4>1 DEF MasterOK
    <3> QED BY <3>2, <3>3, <3>4
  <2> QED BY <1>13, <2>2, <2>3 DEF MasterOK
<1>15. \A t \in Slots : MasterOK(t)'
  BY <1>9, <1>13, <1>14, MastersOK
<1>16. BondOK'
  BY <1>1 DEF IInv, BondOK, Nobody
<1>17. SelOK'
  <2>1. \A t \in Slots : DOMAIN conn[t] \subseteq DOMAIN conn'[t]
    BY <1>8, <1>9
  <2> QED BY <1>1, <2>1, SelKeeps
<1> QED BY <1>11, <1>12, <1>15, <1>16, <1>17 DEF IInv

LEMMA UnregistersInv ==
    ASSUME IInv, NEW s \in Slots, NEW i \in DOMAIN conn[s], MasterUnregisters(s, i) PROVE IInv'
<1> DEFINE o == conn[s][i]
           c == [o EXCEPT !.master = "done"]
<1>1. /\ o.master = "unregister" /\ conn' = [conn EXCEPT ![s] = [conn[s] EXCEPT ![i] = c]]
      /\ UNCHANGED <<running, stopping, login, sreg, sel, env>>
  BY DEF MasterUnregisters, SetMaster
<1>2. o \in ConnStates /\ i \in Nat /\ i # 0
  BY Typed
<1>3. /\ bonds' \in Seq([Slots -> Nat]) /\ DOMAIN bonds' = DOMAIN bonds /\ bond' \in Nat
      /\ Registered(s)' = IF Registered(s) = i THEN 0 ELSE Registered(s)
      /\ \A t \in Slots \ {s} : Registered(t)' = Registered(t)
      /\ BondOK'
  <2>1. CASE bond = 0
    <3>1. bond' = bond /\ bonds' = bonds
      BY <2>1 DEF MasterUnregisters
    <3>2. \A t \in Slots : Registered(t)' = Registered(t) /\ Registered(t) = 0
      BY <2>1, <3>1 DEF Registered
    <3>3. BondOK'
      BY <3>1 DEF IInv, BondOK, Nobody
    <3> QED BY <1>2, <2>1, <3>1, <3>2, <3>3, Bonds
  <2>2. CASE bond # 0
    <3> DEFINE left == IF Registered(s) = i THEN [bonds[bond] EXCEPT ![s] = 0] ELSE bonds[bond]
    <3>1. bonds' = [bonds EXCEPT ![bond] = left] /\ bond' = IF left = Nobody THEN 0 ELSE bond
      BY <2>2 DEF MasterUnregisters
    <3>2. bonds[bond] \in [Slots -> Nat] /\ \A t \in Slots : Registered(t) = bonds[bond][t]
      BY <2>2, Bonds DEF Registered
    <3>3. /\ left \in [Slots -> Nat] /\ left[s] = IF Registered(s) = i THEN 0 ELSE Registered(s)
          /\ \A t \in Slots \ {s} : left[t] = Registered(t)
      BY <3>2
    <3> HIDE DEF left
    <3>4. bond' = bond \/ (bond' = 0 /\ left = Nobody)
      BY <3>1
    <3>5. /\ bonds' \in Seq([Slots -> Nat]) /\ DOMAIN bonds' = DOMAIN bonds /\ bond' \in Nat
          /\ \A t \in Slots : Registered(t)' = left[t]
          /\ BondOK'
      BY <2>2, <3>1, <3>3, <3>4, BondSets
    <3> QED BY <3>3, <3>5
  <2> QED BY <2>1, <2>2
<1> HIDE DEF o
<1>4. c \in ConnStates /\ c.slaver = o.slaver /\ c.tagged = o.tagged /\ c.alive = o.alive
      /\ c.master = "done"
  BY <1>2 DEF ConnStates
<1> HIDE DEF c
<1>5. /\ conn' \in Conns /\ conn'[s][i] = c
      /\ \A t \in Slots : DOMAIN conn'[t] = DOMAIN conn[t]
      /\ \A j \in DOMAIN conn[s] : j # i => conn'[s][j] = conn[s][j]
      /\ \A t \in Slots \ {s} : conn'[t] = conn[t]
      /\ (\A t \in Slots : SlotOK(t)') /\ CloseOK'
  BY <1>1, <1>4, MasterSets DEF o
<1>6. TypeOK'
  BY <1>1, <1>3, <1>5 DEF IInv, TypeOK, Conns
<1>7. MasterOK(s)'
  <2>1. MasterOK(s)
    BY Typed
  <2>2. \A j : Replaced(s, j) => Replaced(s, j)'
    BY <1>1, <1>5 DEF Replaced, o
  <2>3. Registered(s)' # 0 => /\ Registered(s)' = Registered(s) /\ Registered(s) # i
                              /\ Registered(s) \in DOMAIN conn[s]
                              /\ conn[s][Registered(s)].master \in Accepted \cup {"unregister"}
    BY <1>3, <2>1 DEF MasterOK
  <2>4. Registered(s)' # 0 => /\ Registered(s)' \in DOMAIN conn'[s]
                              /\ conn'[s][Registered(s)'].master \in Accepted \cup {"unregister"}
    BY <1>5, <2>3
  <2>5. ASSUME NEW j \in DOMAIN conn[s]
        PROVE  /\ conn'[s][j].master = "replace" => conn'[s][j].old # j
               /\ conn'[s][j].alive /\ conn'[s][j].master \in Accepted => Registered(s)' = j \/ Replaced(s, j)'
    <3>1. CASE j = i
      BY <1>4, <1>5, <3>1 DEF Accepted
    <3>2. CASE j # i
      BY <1>3, <1>5, <2>1, <2>2, <3>2 DEF MasterOK
    <3> QED BY <3>1, <3>2
  <2> QED BY <1>5, <2>4, <2>5 DEF MasterOK
<1>8. \A t \in Slots : MasterOK(t)'
  BY <1>3, <1>5, <1>7, MastersOK
<1>9. SelOK'
  <2>1. \A t \in Slots : DOMAIN conn[t] \subseteq DOMAIN conn'[t]
    BY <1>5
  <2> QED BY <1>1, <1>3, <1>5 DEF IInv, SelOK
<1> QED BY <1>3, <1>5, <1>6, <1>8, <1>9 DEF IInv

(***************************************************************************)
(* The master's SelectChannel.                                             *)
(***************************************************************************)
SelStates == [pc : {"idle", "nil"}] \cup [pc : {"pick"}, bond : Nat \ {0}]
             \cup [pc : {"write"}, slot : Slots, no : Nat \ {0}]

LEMMA SelectOnly ==
    ASSUME IInv, UNCHANGED <<running, stopping, login, conn, sreg, bond, bonds>>,
           env' \in [events : Nat, late : SUBSET Slots], env'.late = env.late,
           sel' \in SelStates, SelOK'
    PROVE  IInv'
<1>1. TypeOK'
  BY DEF IInv, TypeOK, SelStates
<1>2. SlaverSame /\ MasterSame
  BY DEF SlaverSame, MasterSame
<1> QED BY <1>1, <1>2, SlaverKeeps, MasterKeeps DEF IInv

LEMMA LookInv == ASSUME IInv, SelectLook PROVE IInv'
<1>1. /\ bond # 0 /\ sel' = [pc |-> "pick", bond |-> bond] /\ Event
      /\ UNCHANGED <<running, stopping, login, conn, sreg, bond, bonds>>
  BY DEF SelectLook
<1>2. bond \in DOMAIN bonds /\ bond \in Nat \ {0}
  BY <1>1, Bonds
<1>3. sel' \in SelStates
  BY <1>1, <1>2 DEF SelStates
<1>4. SelOK'
  BY <1>1, <1>2 DEF SelOK
<1> QED BY <1>1, <1>3, <1>4, EventOK, SelectOnly

\* What is picked is registered.
LEMMA PicksRegistered ==
    ASSUME IInv, SelectPick
    PROVE  \/ sel' = [pc |-> "nil"]
           \/ \E s \in Slots : /\ Registered(s) # 0
                               /\ sel' = [pc |-> "write", slot |-> s, no |-> Registered(s)]
<1>1. sel.bond \in DOMAIN bonds
  BY DEF SelectPick, IInv, SelOK
<1>2. CASE sel.bond = bond
  <2>1. bond # 0
    BY <1>1, <1>2, Bonds
  <2> QED BY <1>2, <2>1 DEF SelectPick, Registered
<1>3. CASE sel.bond # bond
  BY <1>1, <1>3, Bonds DEF SelectPick
<1> QED BY <1>2, <1>3

LEMMA PickInv == ASSUME IInv, SelectPick PROVE IInv'
<1>1. UNCHANGED <<running, stopping, login, conn, sreg, bond, bonds, env>>
  BY DEF SelectPick
<1>2. CASE sel' = [pc |-> "nil"]
  <2>1. sel' \in SelStates /\ SelOK'
    BY <1>2 DEF SelStates, SelOK
  <2> QED BY <1>1, <2>1, EnvOK, SelectOnly
<1>3. ASSUME NEW s \in Slots, Registered(s) # 0,
             sel' = [pc |-> "write", slot |-> s, no |-> Registered(s)]
      PROVE  IInv'
  <2>1. PICK k \in Nat : k = Registered(s)
    BY Bonds
  <2>2. sel' = [pc |-> "write", slot |-> s, no |-> k] /\ k # 0 /\ k \in DOMAIN conn[s]
    BY <1>3, <2>1, Typed DEF MasterOK
  <2>3. sel' \in SelStates
    BY <2>1, <2>2 DEF SelStates
  <2>4. sel'.pc = "write" /\ sel'.slot = s /\ sel'.no = k
    BY <2>2
  <2>5. SelOK'
    BY <1>1, <2>2, <2>4 DEF SelOK
  <2> QED BY <1>1, <2>3, <2>5, EnvOK, SelectOnly
<1> QED BY <1>2, <1>3, PicksRegistered

LEMMA WriteInv == ASSUME IInv, SelectWrite PROVE IInv'
<1>1. /\ conn' = Written(sel.slot, sel.no, "dial") /\ sel' = [pc |-> "idle"]
      /\ UNCHANGED <<running, stopping, login, sreg, bond, bonds, env>>
  BY DEF SelectWrite
<1>2. PICK s \in Slots : s = sel.slot
  BY DEF SelectWrite, IInv, SelOK
<1>3. PICK i \in DOMAIN conn[s] : i = sel.no
  BY <1>2 DEF SelectWrite, IInv, SelOK
<1>4. PICK c \in ConnStates :
             /\ Written(s, i, "dial") = [conn EXCEPT ![s] = [conn[s] EXCEPT ![i] = c]]
             /\ c.slaver = conn[s][i].slaver /\ c.tagged = conn[s][i].tagged /\ c.old = conn[s][i].old
             /\ c.alive = conn[s][i].alive /\ c.master = conn[s][i].master
  BY WrittenOK
<1>5. conn' = [conn EXCEPT ![s] = [conn[s] EXCEPT ![i] = c]]
  BY <1>1, <1>2, <1>3, <1>4
<1> QED BY <1>1, <1>4, <1>5, EnvOK, OneMasterInv

(***************************************************************************)
(* The theorems.                                                           *)
(***************************************************************************)
LEMMA NextInv == ASSUME IInv, [Next]_vars PROVE IInv'
<1>1. CASE UNCHANGED vars
  <2>1. TypeOK'
    BY <1>1 DEF vars, IInv, TypeOK
  <2>2. \A s \in Slots : SlotOK(s)' /\ MasterOK(s)'
    BY <1>1 DEF vars, IInv, SlotOK, Last, MasterOK, Registered, Replaced
  <2>3. CloseOK' /\ BondOK' /\ SelOK'
    BY <1>1 DEF vars, IInv, CloseOK, ClosedUnlessLate, BondOK, SelOK, Nobody
  <2> QED BY <2>1, <2>2, <2>3 DEF IInv
<1>2. ASSUME NEW s \in Slots, LoginSteps(s) PROVE IInv'
  BY <1>2, CheckInv, DialInv, JoinReadInv, JoinFailInv, RegisterInv, DoneInv DEF LoginSteps
<1>3. ASSUME NEW s \in Slots, NEW i \in DOMAIN conn[s], SlaverSteps(s, i) PROVE IInv'
  BY <1>3, SlaverFailsInv, SlaverUnregistersInv, OnCloseInv DEF SlaverSteps
<1>4. ASSUME NEW s \in Slots, NEW i \in DOMAIN conn[s], MasterSteps(s, i) PROVE IInv'
  BY <1>4, AcceptInv, RefuseInv, ReplaceInv, BackInv, MasterFailsInv, UnregistersInv DEF MasterSteps
<1> QED BY <1>1, <1>2, <1>3, <1>4, ClosedInv, ProxyCloseInv, RouterCloseInv, LookInv, PickInv, WriteInv
        DEF Next, SelectSteps

\* The invariant is inductive.
THEOREM Inductive == Spec => []IInv
BY InitInv, NextInv, PTL DEF Spec

\* The connections, registries and logins keep their types; what SelectChannel hands on
\* is a channel that was made (router.go, proxy.go).
THEOREM TypeCorrect == Spec => []TypeOK
<1>1. IInv => TypeOK
  BY DEF IInv
<1> QED BY <1>1, Inductive, PTL

\* A slot is logged in by one goroutine at a time, with its last channel out of use
\* (Login, runReconnect and OnConnClose of proxy.go).
THEOREM OneLoginAtATime == Spec => []OneLogin
<1>1. IInv => OneLogin
  <2> SUFFICES ASSUME IInv, NEW s \in Slots, login[s] \in {"check", "dial", "join", "register"}
               PROVE  /\ sreg[s] = 0
                      /\ \A i \in DOMAIN conn[s] : conn[s][i].slaver \notin {"read", "unregister", "onclose"}
    BY DEF OneLogin
  <2>1. \A i \in DOMAIN conn[s] : conn[s][i].slaver \notin Reading
    BY ReaderAt
  <2>2. sreg[s] = 0
    BY <2>1 DEF IInv, SlotOK, Reading
  <2> QED BY <2>1, <2>2 DEF Reading
<1> QED BY <1>1, Inductive, PTL

\* A channel that is logged in and open is in the master's registry, or about to be
\* closed by the login that replaced it (addChannel and the end of loopReadRaw).
THEOREM LiveStaysRegistered == Spec => []LiveIsRegistered
<1>1. IInv => LiveIsRegistered
  BY DEF IInv, MasterOK, LiveIsRegistered, Replaced, Accepted
<1> QED BY <1>1, Inductive, PTL

\* What is open at the slaver after Proxy.Close comes from a login that was past the
\* test of Running when Router.Close collected the channels.
THEOREM ClosesAllButLate == Spec => []ClosedUnlessLate
<1>1. IInv => ClosedUnlessLate
  BY DEF IInv, CloseOK
<1> QED BY <1>1, Inductive, PTL

\* SelectChannel looks a bond up, lets the lock go, and still picks a channel that is
\* registered then: a bond that was dropped meanwhile is empty.
THEOREM OnlyRegisteredSelected == Spec => SelectsRegistered
<1>1. IInv /\ [Next]_vars => [sel.pc = "pick" /\ sel'.pc = "write" => Registered(sel'.slot) = sel'.no]_vars
  <2> SUFFICES ASSUME IInv, Next, sel.pc = "pick", sel'.pc = "write" PROVE Registered(sel'.slot) = sel'.no
    BY DEF vars
  <2>1. CASE SelectPick
    <3>1. CASE sel' = [pc |-> "nil"]
      BY <3>1
    <3>2. ASSUME NEW s \in Slots, sel' = [pc |-> "write", slot |-> s, no |-> Registered(s)]
          PROVE  Registered(sel'.slot) = sel'.no
      BY <3>2
    <3> QED BY <2>1, <3>1, <3>2, PicksRegistered
  <2>2. CASE ~SelectPick
    <3>1. ASSUME NEW s \in Slots, LoginSteps(s) PROVE sel' = sel
      BY <3>1 DEF LoginSteps, ReconnectCheck, LoginDial, JoinRead, JoinFail, JoinRegister, LoginDone
    <3>2. ASSUME NEW s \in Slots, NEW i \in DOMAIN conn[s],
                 SlaverSteps(s, i) \/ MasterSteps(s, i) \/ HeartbeatMissed(s, i) \/ Lose(s, i)
          PROVE  sel' = sel
      <4>1. CASE SlaverSteps(s, i)
        BY <4>1 DEF SlaverSteps, SlaverFails, SlaverUnregisters, OnConnClose
      <4>2. CASE LoginAccept(s, i) \/ LoginRefuse(s, i) \/ LoginReplace(s, i)
        BY <4>2 DEF LoginAccept, LoginRefuse, LoginReplace
      <4>3. CASE LoginBack(s, i) \/ MasterFails(s, i) \/ MasterUnregisters(s, i)
        BY <4>3 DEF LoginBack, MasterFails, MasterUnregisters
      <4>4. CASE HeartbeatMissed(s, i) \/ Lose(s, i)
        BY <4>4 DEF HeartbeatMissed, Lose
      <4> QED BY <3>2, <4>1, <4>2, <4>3, <4>4 DEF MasterSteps
    <3>3. CASE ProxyClose \/ RouterClose
      BY <3>3 DEF ProxyClose, RouterClose
    <3>4. CASE SelectLook
      BY <3>4 DEF SelectLook
    <3>5. CASE SelectWrite
      BY <3>5 DEF SelectWrite
    <3> QED BY <2>2, <3>1, <3>2, <3>3, <3>4, <3>5 DEF Next, SelectSteps
  <2> QED BY <2>1, <2>2
<1> QED BY <1>1, Inductive, PTL DEF Spec, SelectsRegistered
=============================================================================
