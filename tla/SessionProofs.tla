--------------------------- MODULE SessionProofs ---------------------------
(***************************************************************************)
(* Proofs about Session: the type invariant, and that no entry is ever     *)
(* used that does not name the connection it was looked up for.            *)
(***************************************************************************)
EXTENDS Session, TLAPS

(***************************************************************************)
(* The helpers keep the types of the maps they are applied to.             *)
(***************************************************************************)

\* Writing a frame, or losing it, leaves frames on the wires.
LEMMA SentType ==
    ASSUME NEW w \in Wires, NEW n, NEW l, NEW f \in Frames
    PROVE  Sent(w, n, l, f) \in Wires
<1>1. CASE BothOpen(n, l) /\ Peer(n, l) \in Nodes /\ l \in Links
  <2>1. Append(w[Peer(n, l)][l], f) \in Seq(Frames)
    BY <1>1 DEF Wires
  <2> QED BY <1>1, <2>1 DEF Sent, Wires
<1>2. CASE ~(BothOpen(n, l) /\ Peer(n, l) \in Nodes /\ l \in Links)
  BY <1>2 DEF Sent, Wires
<1> QED BY <1>1, <1>2

\* Reading takes a frame off the wire.
LEMMA TakenType ==
    ASSUME TypeOK, NEW n \in Nodes, NEW l \in Links, NEW cmd, HasFrame(n, l, cmd)
    PROVE  /\ Head(wire[n][l]) \in Frames
           /\ Taken(n, l) \in Wires
<1>1. wire[n][l] \in Seq(Frames) /\ wire[n][l] # <<>>
  BY DEF TypeOK, Wires, HasFrame
<1>2. Head(wire[n][l]) \in Frames /\ Tail(wire[n][l]) \in Seq(Frames)
  BY <1>1
<1> QED BY <1>2 DEF Taken, TypeOK, Wires

\* A goroutine that moves on, and one that starts, are in a known state.
LEMMA GotoType ==
    ASSUME Readers, NEW n, NEW c, NEW s \in ReaderStates, Goto(n, c, s)
    PROVE  Readers'
BY DEF Readers, Maps, Goto, LinksOf

LEMMA PutType ==
    ASSUME NEW S, NEW T, NEW f, Maps(f, S, T),
           NEW n, NEW xs \in SUBSET S, NEW v \in T
    PROVE  Maps([f EXCEPT ![n] = Put(@, xs, v)], S, T)
BY DEF Maps, Put

LEMMA KeysType ==
    ASSUME IdsAssumption, NEW n \in Nodes, NEW e \in Entries
    PROVE  KeysOf(n, e) \subseteq Keys
BY DEF IdsAssumption, Entries, Conns, Channels, Raws, KeysOf, Key, ID, Keys

LEMMA AddTableType ==
    ASSUME IdsAssumption, TypeOK, NEW n \in Nodes, NEW e \in Entries,
           table' = [table EXCEPT ![n] = AddTable(n, e)]
    PROVE  Maps(table', Keys, Entries)
<1>1. KeysOf(n, e) \in SUBSET Keys
  BY KeysType
<1>2. AddTable(n, e) = Put(table[n], KeysOf(n, e), e)
  BY DEF AddTable
<1> QED BY <1>1, <1>2 DEF TypeOK, Maps, Put

LEMMA RemoveTableType ==
    ASSUME TypeOK, NEW n \in Nodes, NEW c, NEW s,
           table' = [table EXCEPT ![n] = RemoveTable(n, c, s)]
    PROVE  Maps(table', Keys, Entries)
BY DEF TypeOK, Maps, RemoveTable, Drop

LEMMA LookupType ==
    ASSUME TypeOK, NEW n \in Nodes, NEW c, NEW s
    PROVE  Lookup(n, c, s) \in SUBSET Entries
BY DEF TypeOK, Maps, Lookup

LEMMA NextHopType ==
    ASSUME NEW e \in Entries, NEW c
    PROVE  NextHop(e, c).conn \in Conns /\ NextHop(e, c).sid \in Nat
BY DEF Entries, NextHop

LEMMA CloseRawsType ==
    ASSUME TypeOK, NEW n \in Nodes, NEW ss
    PROVE  Maps(CloseRaws(n, ss), Nat, RawStates)
<1>1. \A r \in RawStates : [r EXCEPT !.closed = TRUE] \in RawStates
  BY DEF RawStates
<1>2. Maps(raw, Nat, RawStates)
  BY DEF TypeOK
<1> QED BY <1>1, <1>2 DEF Maps, CloseRaws

\* What procDialBack does to a raw connection.
LEMMA AnsweredType ==
    ASSUME TypeOK, NEW n, NEW s
    PROVE  /\ Maps([raw EXCEPT ![n][s].ready = TRUE], Nat, RawStates)
           /\ Maps([raw EXCEPT ![n][s].ready = TRUE, ![n][s].failed = TRUE,
                               ![n][s].closed = TRUE], Nat, RawStates)
<1>1. /\ \A r \in RawStates : [r EXCEPT !.ready = TRUE] \in RawStates
      /\ \A r \in RawStates : [r EXCEPT !.failed = TRUE] \in RawStates
      /\ \A r \in RawStates : [r EXCEPT !.closed = TRUE] \in RawStates
  BY DEF RawStates
<1>2. Maps(raw, Nat, RawStates)
  BY DEF TypeOK
<1>3. Maps([raw EXCEPT ![n][s].ready = TRUE], Nat, RawStates)
  BY <1>1, <1>2 DEF Maps
<1>4. Maps([raw EXCEPT ![n][s].ready = TRUE, ![n][s].failed = TRUE], Nat, RawStates)
  BY <1>1, <1>3 DEF Maps
<1>5. Maps([raw EXCEPT ![n][s].ready = TRUE, ![n][s].failed = TRUE,
                       ![n][s].closed = TRUE], Nat, RawStates)
  BY <1>1, <1>4 DEF Maps
<1> QED BY <1>3, <1>5

LEMMA ReplyType ==
    ASSUME TypeOK, NEW n \in Nodes, NEW l \in LinksOf(n), NEW w \in Wires,
           NEW f \in Frames, Reply(n, l, w, f)
    PROVE  wire' \in Wires /\ Readers'
<1>1. PICK ok \in BOOLEAN : /\ wire' = Sent(w, n, l, f)
                            /\ Goto(n, Channel(l), IF ok THEN Reading ELSE Stopping)
  BY DEF Reply
<1>2. (IF ok THEN Reading ELSE Stopping) \in ReaderStates
  BY DEF Reading, Stopping, ReaderStates
<1> QED BY <1>1, <1>2, SentType, GotoType DEF TypeOK

LEMMA WithSidType ==
    ASSUME NEW f \in Frames, NEW s \in Nat
    PROVE  WithSid(f, s) \in Frames
BY DEF Frames, DialFrames, WithSid
LEMMA LinkType == ASSUME NEW n \in Nodes, NEW l \in LinksOf(n) PROVE l \in Links
BY DEF LinksOf

\* What a reader keeps between two steps.
LEMMA FoundType ==
    ASSUME TypeOK, NEW n \in Nodes, NEW c \in DOMAIN reader[n], NEW cmd,
           Acting(n, c, cmd)
    PROVE  /\ reader[n][c].frame \in Frames
           /\ reader[n][c].router \in SUBSET Entries
           /\ reader[n][c].frame.sid \in Nat
<1>1. reader[n][c] \in ReaderStates /\ reader[n][c].pc = "found"
  BY DEF TypeOK, Readers, Maps, Acting
<1>2. reader[n][c] \in [pc : {"found"}, frame : Frames, router : SUBSET Entries]
  BY <1>1 DEF ReaderStates
<1> QED BY <1>2 DEF Frames, DialFrames

LEMMA DialStateType ==
    ASSUME TypeOK, NEW n \in Nodes, NEW c \in DOMAIN reader[n],
           reader[n][c].pc \in {"add", "send"}
    PROVE  /\ reader[n][c].frame \in RelayFrames
           /\ reader[n][c].dst \in Links
           /\ reader[n][c].pc = "send" => reader[n][c].sid \in Nat
BY DEF TypeOK, Readers, Maps, ReaderStates

LEMMA PurgeStateType ==
    ASSUME TypeOK, NEW n \in Nodes, NEW c \in DOMAIN reader[n],
           reader[n][c].pc \in {"purge", "running"}
    PROVE  reader[n][c].running \in SUBSET Nat
BY DEF TypeOK, Readers, Maps, ReaderStates

LEMMA FrameTypes ==
    /\ \A s \in Nat, k \in Calls, r \in Seq(Nodes) : Dial(s, k, r) \in DialFrames
    /\ \A s \in Nat, ok \in BOOLEAN : DialBack(s, ok) \in Frames
    /\ \A s \in Nat, p \in Payloads : Data(s, p) \in Frames
    /\ \A s \in Nat : Closed(s) \in Frames
    /\ DialFrames \subseteq Frames
    /\ \A f \in Frames : f.sid \in Nat
BY DEF Frames, DialFrames, Dial, DialBack, Data, Closed

LEMMA StateTypes ==
    /\ Reading \in ReaderStates /\ Stopping \in ReaderStates
    /\ [pc |-> "unregister"] \in ReaderStates
    /\ [pc |-> "remove"] \in ReaderStates
    /\ [pc |-> "done"] \in ReaderStates
    /\ \A f \in Frames, R \in SUBSET Entries : Found(f, R) \in ReaderStates
BY DEF Reading, Stopping, ReaderStates, Found
(***************************************************************************)
(* Every action keeps the type invariant.                                  *)
(***************************************************************************)

\* The steps of DialConn.
LEMMA CallStateTypes ==
    /\ [pc |-> "error"] \in CallStates
    /\ \A l \in Links : [pc |-> "add", link |-> l] \in CallStates
    /\ \A l \in Links, s \in Nat : [pc |-> "send", link |-> l, sid |-> s] \in CallStates
    /\ \A s \in Nat : [pc |-> "dialed", sid |-> s] \in CallStates
    /\ \A x \in CallStates : x.pc \in {"add", "send"} => x.link \in Links
    /\ \A x \in CallStates : x.pc \in {"send", "dialed"} => x.sid \in Nat
BY DEF CallStates

LEMMA CallStepsType ==
    ASSUME IdsAssumption, CallsAssumption, TypeOK, NEW k \in Calls, CallSteps(k)
    PROVE  TypeOK'
<1> DEFINE n == Caller[k]
<1>n. n \in Nodes /\ Tail(Route[k]) \in Seq(Nodes)
  BY DEF CallsAssumption
<1>k. call \in [Calls -> CallStates] /\ call[k] \in CallStates
  BY DEF TypeOK
<1>1. CASE DialSelect(k)
  <2>1. PICK v \in CallStates : call' = [call EXCEPT ![k] = v]
    <3>1. CASE call' = [call EXCEPT ![k] = [pc |-> "error"]]
      BY <3>1, CallStateTypes
    <3>2. CASE \E l \in Candidates(n, Head(Route[k])) :
                 call' = [call EXCEPT ![k] = [pc |-> "add", link |-> l]]
      <4>1. Candidates(n, Head(Route[k])) \subseteq Links
        BY <1>n DEF Candidates, TypeOK
      <4> QED BY <3>2, <4>1, CallStateTypes
    <3> QED BY <1>1, <3>1, <3>2 DEF DialSelect
  <2>2. call' \in [Calls -> CallStates]
    BY <1>k, <2>1
  <2> QED BY <1>1, <2>2 DEF DialSelect, TypeOK, Readers
<1>2. CASE DialAdd(k)
  <2> DEFINE s == NextSid(n)  l == call[k].link
  <2>1. s \in Nat /\ l \in Links
    <3>1. call[k].pc = "add"
      BY <1>2 DEF DialAdd
    <3>2. s \in Nat
      BY <1>n DEF TypeOK, NextSid
    <3> QED BY <1>k, <3>1, <3>2, CallStateTypes
  <2>2. Entry(Channel(l), s, Raw(s), s, k) \in Entries
    BY <2>1 DEF Entry, Entries, Conns, Channels, Raws, Channel, Raw
  <2>3. Maps(table', Keys, Entries)
    BY <1>2, <1>n, <2>2, AddTableType DEF DialAdd
  <2>4. NewRaw(k, TRUE) \in RawStates
    BY DEF NewRaw, RawStates
  <2>5. Maps(raw', Nat, RawStates)
    <3>1. raw' = [raw EXCEPT ![n] = Put(@, {s}, NewRaw(k, TRUE))]
      BY <1>2 DEF DialAdd
    <3>2. {s} \in SUBSET Nat /\ Maps(raw, Nat, RawStates)
      BY <2>1 DEF TypeOK
    <3> HIDE DEF s, n
    <3> QED BY <3>1, <3>2, <2>4, PutType
  <2>6. call' \in [Calls -> CallStates]
    BY <1>2, <1>k, <2>1, CallStateTypes DEF DialAdd
  <2>7. seq' \in [Nodes -> Nat]
    BY <1>2, <1>n, <2>1 DEF DialAdd, TypeOK
  <2> QED BY <1>2, <2>3, <2>5, <2>6, <2>7 DEF DialAdd, TypeOK, Readers
<1>3. CASE DialSend(k)
  <2> DEFINE s == call[k].sid
  <2>1. s \in Nat
    <3>1. call[k].pc = "send"
      BY <1>3 DEF DialSend
    <3> QED BY <1>k, <3>1, CallStateTypes
  <2>2. Dial(s, k, Tail(Route[k])) \in Frames
    BY <1>n, <2>1, FrameTypes
  <2>3. wire' \in Wires
    <3>1. CASE UNCHANGED wire  BY <3>1 DEF TypeOK
    <3>2. CASE wire' = Sent(wire, n, call[k].link, Dial(s, k, Tail(Route[k])))
      <4>1. wire \in Wires  BY DEF TypeOK
      <4> QED BY <3>2, <4>1, <2>2, SentType
    <3> QED BY <1>3, <3>1, <3>2 DEF DialSend
  <2>4. Maps(table', Keys, Entries)
    <3>1. CASE UNCHANGED table  BY <3>1 DEF TypeOK
    <3>2. CASE table' = [table EXCEPT ![n] = RemoveTable(n, Channel(call[k].link), s)]
      BY <3>2, <1>n, RemoveTableType
    <3> QED BY <1>3, <3>1, <3>2 DEF DialSend
  <2>5. call' \in [Calls -> CallStates]
    BY <1>3, <1>k, <2>1, CallStateTypes DEF DialSend
  <2> QED BY <1>3, <2>3, <2>4, <2>5 DEF DialSend, TypeOK, Readers
<1> QED BY <1>1, <1>2, <1>3 DEF CallSteps
\* The handlers of a channel reader that deal with a Dial.
LEMMA DialFramesType ==
    ASSUME IdsAssumption, TypeOK, NEW n \in Nodes, NEW l \in LinksOf(n),
           \/ ProcDialRefuse(n, l) \/ ProcDialLast(n, l) \/ ProcDialSelect(n, l)
           \/ ProcDialAdd(n, l) \/ ProcDialSend(n, l)
    PROVE  TypeOK'
<1> DEFINE c == Channel(l)  f == Head(wire[n][l])  r == reader[n][c]
<1>l. l \in Links /\ c \in DOMAIN reader[n] /\ Readers /\ wire \in Wires
  BY LinkType DEF TypeOK, Readers
<1>f. ASSUME HasFrame(n, l, "dial")
      PROVE  f \in DialFrames /\ f \in Frames /\ Taken(n, l) \in Wires
  <2>1. f \in Frames /\ Taken(n, l) \in Wires /\ f.cmd = "dial"
    BY <1>f, <1>l, TakenType DEF HasFrame
  <2> QED BY <2>1 DEF Frames, DialFrames
<1>1. CASE ProcDialRefuse(n, l)
  <2>1. f.sid \in Nat /\ Taken(n, l) \in Wires
    BY <1>1, <1>f, FrameTypes DEF ProcDialRefuse
  <2>2. DialBack(f.sid, FALSE) \in Frames
    BY <2>1, FrameTypes
  <2>3. wire' \in Wires /\ Readers'
    BY <1>1, <2>1, <2>2, ReplyType DEF ProcDialRefuse
  <2> QED BY <1>1, <2>3 DEF ProcDialRefuse, TypeOK
<1>2. CASE ProcDialLast(n, l)
  <2>1. f \in DialFrames /\ wire' \in Wires
    BY <1>2, <1>f DEF ProcDialLast
  <2>2. [pc |-> "dial", link |-> l, sid |-> f.sid, call |-> f.call] \in Dialing
    BY <1>l, <2>1 DEF Dialing, DialFrames
  <2>3. dialing' \in [Nodes -> SUBSET Dialing]
    BY <1>2, <2>2 DEF ProcDialLast, TypeOK
  <2> QED BY <1>2, <2>1, <2>3 DEF ProcDialLast, TypeOK, Readers
<1>3. CASE ProcDialSelect(n, l)
  <2>1. f \in DialFrames /\ wire' \in Wires
    BY <1>3, <1>f DEF ProcDialSelect
  <2>0. f \in RelayFrames
    BY <1>3, <2>1 DEF ProcDialSelect, RelayFrames
  <2>2. PICK d \in Candidates(n, Head(f.route)) :
               Goto(n, c, [pc |-> "add", frame |-> f, dst |-> d])
    BY <1>3 DEF ProcDialSelect
  <2>3. d \in Links
    BY DEF Candidates, TypeOK
  <2>4. [pc |-> "add", frame |-> f, dst |-> d] \in ReaderStates
    BY <2>0, <2>3 DEF ReaderStates
  <2>5. Readers'
    BY <1>l, <2>2, <2>4, GotoType
  <2> QED BY <1>3, <2>1, <2>5 DEF ProcDialSelect, TypeOK
<1>4. CASE ProcDialAdd(n, l)
  <2> DEFINE s == NextSid(n)
  <2>1. r.frame \in RelayFrames /\ r.dst \in Links /\ s \in Nat
    BY <1>4, <1>l, DialStateType DEF ProcDialAdd, TypeOK, NextSid
  <2>2. Entry(c, r.frame.sid, Channel(r.dst), s, r.frame.call) \in Entries
    BY <1>l, <2>1 DEF Entry, Entries, Conns, Channels, Channel, RelayFrames, DialFrames
  <2>3. Maps(table', Keys, Entries)
    BY <1>4, <2>2, AddTableType DEF ProcDialAdd
  <2>4. [pc |-> "send", frame |-> r.frame, dst |-> r.dst, sid |-> s] \in ReaderStates
    BY <2>1 DEF ReaderStates
  <2>5. Readers'
    BY <1>4, <1>l, <2>4, GotoType DEF ProcDialAdd
  <2>6. seq' \in [Nodes -> Nat]
    BY <1>4, <2>1 DEF ProcDialAdd, TypeOK
  <2> QED BY <1>4, <2>3, <2>5, <2>6 DEF ProcDialAdd, TypeOK
<1>5. CASE ProcDialSend(n, l)
  <2>1. r.frame \in RelayFrames /\ r.sid \in Nat
    BY <1>5, <1>l, DialStateType DEF ProcDialSend
  <2>2. r.frame.sid \in Nat /\ r.frame.call \in Calls /\ Tail(r.frame.route) \in Seq(Nodes)
    <3>1. /\ r.frame.sid \in Nat /\ r.frame.call \in Calls
          /\ r.frame.route \in Seq(Nodes) /\ r.frame.route # <<>>
      BY <2>1 DEF RelayFrames, DialFrames
    <3> QED BY <3>1
  <2>3. CASE /\ wire' = Sent(wire, n, r.dst, Dial(r.sid, r.frame.call, Tail(r.frame.route)))
             /\ Goto(n, c, Reading)
             /\ UNCHANGED table
    <3>1. Dial(r.sid, r.frame.call, Tail(r.frame.route)) \in Frames
      BY <2>1, <2>2, FrameTypes
    <3>2. wire' \in Wires /\ Readers'
      BY <2>3, <1>l, <3>1, SentType, GotoType, StateTypes
    <3> QED BY <1>5, <2>3, <3>2 DEF ProcDialSend, TypeOK
  <2>4. CASE /\ Reply(n, l, wire, DialBack(r.frame.sid, FALSE))
             /\ table' = [table EXCEPT ![n] = RemoveTable(n, c, r.frame.sid)]
    <3>1. wire' \in Wires /\ Readers'
      BY <2>4, <1>l, <2>2, ReplyType, FrameTypes
    <3>2. Maps(table', Keys, Entries)
      BY <2>4, RemoveTableType
    <3> QED BY <1>5, <3>1, <3>2 DEF ProcDialSend, TypeOK
  <2> QED BY <1>5, <2>3, <2>4 DEF ProcDialSend
<1> QED BY <1>1, <1>2, <1>3, <1>4, <1>5
\* procRawDial.
LEMMA DialStepsType ==
    ASSUME IdsAssumption, TypeOK, NEW n \in Nodes, NEW d \in dialing[n], DialSteps(n, d)
    PROVE  TypeOK'
<1> DEFINE s == NextSid(n)
<1>d. /\ d \in Dialing /\ d.link \in Links /\ d.sid \in Nat
      /\ d.pc = "dial" => d.call \in Calls
      /\ d.pc = "back" => d.raw \in Nat
  BY DEF TypeOK, Dialing
<1>w. wire \in Wires /\ Readers /\ s \in Nat /\ [seq EXCEPT ![n] = s] \in [Nodes -> Nat]
  BY DEF TypeOK, NextSid
<1>b. \A ok \in BOOLEAN : Sent(wire, n, d.link, DialBack(d.sid, ok)) \in Wires
  BY <1>d, <1>w, FrameTypes, SentType
<1>r. [dialing EXCEPT ![n] = @ \ {d}] \in [Nodes -> SUBSET Dialing]
  BY DEF TypeOK
<1>1. CASE RawDialFail(n, d)
  BY <1>1, <1>w, <1>b, <1>r DEF RawDialFail, TypeOK, Readers
<1>2. CASE RawDialAdd(n, d)
  <2>0. d.call \in Calls
    BY <1>2, <1>d DEF RawDialAdd
  <2>1. NewRaw(d.call, FALSE) \in RawStates
    BY <2>0 DEF NewRaw, RawStates
  <2>2. Maps(raw', Nat, RawStates)
    <3>1. raw' = [raw EXCEPT ![n] = Put(@, {s}, NewRaw(d.call, FALSE))]
      BY <1>2 DEF RawDialAdd
    <3>2. {s} \in SUBSET Nat /\ Maps(raw, Nat, RawStates)
      BY <1>w DEF TypeOK
    <3> HIDE DEF s
    <3> QED BY <3>1, <3>2, <2>1, PutType
  <2>3. Entry(Channel(d.link), d.sid, Raw(s), s, d.call) \in Entries
    BY <1>d, <1>w, <2>0 DEF Entry, Entries, Conns, Channels, Raws, Channel, Raw
  <2>4. Maps(table', Keys, Entries)
    BY <1>2, <2>3, AddTableType DEF RawDialAdd
  <2>5. [pc |-> "back", link |-> d.link, sid |-> d.sid, raw |-> s] \in Dialing
    BY <1>d, <1>w DEF Dialing
  <2>6. dialing' \in [Nodes -> SUBSET Dialing]
    BY <1>2, <2>5 DEF RawDialAdd, TypeOK
  <2> QED BY <1>2, <1>w, <2>2, <2>4, <2>6 DEF RawDialAdd, TypeOK, Readers
<1>3. CASE RawDialBack(n, d)
  <2>1. CASE /\ wire' = Sent(wire, n, d.link, DialBack(d.sid, TRUE))
             /\ reader' = [reader EXCEPT ![n] = Put(@, {Raw(d.raw)}, Reading)]
             /\ UNCHANGED <<raw, table>>
    <3>1. {Raw(d.raw)} \in SUBSET Conns
      BY <1>3, <1>d DEF RawDialBack, Raw, Conns, Raws
    <3>2. Maps(reader', Conns, ReaderStates)
      BY <2>1, <3>1, <1>w, PutType, StateTypes DEF Readers
    <3>3. Readers'
      BY <2>1, <3>2, <1>w DEF Readers, Put, Maps, LinksOf
    <3> QED BY <1>3, <1>b, <1>r, <2>1, <3>3 DEF RawDialBack, TypeOK
  <2>2. CASE /\ raw' = CloseRaws(n, {d.raw})
             /\ table' = [table EXCEPT ![n] = RemoveTable(n, Channel(d.link), d.sid)]
             /\ UNCHANGED <<wire, reader>>
    <3>1. Maps(raw', Nat, RawStates)
      BY <2>2, CloseRawsType
    <3>2. Maps(table', Keys, Entries)
      BY <2>2, RemoveTableType
    <3> QED BY <1>3, <1>r, <2>2, <3>1, <3>2 DEF RawDialBack, TypeOK, Readers
  <2> QED BY <1>3, <2>1, <2>2 DEF RawDialBack
<1> QED BY <1>1, <1>2, <1>3 DEF DialSteps
\* The handlers of a channel reader that deal with an answer to a Dial.
LEMMA DialBackFramesType ==
    ASSUME IdsAssumption, TypeOK, NEW n \in Nodes, NEW l \in LinksOf(n),
           \/ ProcDialBack(n, l) \/ DialBackUnknown(n, l) \/ DialBackReady(n, l)
           \/ DialBackFailed(n, l) \/ DialBackForward(n, l)
    PROVE  TypeOK'
<1> DEFINE c == Channel(l)  f == Head(wire[n][l])  r == reader[n][c]
<1>l. l \in Links /\ c \in DOMAIN reader[n] /\ Readers /\ wire \in Wires
  BY LinkType DEF TypeOK, Readers
<1>a. ASSUME Acting(n, c, "dialback")
      PROVE  r.frame \in Frames /\ r.router \in SUBSET Entries /\ r.frame.sid \in Nat
  BY <1>a, <1>l, FoundType
<1>1. CASE ProcDialBack(n, l)
  <2>1. f \in Frames /\ Taken(n, l) \in Wires
    BY <1>1, <1>l, TakenType DEF ProcDialBack
  <2>2. Found(f, Lookup(n, c, f.sid)) \in ReaderStates
    BY <2>1, LookupType, StateTypes
  <2>3. Readers'
    BY <1>1, <1>l, <2>2, GotoType DEF ProcDialBack
  <2> QED BY <1>1, <2>1, <2>3 DEF ProcDialBack, TypeOK
<1>2. CASE DialBackUnknown(n, l)
  <2>1. Closed(r.frame.sid) \in Frames
    BY <1>2, <1>a, FrameTypes DEF DialBackUnknown
  <2>2. wire' \in Wires /\ Readers'
    BY <1>2, <1>l, <2>1, ReplyType DEF DialBackUnknown
  <2> QED BY <1>2, <2>2 DEF DialBackUnknown, TypeOK
<1>3. CASE DialBackReady(n, l)
  <2>1. Acting(n, c, "dialback")
    BY <1>3 DEF DialBackReady
  <2>2. PICK e \in r.router : LET t == NextHop(e, c).conn IN
          /\ t.type = "raw"
          /\ table' = [table EXCEPT ![n] =
                         AddTable(n, Entry(c, r.frame.sid, t, t.sid, e.call))]
          /\ IF raw[n][t.sid].closed
             THEN Goto(n, c, Reading) /\ UNCHANGED raw
             ELSE /\ raw' = [raw EXCEPT ![n][t.sid].ready = TRUE]
                  /\ reader' = [reader EXCEPT ![n] = Put(@, {c, t}, Reading)]
    BY <1>3 DEF DialBackReady
  <2> DEFINE t == NextHop(e, c).conn
  <2>3. e \in Entries /\ t \in Conns /\ t.type = "raw" /\ e.call \in Calls
    BY <1>a, <2>1, <2>2, NextHopType DEF Entries
  <2>4. t \in Raws /\ t.sid \in Nat /\ c \in Conns
    BY <1>l, <2>3 DEF Conns, Channels, Raws, Channel
  <2>5. Entry(c, r.frame.sid, t, t.sid, e.call) \in Entries
    BY <1>a, <2>1, <2>3, <2>4 DEF Entry, Entries
  <2>6. Maps(table', Keys, Entries)
    BY <2>2, <2>5, AddTableType
  <2>7. CASE Goto(n, c, Reading) /\ UNCHANGED raw
    <3>1. Readers'
      BY <1>l, <2>7, GotoType, StateTypes
    <3> QED BY <1>3, <2>6, <2>7, <3>1 DEF DialBackReady, TypeOK
  <2>8. CASE /\ raw' = [raw EXCEPT ![n][t.sid].ready = TRUE]
             /\ reader' = [reader EXCEPT ![n] = Put(@, {c, t}, Reading)]
    <3>1. Maps(raw', Nat, RawStates)
      BY <2>8, AnsweredType
    <3>2. {c, t} \in SUBSET Conns
      BY <2>3, <2>4
    <3>3. Maps(reader', Conns, ReaderStates)
      BY <2>8, <3>2, <1>l, PutType, StateTypes DEF Readers
    <3>4. Readers'
      BY <2>8, <3>3, <1>l DEF Readers, Put, Maps, LinksOf
    <3> QED BY <1>3, <2>6, <3>1, <3>4 DEF DialBackReady, TypeOK
  <2> QED BY <2>2, <2>7, <2>8
<1>4. CASE DialBackFailed(n, l)
  <2>1. PICK e \in r.router : LET t == NextHop(e, c).conn IN
          /\ table' = [table EXCEPT ![n] = RemoveTable(n, c, r.frame.sid)]
          /\ raw' = IF raw[n][t.sid].closed THEN raw
                    ELSE [raw EXCEPT ![n][t.sid].ready = TRUE, ![n][t.sid].failed = TRUE,
                                     ![n][t.sid].closed = TRUE]
    BY <1>4 DEF DialBackFailed
  <2>2. Maps(table', Keys, Entries)
    BY <2>1, RemoveTableType
  <2>3. Maps(raw', Nat, RawStates)
    BY <2>1, AnsweredType DEF TypeOK
  <2>4. Readers'
    BY <1>4, <1>l, GotoType, StateTypes DEF DialBackFailed
  <2> QED BY <1>4, <2>2, <2>3, <2>4 DEF DialBackFailed, TypeOK
<1>5. CASE DialBackForward(n, l)
  <2>1. Acting(n, c, "dialback")
    BY <1>5 DEF DialBackForward
  <2>2. PICK e \in r.router : LET hop == NextHop(e, c) IN
          \/ /\ wire' = Sent(wire, n, hop.conn.link, WithSid(r.frame, hop.sid))
             /\ Goto(n, c, Reading)
          \/ Reply(n, l, wire, Closed(r.frame.sid))
    BY <1>5 DEF DialBackForward
  <2>3. WithSid(r.frame, NextHop(e, c).sid) \in Frames /\ Closed(r.frame.sid) \in Frames
    BY <1>a, <2>1, <2>2, NextHopType, WithSidType, FrameTypes
  <2>4. wire' \in Wires /\ Readers'
    BY <1>l, <2>2, <2>3, SentType, GotoType, StateTypes, ReplyType
  <2> QED BY <1>5, <2>4 DEF DialBackForward, TypeOK
<1> QED BY <1>1, <1>2, <1>3, <1>4, <1>5

\* procChannelData and procClosed, for a reader c of a channel or a raw connection.
LEMMA ForwardDataType ==
    ASSUME TypeOK, NEW n \in Nodes, NEW c \in DOMAIN reader[n], ForwardData(n, c)
    PROVE  TypeOK'
<1> DEFINE r == reader[n][c]
<1>1. PICK e \in r.router : LET hop == NextHop(e, c) IN
        IF hop.conn.type = "raw"
        THEN /\ raw' = Deliver(n, hop.conn.sid, r.frame.payload)
             /\ Goto(n, c, Reading)
             /\ UNCHANGED wire
        ELSE \E ok \in BOOLEAN :
             /\ CanWrite(n, hop.conn.link, ok)
             /\ wire' = Sent(wire, n, hop.conn.link, WithSid(r.frame, hop.sid))
             /\ Goto(n, c, IF ~ok /\ c.type = "raw" THEN Stopping ELSE Reading)
             /\ UNCHANGED raw
  BY DEF ForwardData
<1> DEFINE hop == NextHop(e, c)
<1>2. Acting(n, c, "data")
  BY DEF ForwardData
<1>3. r.frame \in Frames /\ e \in Entries
  BY <1>1, <1>2, FoundType
<1>4. r.frame.payload \in Payloads
  BY <1>2, <1>3 DEF Acting, Frames, DialFrames
<1>5. wire \in Wires /\ Readers /\ Maps(raw, Nat, RawStates)
  BY DEF TypeOK
<1>6. CASE /\ raw' = Deliver(n, hop.conn.sid, r.frame.payload)
           /\ Goto(n, c, Reading)
           /\ UNCHANGED wire
  <2>1. \A x \in RawStates : [x EXCEPT !.got = Append(@, r.frame.payload)] \in RawStates
    BY <1>4 DEF RawStates
  <2>2. Maps(raw', Nat, RawStates)
    BY <1>5, <1>6, <2>1 DEF Deliver, Maps
  <2>3. Readers'
    BY <1>5, <1>6, GotoType, StateTypes
  <2> QED BY <1>6, <2>2, <2>3 DEF ForwardData, TypeOK
<1>7. CASE \E ok \in BOOLEAN :
             /\ wire' = Sent(wire, n, hop.conn.link, WithSid(r.frame, hop.sid))
             /\ Goto(n, c, IF ~ok /\ c.type = "raw" THEN Stopping ELSE Reading)
             /\ UNCHANGED raw
  <2>1. wire' \in Wires
    BY <1>3, <1>5, <1>7, NextHopType, WithSidType, SentType
  <2>2. Readers'
    BY <1>5, <1>7, GotoType, StateTypes
  <2> QED BY <1>7, <2>1, <2>2 DEF ForwardData, TypeOK
<1> QED BY <1>1, <1>6, <1>7

LEMMA DataFramesType ==
    ASSUME TypeOK, NEW n \in Nodes, NEW l \in LinksOf(n),
           ProcData(n, l) \/ ProcClosed(n, l) \/ ForwardClosed(n, l)
    PROVE  TypeOK'
<1> DEFINE c == Channel(l)  f == Head(wire[n][l])  r == reader[n][c]
           next == IF Lookup(n, c, f.sid) = {} THEN Reading ELSE Found(f, Lookup(n, c, f.sid))
<1>l. l \in Links /\ c \in DOMAIN reader[n] /\ Readers /\ wire \in Wires
  BY LinkType DEF TypeOK, Readers
<1>f. ASSUME NEW cmd, HasFrame(n, l, cmd)
      PROVE  Taken(n, l) \in Wires /\ next \in ReaderStates
  BY <1>f, <1>l, TakenType, LookupType, StateTypes
<1>1. CASE ProcData(n, l)
  <2>1. wire' \in Wires /\ next \in ReaderStates /\ Goto(n, c, next)
    BY <1>1, <1>f DEF ProcData
  <2>2. Readers'
    BY <2>1, <1>l, GotoType
  <2> QED BY <1>1, <2>1, <2>2 DEF ProcData, TypeOK
<1>2. CASE ProcClosed(n, l)
  <2>1. wire' \in Wires /\ next \in ReaderStates /\ Goto(n, c, next)
    BY <1>2, <1>f DEF ProcClosed
  <2>2. Readers'
    BY <2>1, <1>l, GotoType
  <2>3. Maps(table', Keys, Entries)
    BY <1>2, RemoveTableType DEF ProcClosed
  <2> QED BY <1>2, <2>1, <2>2, <2>3 DEF ProcClosed, TypeOK
<1>3. CASE ForwardClosed(n, l)
  <2>1. Acting(n, c, "closed") /\ Goto(n, c, Reading)
    BY <1>3 DEF ForwardClosed
  <2>2. PICK e \in r.router : LET hop == NextHop(e, c) IN
          IF hop.conn.type = "raw"
          THEN raw' = CloseRaws(n, {hop.conn.sid}) /\ UNCHANGED wire
          ELSE /\ wire' = Sent(wire, n, hop.conn.link, WithSid(r.frame, hop.sid))
               /\ UNCHANGED raw
    BY <1>3 DEF ForwardClosed
  <2>3. r.frame \in Frames /\ e \in Entries
    BY <2>1, <2>2, <1>l, FoundType
  <2>4. WithSid(r.frame, NextHop(e, c).sid) \in Frames
    BY <2>3, NextHopType, WithSidType
  <2>5. wire' \in Wires /\ Maps(raw', Nat, RawStates)
    BY <2>2, <2>4, <1>l, SentType, CloseRawsType DEF TypeOK
  <2>6. Readers'
    BY <2>1, <1>l, GotoType, StateTypes
  <2> QED BY <1>3, <2>5, <2>6 DEF ForwardClosed, TypeOK
<1> QED BY <1>1, <1>2, <1>3

\* The end of a channel reader.
LEMMA ExitStateTypes ==
    /\ \A R \in SUBSET Nat : [pc |-> "running", running |-> R] \in ReaderStates
    /\ \A T \in SUBSET Keys, R \in SUBSET Nat :
         [pc |-> "purge", todo |-> T, running |-> R] \in ReaderStates
BY DEF ReaderStates

LEMMA ExitStepsType ==
    ASSUME TypeOK, NEW n \in Nodes, NEW l \in LinksOf(n), ExitSteps(n, l)
    PROVE  TypeOK'
<1> DEFINE c == Channel(l)  r == reader[n][c]
<1>l. l \in Links /\ c \in DOMAIN reader[n] /\ Readers /\ wire \in Wires
  BY LinkType DEF TypeOK, Readers
<1>r. r \in ReaderStates
  BY <1>l DEF Readers, Maps
<1>1. CASE ReadFail(n, l)
  <2>1. Readers'
    BY <1>1, <1>l, GotoType, StateTypes DEF ReadFail
  <2> QED BY <1>1, <2>1 DEF ReadFail, TypeOK
<1>2. CASE CloseChannel(n, l)
  <2>1. Readers'
    BY <1>2, <1>l, GotoType, StateTypes DEF CloseChannel
  <2>2. open' \in [Nodes -> [Links -> BOOLEAN]]
    BY <1>2 DEF CloseChannel, TypeOK
  <2>3. wire' \in Wires
    <3>1. <<>> \in Seq(Frames)
      OBVIOUS
    <3> QED BY <1>2, <1>l, <3>1 DEF CloseChannel, Wires
  <2> QED BY <1>2, <2>1, <2>2, <2>3 DEF CloseChannel, TypeOK
<1>3. CASE Unregister(n, l)
  <2>1. Touched(n, c) \in SUBSET Keys
    BY DEF Touched, TypeOK, Maps
  <2>2. [pc |-> "purge", todo |-> Touched(n, c), running |-> {}] \in ReaderStates
    BY <2>1, ExitStateTypes
  <2>3. [pc |-> "purge", running |-> {}, todo |-> Touched(n, c)]
          = [pc |-> "purge", todo |-> Touched(n, c), running |-> {}]
    OBVIOUS
  <2>4. Readers'
    BY <1>3, <1>l, <2>2, <2>3, GotoType DEF Unregister
  <2>5. reg' \in [Nodes -> SUBSET Links]
    BY <1>3 DEF Unregister, TypeOK
  <2> QED BY <1>3, <2>4, <2>5 DEF Unregister, TypeOK
<1>4. CASE PurgeEntry(n, l)
  <2>1. PICK k \in r.todo \cap DOMAIN table[n] :
          LET hop == NextHop(table[n][k], c)  toRaw == hop.conn.type = "raw" IN
          /\ wire' = IF toRaw THEN wire ELSE Sent(wire, n, hop.conn.link, Closed(hop.sid))
          /\ table' = [table EXCEPT ![n] = RemoveTable(n, hop.conn, hop.sid)]
          /\ Goto(n, c, [r EXCEPT !.todo = @ \ {k},
                                  !.running = IF toRaw THEN @ \cup {hop.conn.sid} ELSE @])
    BY <1>4 DEF PurgeEntry
  <2> DEFINE hop == NextHop(table[n][k], c)
             T == r.todo \ {k}
             R == IF hop.conn.type = "raw" THEN r.running \cup {hop.conn.sid} ELSE r.running
  <2>2. table[n][k] \in Entries
    BY DEF TypeOK, Maps
  <2>3. hop.conn \in Conns /\ hop.sid \in Nat
    BY <2>2, NextHopType
  <2>4. r \in [pc : {"purge"}, todo : SUBSET Keys, running : SUBSET Nat]
    BY <1>4, <1>r DEF PurgeEntry, ReaderStates
  <2>5. R \in SUBSET Nat /\ T \in SUBSET Keys
    BY <2>3, <2>4 DEF Conns, Channels, Raws
  <2>6. Goto(n, c, [r EXCEPT !.todo = T, !.running = R])
    BY <2>1
  <2>7. Readers'
    <3> HIDE DEF T, R
    <3>1. [r EXCEPT !.todo = T] \in [pc : {"purge"}, todo : SUBSET Keys, running : SUBSET Nat]
      BY <2>4, <2>5
    <3>2. [r EXCEPT !.todo = T, !.running = R]
            \in [pc : {"purge"}, todo : SUBSET Keys, running : SUBSET Nat]
      BY <3>1, <2>5
    <3>3. [r EXCEPT !.todo = T, !.running = R] \in ReaderStates
      BY <3>2 DEF ReaderStates
    <3> QED BY <1>l, <2>6, <3>3, GotoType
  <2>8. wire' \in Wires
    BY <1>l, <2>1, <2>3, SentType, FrameTypes
  <2>9. Maps(table', Keys, Entries)
    BY <2>1, RemoveTableType
  <2> QED BY <1>4, <2>7, <2>8, <2>9 DEF PurgeEntry, TypeOK
<1>5. CASE PurgeDone(n, l)
  <2>1. r.running \in SUBSET Nat
    BY <1>5, <1>l, PurgeStateType DEF PurgeDone
  <2>2. Readers'
    BY <1>5, <1>l, <2>1, GotoType, ExitStateTypes DEF PurgeDone
  <2> QED BY <1>5, <2>2 DEF PurgeDone, TypeOK
<1>6. CASE CloseRunning(n, l)
  <2>1. Readers'
    BY <1>6, <1>l, GotoType, StateTypes DEF CloseRunning
  <2>2. Maps(raw', Nat, RawStates)
    BY <1>6, CloseRawsType DEF CloseRunning
  <2> QED BY <1>6, <2>1, <2>2 DEF CloseRunning, TypeOK
<1> QED BY <1>1, <1>2, <1>3, <1>4, <1>5, <1>6 DEF ExitSteps

\* The reader of a raw connection.
LEMMA RawStepsType ==
    ASSUME TypeOK, NEW n \in Nodes, NEW s \in DOMAIN raw[n], RawSteps(n, s)
    PROVE  TypeOK'
<1> DEFINE c == Raw(s)  r == raw[n][s]
<1>l. c \in DOMAIN reader[n] /\ Readers /\ wire \in Wires /\ Maps(raw, Nat, RawStates)
  BY DEF TypeOK, RawSteps
<1>s. s \in Nat /\ r \in RawStates
  BY <1>l DEF Maps
<1>1. CASE RawRead(n, s)
  <2> DEFINE p == [call |-> r.call, dialer |-> r.dialer, no |-> r.sent + 1]
             router == Lookup(n, c, s)
             next == IF router = {} THEN Stopping ELSE Found(Data(s, p), router)
  <2>1. p \in Payloads
    BY <1>s DEF RawStates, Payloads
  <2>2. next \in ReaderStates
    <3>1. Data(s, p) \in Frames
      BY <1>s, <2>1, FrameTypes
    <3>2. router \in SUBSET Entries
      BY LookupType
    <3> QED BY <3>1, <3>2, StateTypes
  <2>3. Readers'
    <3>1. Goto(n, c, next)
      BY <1>1 DEF RawRead
    <3> HIDE DEF next
    <3> QED BY <1>l, <2>2, <3>1, GotoType
  <2>4. Maps(raw', Nat, RawStates)
    <3>1. \A x \in RawStates : [x EXCEPT !.sent = @ + 1] \in RawStates
      BY DEF RawStates
    <3>2. raw' = [raw EXCEPT ![n][s].sent = @ + 1]
      BY <1>1 DEF RawRead
    <3> QED BY <1>l, <3>1, <3>2 DEF Maps
  <2> QED BY <1>1, <2>3, <2>4 DEF RawRead, TypeOK
<1>2. CASE ForwardData(n, Raw(s))
  BY <1>2, <1>l, ForwardDataType
<1>3. CASE RawReadFail(n, s) \/ RawEnd(n, s)
  <2>1. Readers'
    BY <1>3, <1>l, GotoType, StateTypes DEF RawReadFail, RawEnd
  <2>2. env' \in [ended : Nat, lost : Nat, closed : SUBSET Nodes]
    BY <1>3 DEF RawReadFail, RawEnd, TypeOK
  <2> QED BY <1>3, <2>1, <2>2 DEF RawReadFail, RawEnd, TypeOK
<1>4. CASE CloseRaw(n, s)
  <2>1. Readers'
    BY <1>4, <1>l, GotoType, StateTypes DEF CloseRaw
  <2>2. Maps(raw', Nat, RawStates)
    BY <1>4, CloseRawsType DEF CloseRaw
  <2> QED BY <1>4, <2>1, <2>2 DEF CloseRaw, TypeOK
<1>5. CASE RemoveRaw(n, s)
  <2>1. Readers'
    BY <1>5, <1>l, GotoType, StateTypes DEF RemoveRaw
  <2>2. Maps(table', Keys, Entries)
    BY <1>5, RemoveTableType DEF RemoveRaw
  <2>3. wire' \in Wires
    <3> DEFINE e == CHOOSE x \in Lookup(n, c, s) : TRUE
    <3>1. CASE Lookup(n, c, s) = {}
      BY <1>5, <1>l, <3>1 DEF RemoveRaw
    <3>2. CASE Lookup(n, c, s) # {}
      <4>1. e \in Entries
        BY <3>2, LookupType
      <4>2. Closed(NextHop(e, c).sid) \in Frames
        BY <4>1, NextHopType, FrameTypes
      <4>3. wire' = Sent(wire, n, NextHop(e, c).conn.link, Closed(NextHop(e, c).sid))
        BY <1>5, <3>2 DEF RemoveRaw
      <4> QED BY <1>l, <4>2, <4>3, SentType
    <3> QED BY <3>1, <3>2
  <2> QED BY <1>5, <2>1, <2>2, <2>3 DEF RemoveRaw, TypeOK
<1> QED BY <1>1, <1>2, <1>3, <1>4, <1>5 DEF RawSteps

\* Closing from outside.
LEMMA OutsideType ==
    ASSUME TypeOK, NEW n \in Nodes,
           (\E l \in LinksOf(n) : Lose(n, l)) \/ RouterClose(n) \/ RouterCloseOne(n)
    PROVE  TypeOK'
<1>1. CASE \E l \in LinksOf(n) : Lose(n, l)
  <2>1. PICK l \in LinksOf(n) : Lose(n, l)
    BY <1>1
  <2>2. open' \in [Nodes -> [Links -> BOOLEAN]]
    BY <2>1 DEF Lose, TypeOK
  <2>3. env' \in [ended : Nat, lost : Nat, closed : SUBSET Nodes]
    <3>1. env \in [ended : Nat, lost : Nat, closed : SUBSET Nodes]
      BY DEF TypeOK
    <3>2. env' = [env EXCEPT !.lost = env.lost + 1]
      BY <2>1 DEF Lose
    <3>3. env.lost + 1 \in Nat
      BY <3>1
    <3>4. ASSUME NEW x \in [ended : Nat, lost : Nat, closed : SUBSET Nodes], NEW i \in Nat
          PROVE  [x EXCEPT !.lost = i] \in [ended : Nat, lost : Nat, closed : SUBSET Nodes]
      OBVIOUS
    <3> QED BY <3>1, <3>2, <3>3, <3>4
  <2> QED BY <2>1, <2>2, <2>3 DEF Lose, TypeOK, Readers
<1>2. CASE RouterClose(n)
  <2>1. /\ \A l \in reg[n] : Channel(l) \in Conns
        /\ \A k \in DOMAIN table[n] : table[n][k].src \in Conns /\ table[n][k].dst \in Conns
    BY DEF TypeOK, Maps, Entries, Channel, Conns, Channels
  <2>2. closing' \in [Nodes -> SUBSET Conns]
    BY <1>2, <2>1 DEF RouterClose, TypeOK
  <2>3. env' \in [ended : Nat, lost : Nat, closed : SUBSET Nodes]
    <3>1. env \in [ended : Nat, lost : Nat, closed : SUBSET Nodes]
      BY DEF TypeOK
    <3>2. env.closed \cup {n} \in SUBSET Nodes
      BY <3>1
    <3>3. env' = [env EXCEPT !.closed = env.closed \cup {n}]
      BY <1>2 DEF RouterClose
    <3> QED BY <3>1, <3>2, <3>3
  <2> QED BY <1>2, <2>2, <2>3 DEF RouterClose, TypeOK, Readers
<1>3. CASE RouterCloseOne(n)
  <2>1. PICK c \in closing[n] :
          /\ closing' = [closing EXCEPT ![n] = @ \ {c}]
          /\ IF c.type = "raw" THEN raw' = CloseRaws(n, {c.sid}) /\ UNCHANGED open
             ELSE open' = [open EXCEPT ![n][c.link] = FALSE] /\ UNCHANGED raw
    BY <1>3 DEF RouterCloseOne
  <2>2. closing' \in [Nodes -> SUBSET Conns]
    BY <2>1 DEF TypeOK
  <2>3. open' \in [Nodes -> [Links -> BOOLEAN]]
    <3>1. open \in [Nodes -> [Links -> BOOLEAN]]
      BY DEF TypeOK
    <3>2. [open EXCEPT ![n][c.link] = FALSE] \in [Nodes -> [Links -> BOOLEAN]]
      BY <3>1
    <3> QED BY <2>1, <3>1, <3>2
  <2>4. Maps(raw', Nat, RawStates)
    BY <2>1, CloseRawsType DEF TypeOK
  <2> QED BY <1>3, <2>2, <2>3, <2>4 DEF RouterCloseOne, TypeOK, Readers
<1> QED BY <1>1, <1>2, <1>3

LEMMA InitType ==
    ASSUME IdsAssumption, Init
    PROVE  TypeOK
<1>1. Readers
  BY DEF Init, Readers, Maps, LinksOf, Channel, Conns, Channels, Reading, ReaderStates
<1>2. wire \in Wires
  BY DEF Init, Wires
<1>3. call \in [Calls -> CallStates]
  BY DEF Init, CallStates
<1>4. seq \in [Nodes -> Nat] /\ Maps(table, Keys, Entries) /\ Maps(raw, Nat, RawStates)
  BY DEF Init, IdsAssumption, Maps, Empty
<1>5. reg \in [Nodes -> SUBSET Links] /\ open \in [Nodes -> [Links -> BOOLEAN]]
  BY DEF Init, LinksOf
<1> QED BY <1>1, <1>2, <1>3, <1>4, <1>5 DEF Init, TypeOK

LEMMA NextType ==
    ASSUME IdsAssumption, CallsAssumption, TypeOK, [Next]_vars
    PROVE  TypeOK'
<1>1. CASE UNCHANGED vars
  BY <1>1 DEF vars, TypeOK, Readers
<1>2. ASSUME NEW k \in Calls, CallSteps(k) PROVE TypeOK'
  BY <1>2, CallStepsType
<1>3. ASSUME NEW n \in Nodes, NEW l \in LinksOf(n), FrameSteps(n, l) PROVE TypeOK'
  <2>1. Channel(l) \in DOMAIN reader[n]
    BY DEF TypeOK, Readers
  <2> QED BY <1>3, <2>1, DialFramesType, DialBackFramesType, DataFramesType,
             ForwardDataType DEF FrameSteps
<1>4. ASSUME NEW n \in Nodes, NEW l \in LinksOf(n), ExitSteps(n, l) PROVE TypeOK'
  BY <1>4, ExitStepsType
<1>5. ASSUME NEW n \in Nodes, NEW s \in DOMAIN raw[n], RawSteps(n, s) PROVE TypeOK'
  BY <1>5, RawStepsType
<1>6. ASSUME NEW n \in Nodes, NEW d \in dialing[n], DialSteps(n, d) PROVE TypeOK'
  BY <1>6, DialStepsType
<1>7. ASSUME NEW n \in Nodes,
             (\E l \in LinksOf(n) : Lose(n, l)) \/ RouterClose(n) \/ RouterCloseOne(n)
      PROVE  TypeOK'
  BY <1>7, OutsideType
<1> QED BY <1>1, <1>2, <1>3, <1>4, <1>5, <1>6, <1>7 DEF Next

\* The tables, the goroutines and the frames of any network of routers, however many
\* calls are made and channels are lost, keep the types of TypeOK.
THEOREM TypeCorrect == Spec => []TypeOK
<1>1. Init => TypeOK
  BY IdsAssumption, InitType
<1>2. TypeOK /\ [Next]_vars => TypeOK'
  BY IdsAssumption, CallsAssumption, NextType
<1> QED BY <1>1, <1>2, PTL DEF Spec

(***************************************************************************)
(* A reader only ever acts on an entry that names its own connection.      *)
(*                                                                         *)
(* A key is formatted from the id of a connection, and nothing but the     *)
(* counter both are drawn from keeps the ids of channels and of raw        *)
(* connections apart.  So the invariant says where the ids of raw          *)
(* connections come from, for every place a connection can be found in.    *)
(***************************************************************************)

\* Ids of raw connections were drawn after those of the channels.
Drawn(n, c) == c.type = "raw" => c.sid > Sid0[n]

Sound(n, e) == Drawn(n, e.src) /\ Drawn(n, e.dst) /\ e.src # e.dst

CountersSound == \A n \in Nodes : seq[n] >= Sid0[n]

TablesSound ==
    \A n \in Nodes : \A k \in DOMAIN table[n] :
        k \in KeysOf(n, table[n][k]) /\ Sound(n, table[n][k])

\* The state of a reader of c: what it found holds c, and a dial is passed on over
\* another channel than the one it came from.
StateSound(n, c, x) ==
    /\ x.pc = "found" => \A e \in x.router : Sound(n, e) /\ Holds(e, c)
    /\ x.pc = "add" => c # Channel(x.dst)

ReadersSound ==
    \A n \in Nodes : \A c \in DOMAIN reader[n] :
        Drawn(n, c) /\ StateSound(n, c, reader[n][c])

DialingSound ==
    \A n \in Nodes : \A d \in dialing[n] : d.pc = "back" => d.raw > Sid0[n]

HopInv == CountersSound /\ TablesSound /\ ReadersSound /\ DialingSound

LEMMA HopInvImplies == HopInv => HopDefined
BY DEF HopInv, TablesSound, ReadersSound, StateSound, Sound, HopDefined

\* The ids of two connections of a router differ.
LEMMA IDInjective ==
    ASSUME IdsAssumption, NEW n \in Nodes, NEW c \in Conns, NEW d \in Conns,
           Drawn(n, c), Drawn(n, d), ID(n, c) = ID(n, d)
    PROVE  c = d
<1>1. Sid0[n] \in Nat /\ \A l \in Links : Cid[n][l] \in Nat /\ Cid[n][l] <= Sid0[n]
  BY DEF IdsAssumption
<1>2. CASE c \in Raws /\ d \in Raws
  BY <1>2 DEF Raws, ID
<1>3. CASE c \in Channels /\ d \in Channels
  BY <1>3 DEF Channels, ID, IdsAssumption
<1>4. CASE c \in Raws /\ d \in Channels
  BY <1>1, <1>4 DEF Raws, Channels, ID, Drawn
<1>5. CASE c \in Channels /\ d \in Raws
  BY <1>1, <1>5 DEF Raws, Channels, ID, Drawn
<1> QED BY <1>2, <1>3, <1>4, <1>5 DEF Conns

\* What is found under a key of c holds c.
LEMMA LookupSound ==
    ASSUME IdsAssumption, TypeOK, TablesSound, NEW n \in Nodes,
           NEW c \in DOMAIN reader[n], Drawn(n, c), NEW s, NEW e \in Lookup(n, c, s)
    PROVE  Sound(n, e) /\ Holds(e, c)
<1> DEFINE k == Key(n, c, s)
<1>1. k \in DOMAIN table[n] /\ e = table[n][k]
  BY DEF Lookup
<1>2. k \in KeysOf(n, e) /\ Sound(n, e)
  BY <1>1 DEF TablesSound
<1>3. e.src \in Conns /\ e.dst \in Conns /\ c \in Conns
  BY <1>1 DEF TypeOK, Readers, Maps, Entries
<1>4. ID(n, c) = ID(n, e.src) \/ ID(n, c) = ID(n, e.dst)
  BY <1>2 DEF KeysOf, Key
<1>5. c = e.src \/ c = e.dst
  BY <1>2, <1>3, <1>4, IDInjective DEF Sound
<1> QED BY <1>2, <1>5 DEF Holds

LEMMA AddSound ==
    ASSUME TablesSound, NEW n \in Nodes, NEW e, Sound(n, e),
           table' = [table EXCEPT ![n] = AddTable(n, e)]
    PROVE  TablesSound'
<1>1. DOMAIN table[n] \subseteq DOMAIN Put(table[n], KeysOf(n, e), e)
  BY DEF Put
<1>2. SUFFICES ASSUME NEW m \in Nodes, NEW k \in DOMAIN table'[m]
               PROVE  k \in KeysOf(m, table'[m][k]) /\ Sound(m, table'[m][k])
  BY DEF TablesSound, KeysOf, Key, ID, Sound, Drawn
<1>3. CASE m = n /\ k \in KeysOf(n, e) /\ n \in DOMAIN table
  <2>1. table'[m][k] = e
    BY <1>3 DEF AddTable, Put
  <2> QED BY <1>3, <2>1
<1>4. CASE ~(m = n /\ k \in KeysOf(n, e) /\ n \in DOMAIN table)
  <2>1. k \in DOMAIN table[m] /\ table'[m][k] = table[m][k]
    BY <1>2, <1>4 DEF AddTable, Put
  <2> QED BY <2>1 DEF TablesSound
<1> QED BY <1>3, <1>4

LEMMA RemoveSound ==
    ASSUME TablesSound, NEW n \in Nodes, NEW c, NEW s,
           table' = [table EXCEPT ![n] = RemoveTable(n, c, s)]
    PROVE  TablesSound'
<1>1. SUFFICES ASSUME NEW m \in Nodes, NEW k \in DOMAIN table'[m]
               PROVE  k \in KeysOf(m, table'[m][k]) /\ Sound(m, table'[m][k])
  BY DEF TablesSound, KeysOf, Key, ID, Sound, Drawn
<1>2. k \in DOMAIN table[m] /\ table'[m][k] = table[m][k]
  BY <1>1 DEF RemoveTable, Drop
<1> QED BY <1>2 DEF TablesSound

LEMMA GotoSound ==
    ASSUME ReadersSound, NEW n \in Nodes, NEW c \in DOMAIN reader[n], NEW x,
           StateSound(n, c, x), Goto(n, c, x)
    PROVE  ReadersSound'
BY DEF ReadersSound, Goto, StateSound, Sound, Drawn, Holds

\* Starting the readers of connections with a drawn id.
LEMMA StartSound ==
    ASSUME ReadersSound, NEW n \in Nodes, NEW cs, \A c \in cs : Drawn(n, c),
           reader' = [reader EXCEPT ![n] = Put(@, cs, Reading)]
    PROVE  ReadersSound'
BY DEF ReadersSound, Put, StateSound, Sound, Drawn, Holds, Reading

\* The states that hold no entry and no channel.
LEMMA PlainSound ==
    /\ \A n, c : StateSound(n, c, Reading) /\ StateSound(n, c, Stopping)
    /\ \A n, c : /\ StateSound(n, c, [pc |-> "unregister"])
                 /\ StateSound(n, c, [pc |-> "remove"])
                 /\ StateSound(n, c, [pc |-> "done"])
    /\ \A n, c, x : x.pc \in {"send", "purge", "running"} => StateSound(n, c, x)
BY DEF StateSound, Reading, Stopping

LEMMA ReplySound ==
    ASSUME ReadersSound, NEW n \in Nodes, NEW l, Channel(l) \in DOMAIN reader[n],
           NEW w, NEW f, Reply(n, l, w, f)
    PROVE  ReadersSound'
<1>1. PICK ok \in BOOLEAN : Goto(n, Channel(l), IF ok THEN Reading ELSE Stopping)
  BY DEF Reply
<1>2. StateSound(n, Channel(l), IF ok THEN Reading ELSE Stopping)
  BY PlainSound
<1> QED BY <1>1, <1>2, GotoSound

LEMMA KeepSound ==
    ASSUME HopInv
    PROVE  /\ UNCHANGED seq => CountersSound'
           /\ UNCHANGED table => TablesSound'
           /\ UNCHANGED reader => ReadersSound'
           /\ UNCHANGED dialing => DialingSound'
           /\ \A n \in Nodes : \A d :
                dialing' = [dialing EXCEPT ![n] = @ \ {d}] => DialingSound'
<1>1. UNCHANGED seq => CountersSound'
  BY DEF HopInv, CountersSound
<1>2. UNCHANGED table => TablesSound'
  BY DEF HopInv, TablesSound, KeysOf, Key, ID, Sound, Drawn
<1>3. UNCHANGED reader => ReadersSound'
  BY DEF HopInv, ReadersSound, StateSound, Sound, Drawn, Holds
<1>4. UNCHANGED dialing => DialingSound'
  BY DEF HopInv, DialingSound
<1>5. \A n \in Nodes : \A d :
        dialing' = [dialing EXCEPT ![n] = @ \ {d}] => DialingSound'
  BY DEF HopInv, DialingSound
<1> QED BY <1>1, <1>2, <1>3, <1>4, <1>5

\* A session id that is drawn is above Sid0.
LEMMA DrawSound ==
    ASSUME IdsAssumption, TypeOK, CountersSound, NEW n \in Nodes
    PROVE  /\ NextSid(n) > Sid0[n]
           /\ Drawn(n, Raw(NextSid(n)))
           /\ seq' = [seq EXCEPT ![n] = NextSid(n)] => CountersSound'
<1>1. \A m \in Nodes : seq[m] \in Nat /\ Sid0[m] \in Nat /\ seq[m] >= Sid0[m]
  BY DEF TypeOK, IdsAssumption, CountersSound
<1>2. NextSid(n) = seq[n] + 1 /\ NextSid(n) > Sid0[n]
  BY <1>1 DEF NextSid
<1>3. seq' = [seq EXCEPT ![n] = NextSid(n)] => CountersSound'
  <2> HAVE seq' = [seq EXCEPT ![n] = NextSid(n)]
  <2> QED BY <1>1, <1>2 DEF CountersSound
<1> QED BY <1>2, <1>3 DEF Drawn, Raw

\* An entry between a channel and the raw connection whose id was drawn for it.
LEMMA RawEntrySound ==
    ASSUME NEW n, NEW l, NEW ssid, NEW s, NEW dsid, NEW k, Drawn(n, Raw(s))
    PROVE  Sound(n, Entry(Channel(l), ssid, Raw(s), dsid, k))
BY DEF Sound, Entry, Drawn, Channel, Raw

LEMMA CallStepsSound ==
    ASSUME IdsAssumption, CallsAssumption, TypeOK, HopInv, NEW k \in Calls, CallSteps(k)
    PROVE  HopInv'
<1> DEFINE n == Caller[k]
<1>n. n \in Nodes
  BY DEF CallsAssumption
<1>i. CountersSound /\ TablesSound /\ ReadersSound /\ DialingSound
  BY DEF HopInv
<1>1. CASE DialSelect(k)
  BY <1>1, KeepSound DEF DialSelect, HopInv
<1>2. CASE DialAdd(k)
  <2> DEFINE s == NextSid(n)
             e == Entry(Channel(call[k].link), s, Raw(s), s, k)
  <2>1. Drawn(n, Raw(s)) /\ CountersSound'
    BY <1>2, <1>n, <1>i, DrawSound DEF DialAdd
  <2>2. Sound(n, e)
    BY <2>1, RawEntrySound
  <2>3. TablesSound'
    BY <1>2, <1>n, <1>i, <2>2, AddSound DEF DialAdd
  <2> QED BY <1>2, <2>1, <2>3, KeepSound DEF DialAdd, HopInv
<1>3. CASE DialSend(k)
  <2>1. UNCHANGED table \/ table' = [table EXCEPT ![n] =
                             RemoveTable(n, Channel(call[k].link), call[k].sid)]
    BY <1>3 DEF DialSend
  <2>2. TablesSound'
    BY <1>n, <1>i, <2>1, RemoveSound, KeepSound
  <2> QED BY <1>3, <2>2, KeepSound DEF DialSend, HopInv
<1> QED BY <1>1, <1>2, <1>3 DEF CallSteps

LEMMA DialStepsSound ==
    ASSUME IdsAssumption, TypeOK, HopInv, NEW n \in Nodes, NEW d \in dialing[n],
           DialSteps(n, d)
    PROVE  HopInv'
<1> DEFINE s == NextSid(n)
<1>i. CountersSound /\ TablesSound /\ ReadersSound /\ DialingSound
  BY DEF HopInv
<1>s. s > Sid0[n] /\ Drawn(n, Raw(s)) /\ (seq' = [seq EXCEPT ![n] = s] => CountersSound')
  BY <1>i, DrawSound
<1>1. CASE RawDialFail(n, d)
  BY <1>1, <1>s, KeepSound DEF RawDialFail, HopInv
<1>2. CASE RawDialAdd(n, d)
  <2>1. TablesSound'
    <3>1. Sound(n, Entry(Channel(d.link), d.sid, Raw(s), s, d.call))
      BY <1>s, RawEntrySound
    <3> QED BY <1>2, <1>i, <3>1, AddSound DEF RawDialAdd
  <2>2. DialingSound'
    <3>1. dialing' = [dialing EXCEPT ![n] = (@ \ {d}) \cup
                        {[pc |-> "back", link |-> d.link, sid |-> d.sid, raw |-> s]}]
      BY <1>2 DEF RawDialAdd
    <3> QED BY <1>i, <1>s, <3>1 DEF DialingSound
  <2> QED BY <1>2, <1>s, <2>1, <2>2, KeepSound DEF RawDialAdd, HopInv
<1>3. CASE RawDialBack(n, d)
  <2>1. CASE /\ reader' = [reader EXCEPT ![n] = Put(@, {Raw(d.raw)}, Reading)]
             /\ UNCHANGED <<raw, table>>
    <3> DEFINE cs == {Raw(d.raw)}
    <3>1. \A c \in cs : Drawn(n, c)
      BY <1>3, <1>i DEF RawDialBack, DialingSound, Drawn, Raw
    <3>2. ReadersSound'
      <4>1. reader' = [reader EXCEPT ![n] = Put(@, cs, Reading)]
        BY <2>1
      <4> HIDE DEF cs
      <4> QED BY <1>i, <3>1, <4>1, StartSound
    <3> QED BY <1>3, <2>1, <3>2, KeepSound DEF RawDialBack, HopInv
  <2>2. CASE /\ table' = [table EXCEPT ![n] = RemoveTable(n, Channel(d.link), d.sid)]
             /\ UNCHANGED <<wire, reader>>
    <3>1. TablesSound'
      BY <1>i, <2>2, RemoveSound
    <3> QED BY <1>3, <2>2, <3>1, KeepSound DEF RawDialBack, HopInv
  <2> QED BY <1>3, <2>1, <2>2 DEF RawDialBack
<1> QED BY <1>1, <1>2, <1>3 DEF DialSteps

LEMMA DialFramesSound ==
    ASSUME IdsAssumption, TypeOK, HopInv, NEW n \in Nodes, NEW l \in LinksOf(n),
           \/ ProcDialRefuse(n, l) \/ ProcDialLast(n, l) \/ ProcDialSelect(n, l)
           \/ ProcDialAdd(n, l) \/ ProcDialSend(n, l)
    PROVE  HopInv'
<1> DEFINE c == Channel(l)  r == reader[n][c]
<1>l. c \in DOMAIN reader[n] /\ l \in Links
  BY LinkType DEF TypeOK, Readers
<1>i. CountersSound /\ TablesSound /\ ReadersSound /\ DialingSound
  BY DEF HopInv
<1>1. CASE ProcDialRefuse(n, l)
  <2>1. ReadersSound'
    BY <1>1, <1>l, <1>i, ReplySound DEF ProcDialRefuse
  <2> QED BY <1>1, <2>1, KeepSound DEF ProcDialRefuse, HopInv
<1>2. CASE ProcDialLast(n, l)
  <2>1. DialingSound'
    BY <1>2, <1>i DEF ProcDialLast, DialingSound
  <2> QED BY <1>2, <2>1, KeepSound DEF ProcDialLast, HopInv
<1>3. CASE ProcDialSelect(n, l)
  <2> DEFINE f == Head(wire[n][l])
  <2>1. PICK d \in Candidates(n, Head(f.route)) :
               Goto(n, c, [pc |-> "add", frame |-> f, dst |-> d])
    BY <1>3 DEF ProcDialSelect
  <2>2. c # Channel(d)
    BY <1>3 DEF ProcDialSelect, Candidates, Channel
  <2>3. StateSound(n, c, [pc |-> "add", frame |-> f, dst |-> d])
    BY <2>2 DEF StateSound
  <2>4. ReadersSound'
    BY <1>l, <1>i, <2>1, <2>3, GotoSound
  <2> QED BY <1>3, <2>4, KeepSound DEF ProcDialSelect, HopInv
<1>4. CASE ProcDialAdd(n, l)
  <2> DEFINE s == NextSid(n)
             e == Entry(c, r.frame.sid, Channel(r.dst), s, r.frame.call)
  <2>1. c # Channel(r.dst)
    BY <1>4, <1>l, <1>i DEF ProcDialAdd, ReadersSound, StateSound
  <2>2. Sound(n, e)
    BY <2>1 DEF Sound, Entry, Drawn, Channel
  <2>3. TablesSound'
    BY <1>4, <1>i, <2>2, AddSound DEF ProcDialAdd
  <2>4. CountersSound'
    BY <1>4, <1>i, DrawSound DEF ProcDialAdd
  <2>5. ReadersSound'
    <3> DEFINE x == [pc |-> "send", frame |-> r.frame, dst |-> r.dst, sid |-> s]
    <3>1. x.pc = "send" /\ Goto(n, c, x)
      BY <1>4 DEF ProcDialAdd
    <3>2. StateSound(n, c, x)
      BY <3>1, PlainSound
    <3> QED BY <1>l, <1>i, <3>1, <3>2, GotoSound
  <2> QED BY <1>4, <2>3, <2>4, <2>5, KeepSound DEF ProcDialAdd, HopInv
<1>5. CASE ProcDialSend(n, l)
  <2>1. CASE Goto(n, c, Reading) /\ UNCHANGED table
    <3>1. ReadersSound'
      BY <1>l, <1>i, <2>1, PlainSound, GotoSound
    <3> QED BY <1>5, <2>1, <3>1, KeepSound DEF ProcDialSend, HopInv
  <2>2. CASE /\ Reply(n, l, wire, DialBack(r.frame.sid, FALSE))
             /\ table' = [table EXCEPT ![n] = RemoveTable(n, c, r.frame.sid)]
    <3>1. ReadersSound'
      BY <1>l, <1>i, <2>2, ReplySound
    <3>2. TablesSound'
      BY <1>i, <2>2, RemoveSound
    <3> QED BY <1>5, <3>1, <3>2, KeepSound DEF ProcDialSend, HopInv
  <2> QED BY <1>5, <2>1, <2>2 DEF ProcDialSend
<1> QED BY <1>1, <1>2, <1>3, <1>4, <1>5

LEMMA DialBackFramesSound ==
    ASSUME IdsAssumption, TypeOK, HopInv, NEW n \in Nodes, NEW l \in LinksOf(n),
           \/ ProcDialBack(n, l) \/ DialBackUnknown(n, l) \/ DialBackReady(n, l)
           \/ DialBackFailed(n, l) \/ DialBackForward(n, l)
    PROVE  HopInv'
<1> DEFINE c == Channel(l)  r == reader[n][c]
<1>l. c \in DOMAIN reader[n]
  BY DEF TypeOK, Readers
<1>i. CountersSound /\ TablesSound /\ ReadersSound /\ DialingSound
  BY DEF HopInv
<1>c. Drawn(n, c) /\ c.type = "channel"
  BY DEF Drawn, Channel
<1>1. CASE ProcDialBack(n, l)
  <2> DEFINE f == Head(wire[n][l])  x == Found(f, Lookup(n, c, f.sid))
  <2>1. \A e \in Lookup(n, c, f.sid) : Sound(n, e) /\ Holds(e, c)
    BY <1>l, <1>i, <1>c, LookupSound
  <2>2. StateSound(n, c, x)
    BY <2>1 DEF StateSound, Found
  <2>3. ReadersSound'
    BY <1>1, <1>l, <1>i, <2>2, GotoSound DEF ProcDialBack
  <2> QED BY <1>1, <2>3, KeepSound DEF ProcDialBack, HopInv
<1>2. CASE DialBackUnknown(n, l)
  <2>1. ReadersSound'
    BY <1>2, <1>l, <1>i, ReplySound DEF DialBackUnknown
  <2> QED BY <1>2, <2>1, KeepSound DEF DialBackUnknown, HopInv
<1>3. CASE DialBackReady(n, l)
  <2>1. PICK e \in r.router : LET t == NextHop(e, c).conn IN
          /\ t.type = "raw"
          /\ table' = [table EXCEPT ![n] =
                         AddTable(n, Entry(c, r.frame.sid, t, t.sid, e.call))]
          /\ IF raw[n][t.sid].closed
             THEN Goto(n, c, Reading) /\ UNCHANGED raw
             ELSE /\ raw' = [raw EXCEPT ![n][t.sid].ready = TRUE]
                  /\ reader' = [reader EXCEPT ![n] = Put(@, {c, t}, Reading)]
    BY <1>3 DEF DialBackReady
  <2> DEFINE t == NextHop(e, c).conn
  <2>2. Sound(n, e)
    BY <1>3, <1>l, <1>i, <2>1 DEF DialBackReady, Acting, ReadersSound, StateSound
  <2>3. Drawn(n, t) /\ t.type = "raw"
    BY <2>1, <2>2 DEF Sound, NextHop
  <2>4. Sound(n, Entry(c, r.frame.sid, t, t.sid, e.call))
    <3>1. c # t
      BY <1>c, <2>3
    <3> QED BY <1>c, <2>3, <3>1 DEF Sound, Entry
  <2>5. TablesSound'
    BY <1>i, <2>1, <2>4, AddSound
  <2>6. CASE Goto(n, c, Reading)
    <3>1. ReadersSound'
      BY <1>l, <1>i, <2>6, PlainSound, GotoSound
    <3> QED BY <1>3, <2>5, <3>1, KeepSound DEF DialBackReady, HopInv
  <2>7. CASE reader' = [reader EXCEPT ![n] = Put(@, {c, t}, Reading)]
    <3> DEFINE cs == {c, t}
    <3>1. \A x \in cs : Drawn(n, x)
      BY <1>c, <2>3
    <3>2. ReadersSound'
      <4>1. reader' = [reader EXCEPT ![n] = Put(@, cs, Reading)]
        BY <2>7
      <4> HIDE DEF cs
      <4> QED BY <1>i, <3>1, <4>1, StartSound
    <3> QED BY <1>3, <2>5, <3>2, KeepSound DEF DialBackReady, HopInv
  <2> QED BY <2>1, <2>6, <2>7
<1>4. CASE DialBackFailed(n, l)
  <2>1. table' = [table EXCEPT ![n] = RemoveTable(n, c, r.frame.sid)]
    BY <1>4 DEF DialBackFailed
  <2>2. TablesSound'
    BY <1>i, <2>1, RemoveSound
  <2>3. ReadersSound'
    BY <1>4, <1>l, <1>i, PlainSound, GotoSound DEF DialBackFailed
  <2> QED BY <1>4, <2>2, <2>3, KeepSound DEF DialBackFailed, HopInv
<1>5. CASE DialBackForward(n, l)
  <2>1. Goto(n, c, Reading) \/ Reply(n, l, wire, Closed(r.frame.sid))
    BY <1>5 DEF DialBackForward
  <2>2. ReadersSound'
    BY <1>l, <1>i, <2>1, PlainSound, GotoSound, ReplySound
  <2> QED BY <1>5, <2>2, KeepSound DEF DialBackForward, HopInv
<1> QED BY <1>1, <1>2, <1>3, <1>4, <1>5

LEMMA ForwardDataSound ==
    ASSUME HopInv, NEW n \in Nodes, NEW c \in DOMAIN reader[n], ForwardData(n, c)
    PROVE  HopInv'
<1>1. PICK x \in {Reading, Stopping} : Goto(n, c, x)
  BY DEF ForwardData
<1>2. ReadersSound'
  <2>1. StateSound(n, c, x) /\ ReadersSound
    BY PlainSound DEF HopInv
  <2> QED BY <1>1, <2>1, GotoSound
<1> QED BY <1>2, KeepSound DEF ForwardData, HopInv

LEMMA DataFramesSound ==
    ASSUME IdsAssumption, TypeOK, HopInv, NEW n \in Nodes, NEW l \in LinksOf(n),
           ProcData(n, l) \/ ProcClosed(n, l) \/ ForwardClosed(n, l)
    PROVE  HopInv'
<1> DEFINE c == Channel(l)  f == Head(wire[n][l])
           next == IF Lookup(n, c, f.sid) = {} THEN Reading ELSE Found(f, Lookup(n, c, f.sid))
<1>l. c \in DOMAIN reader[n]
  BY DEF TypeOK, Readers
<1>i. CountersSound /\ TablesSound /\ ReadersSound /\ DialingSound
  BY DEF HopInv
<1>1. StateSound(n, c, next)
  <2>1. Drawn(n, c)
    BY DEF Drawn, Channel
  <2>2. \A e \in Lookup(n, c, f.sid) : Sound(n, e) /\ Holds(e, c)
    BY <1>l, <1>i, <2>1, LookupSound
  <2>3. StateSound(n, c, Found(f, Lookup(n, c, f.sid)))
    BY <2>2 DEF StateSound, Found
  <2> QED BY <2>3, PlainSound
<1>2. CASE ProcData(n, l)
  <2>1. Goto(n, c, next)
    BY <1>2 DEF ProcData
  <2>2. ReadersSound'
    BY <1>l, <1>i, <1>1, <2>1, GotoSound
  <2> QED BY <1>2, <2>2, KeepSound DEF ProcData, HopInv
<1>3. CASE ProcClosed(n, l)
  <2>1. Goto(n, c, next) /\ table' = [table EXCEPT ![n] = RemoveTable(n, c, f.sid)]
    BY <1>3 DEF ProcClosed
  <2>2. ReadersSound'
    BY <1>l, <1>i, <1>1, <2>1, GotoSound
  <2>3. TablesSound'
    BY <1>i, <2>1, RemoveSound
  <2> QED BY <1>3, <2>2, <2>3, KeepSound DEF ProcClosed, HopInv
<1>4. CASE ForwardClosed(n, l)
  <2>1. Goto(n, c, Reading)
    BY <1>4 DEF ForwardClosed
  <2>2. ReadersSound'
    BY <1>l, <1>i, <2>1, PlainSound, GotoSound
  <2> QED BY <1>4, <2>2, KeepSound DEF ForwardClosed, HopInv
<1> QED BY <1>2, <1>3, <1>4

LEMMA ExitStepsSound ==
    ASSUME TypeOK, HopInv, NEW n \in Nodes, NEW l \in LinksOf(n), ExitSteps(n, l)
    PROVE  HopInv'
<1> DEFINE c == Channel(l)  r == reader[n][c]
<1>l. c \in DOMAIN reader[n] /\ r \in ReaderStates
  BY DEF TypeOK, Readers, Maps
<1>i. CountersSound /\ TablesSound /\ ReadersSound /\ DialingSound
  BY DEF HopInv
<1>1. PICK x : Goto(n, c, x) /\ StateSound(n, c, x)
  <2>1. CASE ReadFail(n, l)
    BY <2>1, PlainSound DEF ReadFail
  <2>2. CASE CloseChannel(n, l)
    BY <2>2, PlainSound DEF CloseChannel
  <2>3. CASE Unregister(n, l)
    <3> DEFINE x == [pc |-> "purge", running |-> {}, todo |-> Touched(n, c)]
    <3>1. x.pc = "purge" /\ Goto(n, c, x)
      BY <2>3 DEF Unregister
    <3>2. StateSound(n, c, x)
      BY <3>1, PlainSound
    <3> QED BY <3>1, <3>2
  <2>4. CASE PurgeEntry(n, l)
    <3>1. PICK T, R : Goto(n, c, [r EXCEPT !.todo = T, !.running = R])
      BY <2>4 DEF PurgeEntry
    <3>2. r \in [pc : {"purge"}, todo : SUBSET Keys, running : SUBSET Nat]
      BY <1>l, <2>4 DEF PurgeEntry, ReaderStates
    <3>3. [r EXCEPT !.todo = T, !.running = R].pc = "purge"
      BY <3>2
    <3> DEFINE x == [r EXCEPT !.todo = T, !.running = R]
    <3> HIDE DEF x
    <3>4. x.pc = "purge"
      BY <3>3 DEF x
    <3>5. StateSound(n, c, x)
      BY <3>4, PlainSound
    <3>6. Goto(n, c, x)
      BY <3>1 DEF x
    <3> QED BY <3>5, <3>6
  <2>5. CASE PurgeDone(n, l)
    <3> DEFINE x == [pc |-> "running", running |-> r.running]
    <3>1. x.pc = "running" /\ Goto(n, c, x)
      BY <2>5 DEF PurgeDone
    <3>2. StateSound(n, c, x)
      BY <3>1, PlainSound
    <3> QED BY <3>1, <3>2
  <2>6. CASE CloseRunning(n, l)
    BY <2>6, PlainSound DEF CloseRunning
  <2> QED BY <2>1, <2>2, <2>3, <2>4, <2>5, <2>6 DEF ExitSteps
<1>2. ReadersSound'
  BY <1>l, <1>i, <1>1, GotoSound
<1>3. TablesSound'
  <2>1. UNCHANGED table \/ \E d, s : table' = [table EXCEPT ![n] = RemoveTable(n, d, s)]
    BY DEF ExitSteps, ReadFail, CloseChannel, Unregister, PurgeEntry, PurgeDone, CloseRunning
  <2> QED BY <1>i, <2>1, RemoveSound, KeepSound
<1>4. UNCHANGED <<seq, dialing>>
  BY DEF ExitSteps, ReadFail, CloseChannel, Unregister, PurgeEntry, PurgeDone, CloseRunning
<1> QED BY <1>2, <1>3, <1>4, KeepSound DEF HopInv

LEMMA RawStepsSound ==
    ASSUME IdsAssumption, TypeOK, HopInv, NEW n \in Nodes, NEW s, RawSteps(n, s)
    PROVE  HopInv'
<1> DEFINE c == Raw(s)
<1>l. c \in DOMAIN reader[n] /\ Drawn(n, c)
  BY DEF RawSteps, HopInv, ReadersSound
<1>i. CountersSound /\ TablesSound /\ ReadersSound /\ DialingSound
  BY DEF HopInv
<1>1. CASE RawRead(n, s)
  <2> DEFINE router == Lookup(n, c, s)
  <2>1. PICK p : Goto(n, c, IF router = {} THEN Stopping ELSE Found(Data(s, p), router))
    BY <1>1 DEF RawRead
  <2>2. \A e \in router : Sound(n, e) /\ Holds(e, c)
    BY <1>l, <1>i, LookupSound
  <2>3. StateSound(n, c, Found(Data(s, p), router))
    BY <2>2 DEF StateSound, Found
  <2>4. ReadersSound'
    <3>1. StateSound(n, c, IF router = {} THEN Stopping ELSE Found(Data(s, p), router))
      BY <2>3, PlainSound
    <3> QED BY <1>l, <1>i, <2>1, <3>1, GotoSound
  <2> QED BY <1>1, <2>4, KeepSound DEF RawRead, HopInv
<1>2. CASE ForwardData(n, Raw(s))
  BY <1>2, <1>l, ForwardDataSound
<1>3. CASE RawReadFail(n, s) \/ RawEnd(n, s) \/ CloseRaw(n, s)
  <2>1. Goto(n, c, Stopping) \/ Goto(n, c, [pc |-> "remove"])
    BY <1>3 DEF RawReadFail, RawEnd, CloseRaw
  <2>2. ReadersSound'
    BY <1>l, <1>i, <2>1, PlainSound, GotoSound
  <2> QED BY <1>3, <2>2, KeepSound DEF RawReadFail, RawEnd, CloseRaw, HopInv
<1>4. CASE RemoveRaw(n, s)
  <2>1. Goto(n, c, [pc |-> "done"]) /\ table' = [table EXCEPT ![n] = RemoveTable(n, c, s)]
    BY <1>4 DEF RemoveRaw
  <2>2. ReadersSound'
    BY <1>l, <1>i, <2>1, PlainSound, GotoSound
  <2>3. TablesSound'
    BY <1>i, <2>1, RemoveSound
  <2> QED BY <1>4, <2>2, <2>3, KeepSound DEF RemoveRaw, HopInv
<1> QED BY <1>1, <1>2, <1>3, <1>4 DEF RawSteps

LEMMA InitSound ==
    ASSUME IdsAssumption, Init
    PROVE  HopInv
<1>1. CountersSound
  BY DEF Init, IdsAssumption, CountersSound
<1>2. TablesSound /\ DialingSound
  BY DEF Init, TablesSound, DialingSound, Empty
<1>3. ReadersSound
  BY DEF Init, ReadersSound, Drawn, Channel, StateSound, Reading
<1> QED BY <1>1, <1>2, <1>3 DEF HopInv

LEMMA NextSound ==
    ASSUME IdsAssumption, CallsAssumption, TypeOK, HopInv, [Next]_vars
    PROVE  HopInv'
<1>1. CASE UNCHANGED vars
  BY <1>1, KeepSound DEF vars, HopInv
<1>2. ASSUME NEW k \in Calls, CallSteps(k) PROVE HopInv'
  BY <1>2, CallStepsSound
<1>3. ASSUME NEW n \in Nodes, NEW l \in LinksOf(n), FrameSteps(n, l) PROVE HopInv'
  <2>1. Channel(l) \in DOMAIN reader[n]
    BY DEF TypeOK, Readers
  <2> QED BY <1>3, <2>1, DialFramesSound, DialBackFramesSound, DataFramesSound,
             ForwardDataSound DEF FrameSteps
<1>4. ASSUME NEW n \in Nodes, NEW l \in LinksOf(n), ExitSteps(n, l) PROVE HopInv'
  BY <1>4, ExitStepsSound
<1>5. ASSUME NEW n \in Nodes, NEW s \in DOMAIN raw[n], RawSteps(n, s) PROVE HopInv'
  BY <1>5, RawStepsSound
<1>6. ASSUME NEW n \in Nodes, NEW d \in dialing[n], DialSteps(n, d) PROVE HopInv'
  BY <1>6, DialStepsSound
<1>7. ASSUME NEW n \in Nodes,
             (\E l \in LinksOf(n) : Lose(n, l)) \/ RouterClose(n) \/ RouterCloseOne(n)
      PROVE  HopInv'
  BY <1>7, KeepSound DEF Lose, RouterClose, RouterCloseOne, HopInv
<1> QED BY <1>1, <1>2, <1>3, <1>4, <1>5, <1>6, <1>7 DEF Next

\* Whatever the network, a frame is handed on only over an entry one end of which is
\* the connection it came from and the other end of which is another connection: the
\* hop procDialBack and procChannelData use without a test is never nil, and no router
\* sends a frame back where it came from.
THEOREM HopAlwaysDefined == Spec => []HopDefined
<1>1. Init => HopInv
  BY IdsAssumption, InitSound
<1>2. TypeOK /\ HopInv /\ [Next]_vars => HopInv'
  BY IdsAssumption, CallsAssumption, NextSound
<1>3. HopInv => HopDefined
  BY HopInvImplies
<1> QED BY <1>1, <1>2, <1>3, TypeCorrect, PTL DEF Spec
=============================================================================
