------------------------- MODULE SessionApartProofs -------------------------
(***************************************************************************)
(* Proofs about Session: sessions stay apart where dials cross a channel   *)
(* in one direction only.                                                  *)
(*                                                                         *)
(* A session id of a channel is drawn by one end of it (UniqueSid).  When  *)
(* both ends dial, ids collide and sessions are mixed up, as the run       *)
(* session_collide shows; OneWay is the hypothesis that rules this out.    *)
(* The inductive invariant says of every table entry, frame, reader, dial  *)
(* and raw connection which dial it belongs to, by two histories: H, the   *)
(* entry made with each id that was drawn, and Z, how far each dial has    *)
(* got over each channel of its way.  Both are bound variables of the      *)
(* invariant: a step extends H, and moves a dial in Z.                     *)
(***************************************************************************)
EXTENDS SessionProofs

(***************************************************************************)
(* The hypothesis.                                                         *)
(***************************************************************************)
\* A dial goes from router a to router b.
Crosses(a, b) ==
    \E k \in Calls : \E i \in 1..Len(Route[k]) :
        /\ b = Route[k][i]
        /\ a = IF i = 1 THEN Caller[k] ELSE Route[k][i - 1]

\* No two routers dial, or relay dials, to each other.
OneWay == \A a, b \in Nodes : ~(Crosses(a, b) /\ Crosses(b, a))

\* n dials over its channel l, and n is dialed over it.
Down(n, l) == Crosses(n, Peer(n, l))
Up(n, l)   == Crosses(Peer(n, l), n)

\* r is what is left of the route of k at n.
OnWay(k, n, r) ==
    \E i \in 1..Len(Route[k]) :
        /\ n = Route[k][i]
        /\ Len(r) = Len(Route[k]) - i
        /\ \A j \in 1..Len(r) : r[j] = Route[k][i + j]

LEMMA PeerFacts ==
    ASSUME LinksAssumption, NEW n \in Nodes, NEW l \in LinksOf(n)
    PROVE  /\ l \in Links /\ Peer(n, l) \in Nodes /\ Peer(n, l) # n
           /\ Peer(Peer(n, l), l) = n /\ l \in LinksOf(Peer(n, l))
           /\ \A m \in Nodes : l \in LinksOf(m) => m = n \/ m = Peer(n, l)
BY DEF LinksAssumption, LinksOf, Peer

LEMMA WayFacts ==
    ASSUME LinksAssumption, OneWay, NEW n \in Nodes, NEW l \in LinksOf(n)
    PROVE  /\ ~(Up(n, l) /\ Down(n, l))
           /\ Up(Peer(n, l), l) <=> Down(n, l)
           /\ Down(Peer(n, l), l) <=> Up(n, l)
           /\ \A m \in Nodes : l \in LinksOf(m) =>
                /\ Up(n, l) /\ Up(m, l) => m = n
                /\ Down(n, l) /\ Down(m, l) => m = n
<1>1. /\ Peer(n, l) \in Nodes /\ Peer(Peer(n, l), l) = n
      /\ \A m \in Nodes : l \in LinksOf(m) => m = n \/ m = Peer(n, l)
  BY PeerFacts
<1>2. ~(Crosses(n, Peer(n, l)) /\ Crosses(Peer(n, l), n))
  BY <1>1 DEF OneWay
<1> QED BY <1>1, <1>2 DEF Up, Down

\* The first name of a route is where the caller dials to, and the first of what is
\* left of it where a relay does.
LEMMA RouteStart ==
    ASSUME CallsAssumption, NEW k \in Calls
    PROVE  /\ Crosses(Caller[k], Head(Route[k]))
           /\ OnWay(k, Head(Route[k]), Tail(Route[k]))
<1>1. Route[k] \in Seq(Nodes) /\ Route[k] # <<>> /\ Len(Route[k]) \in Nat /\ Len(Route[k]) >= 1
  BY DEF CallsAssumption
<1>2. 1 \in 1..Len(Route[k]) /\ Head(Route[k]) = Route[k][1]
  BY <1>1
<1>3. Len(Tail(Route[k])) = Len(Route[k]) - 1
  BY <1>1
<1>4. \A j \in 1..Len(Tail(Route[k])) : Tail(Route[k])[j] = Route[k][1 + j]
  BY <1>1
<1> QED BY <1>2, <1>3, <1>4 DEF Crosses, OnWay

LEMMA RouteGoesOn ==
    ASSUME CallsAssumption, NEW k \in Calls, NEW n, NEW r \in Seq(Nodes), r # <<>>, OnWay(k, n, r)
    PROVE  Crosses(n, Head(r)) /\ OnWay(k, Head(r), Tail(r))
<1>1. Route[k] \in Seq(Nodes) /\ Len(Route[k]) \in Nat /\ Len(r) \in Nat /\ Len(r) >= 1
  BY DEF CallsAssumption
<1>2. PICK i \in 1..Len(Route[k]) :
        /\ n = Route[k][i]
        /\ Len(r) = Len(Route[k]) - i
        /\ \A j \in 1..Len(r) : r[j] = Route[k][i + j]
  BY DEF OnWay
<1>3. i + 1 \in 1..Len(Route[k]) /\ Head(r) = Route[k][i + 1] /\ i + 1 # 1 /\ (i + 1) - 1 = i
  BY <1>1, <1>2
<1>4. Len(Tail(r)) = Len(Route[k]) - (i + 1)
  BY <1>1, <1>2
<1>5. \A j \in 1..Len(Tail(r)) : Tail(r)[j] = Route[k][(i + 1) + j]
  <2> SUFFICES ASSUME NEW j \in 1..Len(Tail(r)) PROVE Tail(r)[j] = Route[k][(i + 1) + j]
    OBVIOUS
  <2>1. Tail(r)[j] = r[j + 1] /\ j + 1 \in 1..Len(r) /\ i + (j + 1) = (i + 1) + j
    BY <1>1, <1>4, <1>2
  <2> QED BY <1>2, <2>1
<1>6. Crosses(n, Head(r))
  BY <1>2, <1>3 DEF Crosses
<1> QED BY <1>3, <1>4, <1>5, <1>6 DEF OnWay

LEMMA ConnFacts ==
    /\ \A x \in Channels : x = Channel(x.link) /\ x.link \in Links
    /\ \A l, m : Channel(l) = Channel(m) => l = m
    /\ \A s, t : Raw(s) = Raw(t) => s = t
    /\ \A l, s : Channel(l) # Raw(s)
    /\ \A l \in Links : Channel(l) \in Channels
    /\ \A l : Channel(l).link = l /\ Channel(l).type = "channel"
    /\ \A s : Raw(s).sid = s /\ Raw(s).type = "raw"
    /\ \A x \in Channels : x.type = "channel"
    /\ \A s : Raw(s) \notin Channels
<1>1. \A x \in Channels : x = Channel(x.link) /\ x.link \in Links /\ x.type = "channel"
  BY DEF Channels, Channel
<1>2. /\ \A l : Channel(l).link = l /\ Channel(l).type = "channel"
      /\ \A s : Raw(s).sid = s /\ Raw(s).type = "raw"
  BY DEF Channel, Raw
<1>3. \A l \in Links : Channel(l) \in Channels
  BY DEF Channel, Channels
<1> QED BY <1>1, <1>2, <1>3

(***************************************************************************)
(* The history H of a behaviour: the entry each router n made when it drew *)
(* the id s, under <<n, s>>.  Entries never change, so this is what every  *)
(* entry in a table, or in the hands of a reader, has to be one of.        *)
(***************************************************************************)

\* The three kinds of entries: of a dial made here, passed on, and answered here.
Arrives(n, e) == e.src \in Channels /\ e.src.link \in LinksOf(n) /\ Up(n, e.src.link)

CallerEntry(n, e) ==
    /\ e.src \in Channels /\ e.src.link \in LinksOf(n) /\ Down(n, e.src.link)
    /\ e.ssid = e.dsid /\ e.dst = Raw(e.dsid)

RelayEntry(n, e) ==
    /\ Arrives(n, e)
    /\ e.dst \in Channels /\ e.dst.link \in LinksOf(n) /\ Down(n, e.dst.link)

LastEntry(n, e) == Arrives(n, e) /\ e.dst = Raw(e.dsid)

\* What is in a history was drawn, and is of a known kind.
Genuine(H, n, e) ==
    /\ e \in Entries /\ e.dsid > Sid0[n]
    /\ CallerEntry(n, e) \/ RelayEntry(n, e) \/ LastEntry(n, e)

\* A dial that arrives was sent by the router before, and makes one entry.
Follows(H, n, e) ==
    Arrives(n, e) =>
        LET up == <<Peer(n, e.src.link), e.ssid>> IN
        /\ up \in DOMAIN H /\ H[up].call = e.call
        /\ \A s : <<n, s>> \in DOMAIN H =>
             (H[<<n, s>>].src = e.src /\ H[<<n, s>>].ssid = e.ssid => s = e.dsid)

History(H) ==
    \A x \in DOMAIN H :
        /\ x \in Nodes \X Nat /\ H[x].dsid = x[2]
        /\ Genuine(H, x[1], H[x]) /\ Follows(H, x[1], H[x])

Recorded(H, n, e) == <<n, e.dsid>> \in DOMAIN H /\ H[<<n, e.dsid>>] = e

Extends(H, H2) == \A x \in DOMAIN H : x \in DOMAIN H2 /\ H2[x] = H[x]

LEMMA HistoryAt ==
    ASSUME NEW H, History(H), NEW n, NEW s, <<n, s>> \in DOMAIN H
    PROVE  /\ n \in Nodes /\ s \in Nat /\ H[<<n, s>>] \in Entries
           /\ H[<<n, s>>].dsid = s /\ s > Sid0[n]
           /\ Genuine(H, n, H[<<n, s>>]) /\ Follows(H, n, H[<<n, s>>])
           /\ Recorded(H, n, H[<<n, s>>])
<1> DEFINE x == <<n, s>>
<1>1. x \in Nodes \X Nat /\ H[x].dsid = x[2] /\ Genuine(H, x[1], H[x]) /\ Follows(H, x[1], H[x])
  BY DEF History
<1>2. x[1] = n /\ x[2] = s
  OBVIOUS
<1> HIDE DEF x
<1>3. n \in Nodes /\ s \in Nat /\ H[x].dsid = s /\ Genuine(H, n, H[x]) /\ Follows(H, n, H[x])
  BY <1>1, <1>2
<1> QED BY <1>3 DEF x, Genuine, Recorded

\* The kinds exclude each other; the raw end of an entry is the one its id was drawn for.
LEMMA Kinds ==
    ASSUME LinksAssumption, OneWay, NEW H, NEW n \in Nodes, NEW e, Genuine(H, n, e)
    PROVE  /\ e.src \in Channels /\ e.src.link \in LinksOf(n) /\ e.src = Channel(e.src.link)
           /\ e.dst = Raw(e.dsid) \/ RelayEntry(n, e)
           /\ Arrives(n, e) <=> Up(n, e.src.link)
           /\ CallerEntry(n, e) <=> Down(n, e.src.link)
           /\ Up(n, e.src.link) <=> ~Down(n, e.src.link)
           /\ RelayEntry(n, e) <=> e.dst \in Channels
<1>1. e.src \in Channels /\ e.src.link \in LinksOf(n)
  BY DEF Genuine, CallerEntry, RelayEntry, LastEntry, Arrives
<1>2. ~(Up(n, e.src.link) /\ Down(n, e.src.link))
  BY <1>1, WayFacts
<1>3. e.src = Channel(e.src.link) /\ \A s : Raw(s) \notin Channels
  BY <1>1, ConnFacts
<1> QED BY <1>1, <1>2, <1>3 DEF Genuine, CallerEntry, RelayEntry, LastEntry, Arrives

\* Two entries of a router that share a key are the same.
LEMMA KeyOwner ==
    ASSUME IdsAssumption, LinksAssumption, OneWay, NEW H, History(H), NEW n \in Nodes,
           NEW e, NEW f, Recorded(H, n, e), Recorded(H, n, f),
           NEW k, k \in KeysOf(n, e), k \in KeysOf(n, f)
    PROVE  e = f
<1>e. Genuine(H, n, e) /\ Follows(H, n, e) /\ e \in Entries /\ e.dsid > Sid0[n]
  <2>1. <<n, e.dsid>> \in DOMAIN H /\ H[<<n, e.dsid>>] = e
    BY DEF Recorded
  <2> QED BY <2>1, HistoryAt
<1>f. Genuine(H, n, f) /\ Follows(H, n, f) /\ f \in Entries /\ f.dsid > Sid0[n]
  <2>1. <<n, f.dsid>> \in DOMAIN H /\ H[<<n, f.dsid>>] = f
    BY DEF Recorded
  <2> QED BY <2>1, HistoryAt
<1>0. e.dsid = f.dsid => e = f
  BY DEF Recorded
<1>1. ASSUME NEW x \in Entries, Genuine(H, n, x)
      PROVE  x.src \in Conns /\ x.dst \in Conns /\ Drawn(n, x.src) /\ Drawn(n, x.dst)
  <2>1. x.src \in Conns /\ x.dst \in Conns /\ x.src.type = "channel"
    BY <1>1, Kinds, ConnFacts DEF Entries
  <2>2. x.dst = Raw(x.dsid) \/ x.dst \in Channels
    BY <1>1, Kinds DEF RelayEntry
  <2>3. x.dst.type = "raw" => x.dst.sid > Sid0[n]
    BY <1>1, <2>2, ConnFacts DEF Genuine
  <2> QED BY <2>1, <2>3 DEF Drawn
<1>2. ASSUME NEW c \in Conns, NEW d \in Conns, Drawn(n, c), Drawn(n, d), NEW s, NEW t,
             k = Key(n, c, s), k = Key(n, d, t)
      PROVE  c = d /\ s = t
  BY <1>2, IDInjective DEF Key
<1>3. ASSUME NEW x \in Entries, NEW y \in Entries, Genuine(H, n, x), Genuine(H, n, y),
             x.src = y.dst, x.ssid = y.dsid
      PROVE  x.dsid = y.dsid
  <2>1. RelayEntry(n, y) /\ Down(n, y.dst.link)
    BY <1>3, Kinds DEF RelayEntry
  <2>2. CallerEntry(n, x)
    BY <1>3, <2>1, Kinds
  <2> QED BY <1>3, <2>2 DEF CallerEntry
<1>4. CASE k = Key(n, e.src, e.ssid) /\ k = Key(n, f.src, f.ssid)
  <2>1. e.src = f.src /\ e.ssid = f.ssid
    BY <1>4, <1>1, <1>2, <1>e, <1>f
  <2>2. CASE Arrives(n, e)
    <3>1. <<n, f.dsid>> \in DOMAIN H /\ H[<<n, f.dsid>>] = f
      BY DEF Recorded
    <3> QED BY <1>0, <1>e, <2>1, <2>2, <3>1 DEF Follows
  <2>3. CASE ~Arrives(n, e)
    <3>1. CallerEntry(n, e) /\ CallerEntry(n, f)
      BY <1>e, <1>f, <2>1, <2>3, Kinds
    <3> QED BY <1>0, <2>1, <3>1 DEF CallerEntry
  <2> QED BY <2>2, <2>3
<1>5. CASE k = Key(n, e.src, e.ssid) /\ k = Key(n, f.dst, f.dsid)
  <2>1. e.src = f.dst /\ e.ssid = f.dsid
    BY <1>5, <1>1, <1>2, <1>e, <1>f
  <2> QED BY <1>0, <1>3, <1>e, <1>f, <2>1
<1>6. CASE k = Key(n, e.dst, e.dsid) /\ k = Key(n, f.src, f.ssid)
  <2>1. f.src = e.dst /\ f.ssid = e.dsid
    BY <1>6, <1>1, <1>2, <1>e, <1>f
  <2> QED BY <1>0, <1>3, <1>e, <1>f, <2>1
<1>7. CASE k = Key(n, e.dst, e.dsid) /\ k = Key(n, f.dst, f.dsid)
  BY <1>0, <1>7 DEF Key
<1> QED BY <1>4, <1>5, <1>6, <1>7 DEF KeysOf

\* What is found under a key of connection c and session s.
Matches(e, c, s) == \/ e.src = c /\ e.ssid = s
                    \/ e.dst = c /\ e.dsid = s

LEMMA GenuineConns ==
    ASSUME LinksAssumption, OneWay, NEW H, NEW n \in Nodes, NEW e, Genuine(H, n, e)
    PROVE  /\ e.src \in Conns /\ e.dst \in Conns
           /\ Drawn(n, e.src) /\ Drawn(n, e.dst) /\ e.src # e.dst
<1>1. e.src \in Conns /\ e.dst \in Conns /\ e.src.type = "channel"
  BY Kinds, ConnFacts DEF Entries, Genuine
<1>2. e.dst = Raw(e.dsid) \/ e.dst \in Channels
  BY Kinds DEF RelayEntry
<1>3. e.dst.type = "raw" => e.dst.sid > Sid0[n]
  BY <1>2, ConnFacts DEF Genuine
<1>4. e.src # e.dst
  <2>1. CASE e.dst \in Channels
    <3>1. Up(n, e.src.link) /\ Down(n, e.dst.link) /\ ~Down(n, e.src.link)
      BY <2>1, Kinds DEF RelayEntry, Arrives
    <3> QED BY <3>1
  <2> QED BY <1>2, <2>1, Kinds, ConnFacts
<1> QED BY <1>1, <1>3, <1>4 DEF Drawn

\* A dial that arrives, and has made no entry yet.
Continues(H, n, e) ==
    Arrives(n, e) =>
        LET up == <<Peer(n, e.src.link), e.ssid>> IN
        /\ up \in DOMAIN H /\ H[up].call = e.call
        /\ \A t : <<n, t>> \in DOMAIN H =>
             ~(H[<<n, t>>].src = e.src /\ H[<<n, t>>].ssid = e.ssid)

\* A draw adds to the history.
Grown(H, H2, n, e) ==
    /\ History(H2) /\ Extends(H, H2) /\ Recorded(H2, n, e)
    /\ \A x \in DOMAIN H2 : x \in DOMAIN H \/ x = <<n, e.dsid>>

LEMMA Records ==
    ASSUME LinksAssumption, NEW H, History(H), NEW n \in Nodes, NEW s \in Nat, <<n, s>> \notin DOMAIN H,
           NEW e, e.dsid = s, Genuine(H, n, e), e.src \in Channels, e.src.link \in LinksOf(n),
           Continues(H, n, e), NEW H2, H2 = Put(H, {<<n, s>>}, e)
    PROVE  Grown(H, H2, n, e)
<1>1. /\ DOMAIN H2 = DOMAIN H \cup {<<n, s>>} /\ H2[<<n, s>>] = e
      /\ \A x \in DOMAIN H : x \in DOMAIN H2 /\ H2[x] = H[x]
  BY DEF Put
<1>2. Extends(H, H2) /\ Recorded(H2, n, e)
  BY <1>1 DEF Extends, Recorded
<1>3. ASSUME NEW x \in DOMAIN H2
      PROVE  /\ x \in Nodes \X Nat /\ H2[x].dsid = x[2]
             /\ Genuine(H2, x[1], H2[x]) /\ Follows(H2, x[1], H2[x])
  <2>1. CASE x = <<n, s>>
    <3>1. x \in Nodes \X Nat /\ H2[x] = e /\ x[1] = n /\ x[2] = s
      BY <1>1, <2>1
    <3>2. Genuine(H2, n, e)
      BY DEF Genuine
    <3>3. Follows(H2, n, e)
      <4>1. SUFFICES ASSUME Arrives(n, e)
                     PROVE  LET up == <<Peer(n, e.src.link), e.ssid>> IN
                            /\ up \in DOMAIN H2 /\ H2[up].call = e.call
                            /\ \A t : <<n, t>> \in DOMAIN H2 =>
                                 (H2[<<n, t>>].src = e.src /\ H2[<<n, t>>].ssid = e.ssid
                                    => t = e.dsid)
        BY DEF Follows
      <4> DEFINE up == <<Peer(n, e.src.link), e.ssid>>
      <4>2. up \in DOMAIN H /\ H[up].call = e.call
        BY <4>1 DEF Continues
      <4>3. up \in DOMAIN H2 /\ H2[up].call = e.call
        BY <1>1, <4>2
      <4>4. ASSUME NEW t, <<n, t>> \in DOMAIN H2, H2[<<n, t>>].src = e.src, H2[<<n, t>>].ssid = e.ssid
            PROVE  t = e.dsid
        <5>1. CASE <<n, t>> \in DOMAIN H
          <6>1. H[<<n, t>>].src = e.src /\ H[<<n, t>>].ssid = e.ssid
            BY <1>1, <4>4, <5>1
          <6> QED BY <4>1, <5>1, <6>1 DEF Continues
        <5>2. CASE <<n, t>> = <<n, s>>
          BY <5>2
        <5> QED BY <1>1, <4>4, <5>1, <5>2
      <4> QED BY <4>3, <4>4
    <3> QED BY <3>1, <3>2, <3>3
  <2>2. CASE x \in DOMAIN H
    <3>1. /\ x \in Nodes \X Nat /\ H[x].dsid = x[2] /\ H2[x] = H[x]
          /\ Genuine(H, x[1], H[x]) /\ Follows(H, x[1], H[x])
      BY <1>1, <2>2 DEF History
    <3>2. Genuine(H2, x[1], H2[x])
      BY <3>1 DEF Genuine
    <3>3. Follows(H2, x[1], H2[x])
      <4> DEFINE g == H[x]  m == x[1]
      <4>1. SUFFICES ASSUME Arrives(m, g)
                     PROVE  LET up == <<Peer(m, g.src.link), g.ssid>> IN
                            /\ up \in DOMAIN H2 /\ H2[up].call = g.call
                            /\ \A t : <<m, t>> \in DOMAIN H2 =>
                                 (H2[<<m, t>>].src = g.src /\ H2[<<m, t>>].ssid = g.ssid
                                    => t = g.dsid)
        BY <3>1 DEF Follows
      <4>2. <<Peer(m, g.src.link), g.ssid>> \in DOMAIN H /\ H[<<Peer(m, g.src.link), g.ssid>>].call = g.call
        BY <3>1, <4>1 DEF Follows
      <4>3. ASSUME NEW t, <<m, t>> \in DOMAIN H2,
                   H2[<<m, t>>].src = g.src, H2[<<m, t>>].ssid = g.ssid
            PROVE  t = g.dsid
        <5>1. CASE <<m, t>> \in DOMAIN H
          <6>1. H[<<m, t>>].src = g.src /\ H[<<m, t>>].ssid = g.ssid
            BY <1>1, <4>3, <5>1
          <6> QED BY <3>1, <4>1, <5>1, <6>1 DEF Follows
        <5>2. CASE <<m, t>> = <<n, s>>
          <6>1. m = n /\ e.src = g.src /\ e.ssid = g.ssid
            BY <1>1, <4>3, <5>2
          <6>2. Arrives(n, e)
            BY <4>1, <6>1 DEF Arrives
          <6>3. x = <<n, x[2]>>
            BY <3>1, <6>1
          <6> QED BY <2>2, <6>1, <6>2, <6>3 DEF Continues
        <5> QED BY <1>1, <4>3, <5>1, <5>2
      <4> QED BY <1>1, <4>2, <4>3
    <3> QED BY <3>1, <3>2, <3>3
  <2> QED BY <1>1, <2>1, <2>2
<1>4. History(H2)
  BY <1>3 DEF History
<1> QED BY <1>1, <1>2, <1>4 DEF Grown

LEMMA EntryFields ==
    ASSUME NEW a, NEW s, NEW b, NEW t, NEW k
    PROVE  /\ Entry(a, s, b, t, k).src = a /\ Entry(a, s, b, t, k).ssid = s
           /\ Entry(a, s, b, t, k).dst = b /\ Entry(a, s, b, t, k).dsid = t
           /\ Entry(a, s, b, t, k).call = k
BY DEF Entry

LEMMA StillRecorded ==
    ASSUME NEW H, NEW H2, Extends(H, H2), NEW n, NEW e, Recorded(H, n, e)
    PROVE  Recorded(H2, n, e)
BY DEF Extends, Recorded

(***************************************************************************)
(* The stage Z[l, s] a dial has reached, that goes over l with id s.  The  *)
(* dial and then its answer are in one place at a time:                    *)
(*   send    with the caller or the relay that is about to send it;        *)
(*   wire    on the wire;                                                  *)
(*   add     with the reader of the far end, which passes it on;           *)
(*   dial    with a goroutine of the far end that dials;                   *)
(*   passed  the dial is at a later stage over the next channel;           *)
(*   back    with the goroutine that dialed, which has yet to answer;      *)
(*   answer  the answer is on the wire;                                    *)
(*   found   with the reader of the end that dialed;                       *)
(*   done    used.                                                         *)
(***************************************************************************)
Stage(Z, l, s) == IF <<l, s>> \in DOMAIN Z THEN Z[<<l, s>>] ELSE "none"
Move(Z, l, s, v) == Put(Z, {<<l, s>>}, v)
Keeps(Z, Z2, v) == \A l, s : Stage(Z, l, s) = v => Stage(Z2, l, s) = v

LEMMA Moved ==
    ASSUME NEW Z, NEW l, NEW s, NEW v
    PROVE  /\ Stage(Move(Z, l, s, v), l, s) = v
           /\ \A m, t : m # l \/ t # s => Stage(Move(Z, l, s, v), m, t) = Stage(Z, m, t)
<1>1. Stage(Move(Z, l, s, v), l, s) = v
  BY DEF Stage, Move, Put
<1>2. ASSUME NEW m, NEW t, m # l \/ t # s
      PROVE  Stage(Move(Z, l, s, v), m, t) = Stage(Z, m, t)
  <2>1. <<m, t>> # <<l, s>>
    BY <1>2
  <2> QED BY <2>1 DEF Stage, Move, Put
<1> QED BY <1>1, <1>2

LEMMA MoveKeeps ==
    ASSUME NEW Z, NEW l, NEW s, NEW v, NEW u, Stage(Z, l, s) # u \/ v = u
    PROVE  Keeps(Z, Move(Z, l, s, v), u)
BY Moved DEF Keeps

Made == {"passed", "back", "answer", "found", "done"}

\* A dial that made an entry here is past that; one that was passed on is answered when
\* the next channel has brought the answer.
Placed(Z, n, e) ==
    /\ Arrives(n, e) => Stage(Z, e.src.link, e.ssid) \in Made
    /\ RelayEntry(n, e) /\ Stage(Z, e.dst.link, e.dsid) # "done" =>
         Stage(Z, e.src.link, e.ssid) = "passed"

AllPlaced(H, Z) == \A x \in DOMAIN H : Placed(Z, x[1], H[x])
AllDrawn(H) == \A x \in DOMAIN H : x[2] <= seq[x[1]]

TablesOwned(H) == \A n \in Nodes : \A k \in DOMAIN table[n] : Recorded(H, n, table[n][k])

CallOwned(H, Z, k, x) ==
    /\ x.pc \in {"add", "send"} =>
         x.link \in LinksOf(Caller[k]) /\ Peer(Caller[k], x.link) = Head(Route[k])
    /\ x.pc = "send" =>
         /\ Recorded(H, Caller[k], Entry(Channel(x.link), x.sid, Raw(x.sid), x.sid, k))
         /\ Stage(Z, x.link, x.sid) = "send"
CallsOwned(H, Z) == \A k \in Calls : CallOwned(H, Z, k, call[k])

\* A dial with n, which came over l.
DialOwned(H, n, l, f) ==
    /\ l \in LinksOf(n) /\ Up(n, l) /\ OnWay(f.call, n, f.route)
    /\ <<Peer(n, l), f.sid>> \in DOMAIN H /\ H[<<Peer(n, l), f.sid>>].call = f.call

\* The data of a call, from the end of it the channel comes from.
DataOwned(H, n, l, f) ==
    \/ /\ Up(n, l) /\ <<Peer(n, l), f.sid>> \in DOMAIN H
       /\ f.payload.call = H[<<Peer(n, l), f.sid>>].call /\ f.payload.dialer
    \/ /\ Down(n, l) /\ <<n, f.sid>> \in DOMAIN H
       /\ f.payload.call = H[<<n, f.sid>>].call /\ ~f.payload.dialer

FrameOwned(H, Z, n, l, f) ==
    /\ l \in LinksOf(n)
    /\ f.cmd = "dial" => DialOwned(H, n, l, f) /\ Stage(Z, l, f.sid) = "wire"
    /\ f.cmd = "dialback" =>
         Down(n, l) /\ <<n, f.sid>> \in DOMAIN H /\ Stage(Z, l, f.sid) = "answer"
    /\ f.cmd = "data" => DataOwned(H, n, l, f)

\* No dial and no answer is on a wire twice.
Single(w) ==
    \A i, j \in DOMAIN w :
        w[i].cmd \in {"dial", "dialback"} /\ w[j].cmd = w[i].cmd /\ w[j].sid = w[i].sid => i = j

WireOwned(H, Z, n, l, w) == Single(w) /\ \A i \in DOMAIN w : FrameOwned(H, Z, n, l, w[i])
WiresOwned(H, Z, w) == \A n \in Nodes : \A l \in Links : WireOwned(H, Z, n, l, w[n][l])

\* The payload a raw connection was given to send.
RawFrameOwned(H, n, c, f) ==
    /\ f.cmd = "data" /\ f.sid = c.sid
    /\ <<n, c.sid>> \in DOMAIN H /\ H[<<n, c.sid>>].dst = c
    /\ f.payload.call = H[<<n, c.sid>>].call
    /\ f.payload.dialer <=> Down(n, H[<<n, c.sid>>].src.link)

FoundOwned(H, Z, n, c, x) ==
    /\ \A e \in x.router : Recorded(H, n, e) /\ Matches(e, c, x.frame.sid)
    /\ c.type = "channel" /\ x.frame.cmd = "dialback" =>
         /\ Down(n, c.link) /\ <<n, x.frame.sid>> \in DOMAIN H
         /\ Stage(Z, c.link, x.frame.sid) = "found"
    /\ c.type = "channel" /\ x.frame.cmd = "data" => DataOwned(H, n, c.link, x.frame)
    /\ c.type = "raw" => RawFrameOwned(H, n, c, x.frame)

ReaderOwned(H, Z, n, c, x) ==
    /\ c.type = "channel" => c.link \in LinksOf(n)
    /\ x.pc = "found" => FoundOwned(H, Z, n, c, x)
    /\ x.pc \in {"add", "send"} =>
         /\ c.type = "channel" /\ DialOwned(H, n, c.link, x.frame)
         /\ x.dst \in LinksOf(n) /\ Peer(n, x.dst) = Head(x.frame.route)
    /\ x.pc = "add" => Stage(Z, c.link, x.frame.sid) = "add"
    /\ x.pc = "send" =>
         /\ Recorded(H, n, Entry(c, x.frame.sid, Channel(x.dst), x.sid, x.frame.call))
         /\ Stage(Z, x.dst, x.sid) = "send" /\ Stage(Z, c.link, x.frame.sid) = "passed"
ReadersOwned(H, Z) ==
    \A n \in Nodes : \A c \in DOMAIN reader[n] : ReaderOwned(H, Z, n, c, reader[n][c])

DialingOwned(H, Z, n, d) ==
    /\ d.link \in LinksOf(n) /\ Up(n, d.link) /\ <<Peer(n, d.link), d.sid>> \in DOMAIN H
    /\ d.pc = "dial" => /\ d.call = H[<<Peer(n, d.link), d.sid>>].call
                        /\ Stage(Z, d.link, d.sid) = "dial"
    /\ d.pc = "back" => /\ <<n, d.raw>> \in DOMAIN H
                        /\ H[<<n, d.raw>>].src = Channel(d.link) /\ H[<<n, d.raw>>].ssid = d.sid
                        /\ Stage(Z, d.link, d.sid) = "back"
AllDialingOwned(H, Z) == \A n \in Nodes : \A d \in dialing[n] : DialingOwned(H, Z, n, d)

\* A raw connection is that of an entry; it is ready once its dial was answered, and
\* has received what the other end of its call was given to send.
RawOwned(H, Z, n, s, r) ==
    /\ <<n, s>> \in DOMAIN H /\ H[<<n, s>>].dst = Raw(s) /\ H[<<n, s>>].call = r.call
    /\ r.dialer <=> Down(n, H[<<n, s>>].src.link)
    /\ r.ready => r.dialer /\ Stage(Z, H[<<n, s>>].src.link, s) = "done"
    /\ \A i \in DOMAIN r.got : r.got[i].call = r.call /\ r.got[i].dialer = ~r.dialer
RawsOwned(H, Z) == \A n \in Nodes : \A s \in DOMAIN raw[n] : RawOwned(H, Z, n, s, raw[n][s])
RawsMade(H) == \A x \in DOMAIN H : H[x].dst = Raw(x[2]) => x[2] \in DOMAIN raw[x[1]]

\* Only dials that were made have a stage, and only channels of a router are registered.
Staged(H, Z) ==
    \A l, s : Stage(Z, l, s) # "none" =>
        \E n \in Nodes : l \in LinksOf(n) /\ Down(n, l) /\ <<n, s>> \in DOMAIN H
Joined == \A n \in Nodes : reg[n] \subseteq LinksOf(n)

Owned(H, Z) ==
    /\ History(H) /\ AllDrawn(H) /\ AllPlaced(H, Z) /\ Staged(H, Z) /\ Joined
    /\ TablesOwned(H) /\ CallsOwned(H, Z) /\ WiresOwned(H, Z, wire)
    /\ ReadersOwned(H, Z) /\ AllDialingOwned(H, Z)
    /\ RawsOwned(H, Z) /\ RawsMade(H)

OwnedInv == \E H, Z : Owned(H, Z)

\* What was owned still is after a draw and a move that concern something else.
LEMMA FrameKept ==
    ASSUME NEW H, NEW H2, Extends(H, H2), NEW Z, NEW Z2, NEW n, NEW l, NEW f,
           FrameOwned(H, Z, n, l, f),
           f.cmd = "dial" /\ Stage(Z, l, f.sid) = "wire" => Stage(Z2, l, f.sid) = "wire",
           f.cmd = "dialback" /\ Stage(Z, l, f.sid) = "answer" => Stage(Z2, l, f.sid) = "answer"
    PROVE  FrameOwned(H2, Z2, n, l, f)
BY DEF FrameOwned, Extends, DialOwned, DataOwned

LEMMA ReaderKept ==
    ASSUME NEW H, NEW H2, Extends(H, H2), NEW Z, NEW Z2, NEW n, NEW c, NEW x,
           ReaderOwned(H, Z, n, c, x),
           x.pc = "add" /\ Stage(Z, c.link, x.frame.sid) = "add"
             => Stage(Z2, c.link, x.frame.sid) = "add",
           x.pc = "send" /\ Stage(Z, c.link, x.frame.sid) = "passed"
             => Stage(Z2, c.link, x.frame.sid) = "passed",
           x.pc = "send" /\ Stage(Z, x.dst, x.sid) = "send" => Stage(Z2, x.dst, x.sid) = "send",
           x.pc = "found" /\ x.frame.cmd = "dialback" /\ c.type = "channel"
             /\ Stage(Z, c.link, x.frame.sid) = "found" => Stage(Z2, c.link, x.frame.sid) = "found"
    PROVE  ReaderOwned(H2, Z2, n, c, x)
<1>1. x.pc = "found" => FoundOwned(H2, Z2, n, c, x)
  BY DEF ReaderOwned, FoundOwned, Extends, DataOwned, RawFrameOwned, Recorded
<1>2. x.pc \in {"add", "send"} => DialOwned(H2, n, c.link, x.frame)
  BY DEF ReaderOwned, Extends, DialOwned
<1>3. x.pc = "send" => Recorded(H2, n, Entry(c, x.frame.sid, Channel(x.dst), x.sid, x.frame.call))
  BY StillRecorded DEF ReaderOwned
<1> QED BY <1>1, <1>2, <1>3 DEF ReaderOwned

LEMMA CallKept ==
    ASSUME NEW H, NEW H2, Extends(H, H2), NEW Z, NEW Z2, NEW k, NEW x, CallOwned(H, Z, k, x),
           x.pc = "send" /\ Stage(Z, x.link, x.sid) = "send" => Stage(Z2, x.link, x.sid) = "send"
    PROVE  CallOwned(H2, Z2, k, x)
BY StillRecorded DEF CallOwned

LEMMA DialingKept ==
    ASSUME NEW H, NEW H2, Extends(H, H2), NEW Z, NEW Z2, NEW n, NEW d, DialingOwned(H, Z, n, d),
           d.pc = "dial" /\ Stage(Z, d.link, d.sid) = "dial" => Stage(Z2, d.link, d.sid) = "dial",
           d.pc = "back" /\ Stage(Z, d.link, d.sid) = "back" => Stage(Z2, d.link, d.sid) = "back"
    PROVE  DialingOwned(H2, Z2, n, d)
BY DEF DialingOwned, Extends

LEMMA RawKept ==
    ASSUME NEW H, NEW H2, Extends(H, H2), NEW Z, NEW Z2, Keeps(Z, Z2, "done"), NEW n, NEW s, NEW r,
           RawOwned(H, Z, n, s, r)
    PROVE  RawOwned(H2, Z2, n, s, r)
BY DEF RawOwned, Extends, Keeps

LEMMA KeepOwned ==
    ASSUME NEW H, NEW Z, Owned(H, Z), NEW H2, NEW Z2, Extends(H, H2)
    PROVE  /\ UNCHANGED table => TablesOwned(H2)'
           /\ UNCHANGED call /\ Keeps(Z, Z2, "send") => CallsOwned(H2, Z2)'
           /\ UNCHANGED wire /\ Keeps(Z, Z2, "wire") /\ Keeps(Z, Z2, "answer")
                => WiresOwned(H2, Z2, wire')
           /\ UNCHANGED reader /\ Keeps(Z, Z2, "add") /\ Keeps(Z, Z2, "send")
                /\ Keeps(Z, Z2, "passed") /\ Keeps(Z, Z2, "found") => ReadersOwned(H2, Z2)'
           /\ UNCHANGED dialing /\ Keeps(Z, Z2, "dial") /\ Keeps(Z, Z2, "back")
                => AllDialingOwned(H2, Z2)'
           /\ UNCHANGED raw /\ Keeps(Z, Z2, "done") => RawsOwned(H2, Z2)'
<1>1. UNCHANGED table => TablesOwned(H2)'
  BY StillRecorded DEF Owned, TablesOwned
<1>2. UNCHANGED call /\ Keeps(Z, Z2, "send") => CallsOwned(H2, Z2)'
  BY CallKept DEF Owned, CallsOwned, Keeps
<1>3. UNCHANGED wire /\ Keeps(Z, Z2, "wire") /\ Keeps(Z, Z2, "answer") => WiresOwned(H2, Z2, wire')
  BY FrameKept DEF Owned, WiresOwned, WireOwned, Keeps
<1>4. UNCHANGED reader /\ Keeps(Z, Z2, "add") /\ Keeps(Z, Z2, "send")
        /\ Keeps(Z, Z2, "passed") /\ Keeps(Z, Z2, "found") => ReadersOwned(H2, Z2)'
  BY ReaderKept DEF Owned, ReadersOwned, Keeps
<1>5. UNCHANGED dialing /\ Keeps(Z, Z2, "dial") /\ Keeps(Z, Z2, "back") => AllDialingOwned(H2, Z2)'
  BY DialingKept DEF Owned, AllDialingOwned, Keeps
<1>6. UNCHANGED raw /\ Keeps(Z, Z2, "done") => RawsOwned(H2, Z2)'
  BY RawKept DEF Owned, RawsOwned
<1> QED BY <1>1, <1>2, <1>3, <1>4, <1>5, <1>6

(***************************************************************************)
(* A move takes a dial from one stage to another.                          *)
(***************************************************************************)

LEMMA KeptRefl ==
    ASSUME NEW H, NEW Z
    PROVE  Extends(H, H) /\ \A u : Keeps(Z, Z, u)
BY DEF Extends, Keeps

\* An entry of the history by its number.
LEMMA RecordedAt ==
    ASSUME NEW H, History(H), NEW n, NEW e, Recorded(H, n, e)
    PROVE  /\ n \in Nodes /\ e \in Entries /\ e.dsid \in Nat
           /\ <<n, e.dsid>> \in DOMAIN H /\ H[<<n, e.dsid>>] = e
           /\ Genuine(H, n, e) /\ Follows(H, n, e)
BY HistoryAt DEF Recorded

\* Two arrivals over the same channel with the same id are one.
LEMMA SameArrival ==
    ASSUME NEW H, History(H), NEW n, NEW e, Recorded(H, n, e), Arrives(n, e),
           NEW f, Recorded(H, n, f), f.src = e.src, f.ssid = e.ssid
    PROVE  f = e
<1>1. Follows(H, n, e)
  BY RecordedAt
<1>0. <<n, f.dsid>> \in DOMAIN H /\ H[<<n, f.dsid>>] = f
  BY DEF Recorded
<1>2. f.dsid = e.dsid
  BY <1>0, <1>1 DEF Follows
<1> QED BY <1>2 DEF Recorded

LEMMA PlacedAt ==
    ASSUME NEW H, NEW Z, AllPlaced(H, Z), NEW n, NEW e, Recorded(H, n, e)
    PROVE  Placed(Z, n, e)
<1> DEFINE x == <<n, e.dsid>>
<1>1. x \in DOMAIN H /\ H[x] = e /\ x[1] = n
  BY DEF Recorded
<1> HIDE DEF x
<1> QED BY <1>1 DEF AllPlaced

LEMMA MovePlaced ==
    ASSUME NEW H, NEW Z, AllPlaced(H, Z), NEW l, NEW s, NEW v,
           Stage(Z, l, s) \notin {"done", "passed"},
           Stage(Z, l, s) \in Made => v \in Made
    PROVE  AllPlaced(H, Move(Z, l, s, v))
<1> DEFINE Z2 == Move(Z, l, s, v)
<1>1. /\ Stage(Z2, l, s) = v
      /\ \A m, t : m # l \/ t # s => Stage(Z2, m, t) = Stage(Z, m, t)
  BY Moved
<1> HIDE DEF Z2
<1>2. ASSUME NEW n, NEW e, Placed(Z, n, e) PROVE Placed(Z2, n, e)
  <2>1. Arrives(n, e) => Stage(Z2, e.src.link, e.ssid) \in Made
    BY <1>1, <1>2 DEF Placed
  <2>2. RelayEntry(n, e) /\ Stage(Z2, e.dst.link, e.dsid) # "done" =>
          Stage(Z2, e.src.link, e.ssid) = "passed"
    BY <1>1, <1>2 DEF Placed
  <2> QED BY <2>1, <2>2 DEF Placed
<1> QED BY <1>2 DEF AllPlaced, Z2

LEMMA MoveStaged ==
    ASSUME NEW H, NEW Z, Staged(H, Z), NEW l, NEW s, NEW v, Stage(Z, l, s) # "none"
    PROVE  Staged(H, Move(Z, l, s, v))
<1> DEFINE Z2 == Move(Z, l, s, v)
<1>1. \A m, t : m # l \/ t # s => Stage(Z2, m, t) = Stage(Z, m, t)
  BY Moved
<1> HIDE DEF Z2
<1> QED BY <1>1 DEF Staged, Z2

\* A relayed dial that failed further on is answered.
LEMMA AnswerPlaced ==
    ASSUME LinksAssumption, OneWay, NEW H, History(H), NEW Z, AllPlaced(H, Z), Staged(H, Z),
           NEW n, NEW e, Recorded(H, n, e), RelayEntry(n, e),
           Stage(Z, e.dst.link, e.dsid) \in {"send", "found"},
           NEW Z1, Z1 = Move(Z, e.dst.link, e.dsid, "done"),
           NEW Z2, Z2 = Move(Z1, e.src.link, e.ssid, "answer")
    PROVE  /\ AllPlaced(H, Z2) /\ Staged(H, Z2)
           /\ Stage(Z, e.src.link, e.ssid) = "passed" /\ Stage(Z2, e.src.link, e.ssid) = "answer"
           /\ Stage(Z2, e.dst.link, e.dsid) = "done" /\ e.dst.link # e.src.link
           /\ \A m, t : <<m, t>> \notin {<<e.dst.link, e.dsid>>, <<e.src.link, e.ssid>>} =>
                Stage(Z2, m, t) = Stage(Z, m, t)
<1> DEFINE d == e.dst.link  l == e.src.link
<1>n. n \in Nodes /\ l \in LinksOf(n) /\ d \in LinksOf(n) /\ Up(n, l) /\ Down(n, d) /\ Arrives(n, e)
  BY RecordedAt DEF RelayEntry, Arrives
<1>d. d # l
  BY <1>n, WayFacts
<1>p. Stage(Z, l, e.ssid) = "passed"
  BY PlacedAt DEF Placed
<1>1. /\ Stage(Z1, d, e.dsid) = "done"
      /\ \A m, t : m # d \/ t # e.dsid => Stage(Z1, m, t) = Stage(Z, m, t)
  BY Moved
<1>2. /\ Stage(Z2, l, e.ssid) = "answer"
      /\ \A m, t : m # l \/ t # e.ssid => Stage(Z2, m, t) = Stage(Z1, m, t)
  BY Moved
<1>3. Stage(Z2, d, e.dsid) = "done"
  BY <1>1, <1>2, <1>d
<1>4. \A m, t : (m # l \/ t # e.ssid) /\ (m # d \/ t # e.dsid) => Stage(Z2, m, t) = Stage(Z, m, t)
  BY <1>1, <1>2
<1>5. Staged(H, Z2)
  <2>1. Staged(H, Z1)
    BY MoveStaged
  <2>2. Stage(Z1, l, e.ssid) # "none"
    BY <1>1, <1>d, <1>p
  <2> QED BY <2>1, <2>2, MoveStaged
<1>6. ASSUME NEW x \in DOMAIN H PROVE Placed(Z2, x[1], H[x])
  <2> DEFINE m == x[1]  g == H[x]
  <2>0. m \in Nodes /\ Recorded(H, m, g) /\ Placed(Z, m, g)
    <3>1. x \in Nodes \X Nat /\ H[x].dsid = x[2]
      BY DEF History
    <3>2. x = <<m, g.dsid>>
      BY <3>1
    <3> QED BY <3>1, <3>2 DEF Recorded, AllPlaced
  <2> HIDE DEF m, g
  <2>1. Arrives(m, g) => Stage(Z2, g.src.link, g.ssid) \in Made
    <3> HAVE Arrives(m, g)
    <3>1. Stage(Z, g.src.link, g.ssid) \in Made
      BY <2>0 DEF Placed
    <3>2. "answer" \in Made /\ "done" \in Made
      BY DEF Made
    <3> QED BY <3>1, <3>2, <1>2, <1>3, <1>4
  <2>2. RelayEntry(m, g) /\ Stage(Z2, g.dst.link, g.dsid) # "done" =>
          Stage(Z2, g.src.link, g.ssid) = "passed"
    <3> HAVE RelayEntry(m, g) /\ Stage(Z2, g.dst.link, g.dsid) # "done"
    <3>1. Stage(Z, g.dst.link, g.dsid) # "done"
      BY <1>2, <1>3, <1>4, <1>p
    <3>2. Stage(Z, g.src.link, g.ssid) = "passed"
      BY <2>0, <3>1 DEF Placed
    <3>3. ~(g.src.link = d /\ g.ssid = e.dsid)
      BY <3>2
    <3>4. ~(g.src.link = l /\ g.ssid = e.ssid)
      <4> SUFFICES ASSUME g.src.link = l, g.ssid = e.ssid PROVE FALSE
        OBVIOUS
      <4>1. Up(m, l) /\ l \in LinksOf(m)
        BY DEF RelayEntry, Arrives
      <4>2. m = n
        BY <1>n, <2>0, <4>1, WayFacts
      <4>3. g.src = e.src
        BY ConnFacts, <1>n DEF RelayEntry, Arrives
      <4>4. g = e
        BY <1>n, <2>0, <4>2, <4>3, SameArrival
      <4> QED BY <1>3, <4>4
    <3> QED BY <1>4, <3>2, <3>3, <3>4
  <2> QED BY <2>1, <2>2 DEF Placed, m, g
<1> QED BY <1>2, <1>3, <1>4, <1>5, <1>6, <1>d, <1>p DEF AllPlaced

(***************************************************************************)
(* A draw.                                                                 *)
(***************************************************************************)

\* The next id of a router is new.
LEMMA Fresh ==
    ASSUME IdsAssumption, LinksAssumption, OneWay, TypeOK, HopInv, NEW H, NEW Z,
           AllDrawn(H), Staged(H, Z), NEW n \in Nodes
    PROVE  /\ NextSid(n) \in Nat /\ NextSid(n) > Sid0[n] /\ <<n, NextSid(n)>> \notin DOMAIN H
           /\ \A l \in LinksOf(n) : Down(n, l) => Stage(Z, l, NextSid(n)) = "none"
<1> DEFINE s == NextSid(n)
<1>1. s \in Nat /\ s > Sid0[n] /\ s > seq[n]
  <2>1. seq[n] \in Nat /\ s = seq[n] + 1
    BY DEF TypeOK, NextSid
  <2> QED BY <2>1, DrawSound DEF HopInv
<1>2. <<n, s>> \notin DOMAIN H
  <2> SUFFICES ASSUME <<n, s>> \in DOMAIN H PROVE FALSE
    OBVIOUS
  <2> DEFINE x == <<n, s>>
  <2>1. x[1] = n /\ x[2] = s
    OBVIOUS
  <2> HIDE DEF x
  <2>2. x[2] <= seq[x[1]]
    BY DEF AllDrawn, x
  <2>3. seq[n] \in Nat
    BY DEF TypeOK
  <2> QED BY <1>1, <2>1, <2>2, <2>3
<1>3. ASSUME NEW l \in LinksOf(n), Down(n, l) PROVE Stage(Z, l, s) = "none"
  <2> SUFFICES ASSUME Stage(Z, l, s) # "none" PROVE FALSE
    OBVIOUS
  <2>1. PICK m \in Nodes : l \in LinksOf(m) /\ Down(m, l) /\ <<m, s>> \in DOMAIN H
    BY DEF Staged
  <2>2. m = n
    BY <1>3, <2>1, WayFacts
  <2> QED BY <1>2, <2>1, <2>2
<1> QED BY <1>1, <1>2, <1>3

\* The counters stay above what was drawn.
LEMMA DrawnKept ==
    ASSUME TypeOK, NEW H, History(H), AllDrawn(H), NEW n \in Nodes
    PROVE  /\ UNCHANGED seq => AllDrawn(H)'
           /\ seq' = [seq EXCEPT ![n] = NextSid(n)] =>
                /\ AllDrawn(H)'
                /\ \A H2 : (\A x \in DOMAIN H2 : x \in DOMAIN H \/ x = <<n, NextSid(n)>>)
                             => AllDrawn(H2)'
<1>0. \A m \in Nodes : seq[m] \in Nat
  BY DEF TypeOK
<1>1. UNCHANGED seq => AllDrawn(H)'
  BY DEF AllDrawn
<1>2. ASSUME seq' = [seq EXCEPT ![n] = NextSid(n)], NEW H2,
             \A x \in DOMAIN H2 : x \in DOMAIN H \/ x = <<n, NextSid(n)>>
      PROVE  AllDrawn(H2)'
  <2>0. seq'[n] = seq[n] + 1 /\ \A m \in Nodes : m # n => seq'[m] = seq[m]
    BY <1>2 DEF TypeOK, NextSid
  <2>1. ASSUME NEW x \in DOMAIN H2 PROVE x[2] <= seq'[x[1]]
    <3>1. CASE x \in DOMAIN H
      <4>1. x[1] \in Nodes /\ x[2] \in Nat /\ x[2] <= seq[x[1]]
        BY <3>1 DEF AllDrawn, History
      <4> QED BY <1>0, <2>0, <4>1
    <3>2. CASE x = <<n, NextSid(n)>>
      <4>1. x[1] = n /\ x[2] = seq[n] + 1
        BY <3>2 DEF NextSid
      <4> QED BY <1>0, <2>0, <4>1
    <3> QED BY <1>2, <3>1, <3>2
  <2> QED BY <2>1 DEF AllDrawn
<1> QED BY <1>1, <1>2

(***************************************************************************)
(* The tables.                                                             *)
(***************************************************************************)

LEMMA AddOwned ==
    ASSUME NEW H, TablesOwned(H), NEW H2, Extends(H, H2), NEW n \in Nodes, NEW e, Recorded(H2, n, e),
           table' = [table EXCEPT ![n] = AddTable(n, e)]
    PROVE  TablesOwned(H2)'
<1>1. ASSUME NEW m \in Nodes, NEW k \in DOMAIN table'[m]
      PROVE  Recorded(H2, m, table'[m][k])
  <2>1. CASE m = n /\ k \in KeysOf(n, e) /\ n \in DOMAIN table
    <3>1. table'[m][k] = e
      BY <2>1 DEF AddTable, Put
    <3> QED BY <2>1, <3>1
  <2>2. CASE ~(m = n /\ k \in KeysOf(n, e) /\ n \in DOMAIN table)
    <3>1. k \in DOMAIN table[m] /\ table'[m][k] = table[m][k]
      BY <1>1, <2>2 DEF AddTable, Put
    <3>2. Recorded(H, m, table[m][k])
      BY <3>1 DEF TablesOwned
    <3> QED BY <3>1, <3>2, StillRecorded
  <2> QED BY <2>1, <2>2
<1> QED BY <1>1 DEF TablesOwned

LEMMA RemoveOwned ==
    ASSUME NEW H, TablesOwned(H), NEW n \in Nodes, NEW c, NEW s,
           table' = [table EXCEPT ![n] = RemoveTable(n, c, s)]
    PROVE  TablesOwned(H)'
<1>1. ASSUME NEW m \in Nodes, NEW k \in DOMAIN table'[m]
      PROVE  k \in DOMAIN table[m] /\ table'[m][k] = table[m][k]
  BY <1>1 DEF RemoveTable, Drop
<1>2. ASSUME NEW m \in Nodes, NEW k \in DOMAIN table'[m]
      PROVE  Recorded(H, m, table'[m][k])
  BY <1>1, <1>2 DEF TablesOwned
<1> QED BY <1>2 DEF TablesOwned

\* What is found for a connection and an id is an entry made for them.
LEMMA LookupOwned ==
    ASSUME IdsAssumption, LinksAssumption, OneWay, NEW H, History(H), TablesOwned(H), TablesSound,
           NEW n \in Nodes, NEW c \in Conns, Drawn(n, c), NEW s, NEW e \in Lookup(n, c, s)
    PROVE  Recorded(H, n, e) /\ Matches(e, c, s)
<1> DEFINE k == Key(n, c, s)
<1>1. k \in DOMAIN table[n] /\ e = table[n][k]
  BY DEF Lookup
<1>2. Recorded(H, n, e) /\ k \in KeysOf(n, e)
  BY <1>1 DEF TablesOwned, TablesSound
<1>3. e.src \in Conns /\ e.dst \in Conns /\ Drawn(n, e.src) /\ Drawn(n, e.dst)
  BY <1>2, RecordedAt, GenuineConns
<1>4. CASE k = Key(n, e.src, e.ssid)
  <2>1. ID(n, c) = ID(n, e.src) /\ s = e.ssid
    BY <1>4 DEF Key
  <2> QED BY <1>2, <1>3, <2>1, IDInjective DEF Matches
<1>5. CASE k = Key(n, e.dst, e.dsid)
  <2>1. ID(n, c) = ID(n, e.dst) /\ s = e.dsid
    BY <1>5 DEF Key
  <2> QED BY <1>2, <1>3, <2>1, IDInjective DEF Matches
<1> QED BY <1>2, <1>4, <1>5 DEF KeysOf

\* The entry a channel reader found, and where it leads: at the end that dialed, to
\* the raw connection of the dial or on to the channel the dial came from; at the end
\* that was dialed, to its raw connection or on to the next channel.
LEMMA HopDown ==
    ASSUME LinksAssumption, OneWay, NEW H, History(H), NEW n, NEW l \in LinksOf(n),
           Down(n, l), NEW s, NEW e, Recorded(H, n, e), Matches(e, Channel(l), s)
    PROVE  /\ e.dsid = s
           /\ \/ /\ CallerEntry(n, e) /\ e.src = Channel(l) /\ e.ssid = s /\ e.dst = Raw(s)
                 /\ NextHop(e, Channel(l)) = [conn |-> e.dst, sid |-> e.dsid]
              \/ /\ RelayEntry(n, e) /\ e.dst = Channel(l)
                 /\ NextHop(e, Channel(l)) = [conn |-> e.src, sid |-> e.ssid]
<1>0. n \in Nodes /\ Genuine(H, n, e)
  BY RecordedAt
<1>1. Channel(l).link = l /\ Channel(l) \in Channels
  BY <1>0, PeerFacts, ConnFacts
<1>2. CASE e.src = Channel(l) /\ e.ssid = s
  <2>1. CallerEntry(n, e)
    BY <1>0, <1>1, <1>2, Kinds
  <2> QED BY <1>2, <2>1 DEF CallerEntry, NextHop
<1>3. CASE e.dst = Channel(l) /\ e.dsid = s
  <2>1. RelayEntry(n, e) /\ e.src # e.dst
    BY <1>0, <1>1, <1>3, Kinds, GenuineConns
  <2> QED BY <1>3, <2>1 DEF NextHop
<1> QED BY <1>2, <1>3 DEF Matches

LEMMA HopUp ==
    ASSUME LinksAssumption, OneWay, NEW H, History(H), NEW n, NEW l \in LinksOf(n),
           Up(n, l), NEW s, NEW e, Recorded(H, n, e), Matches(e, Channel(l), s)
    PROVE  /\ Arrives(n, e) /\ e.src = Channel(l) /\ e.ssid = s
           /\ e.dst = Raw(e.dsid) \/ RelayEntry(n, e)
           /\ NextHop(e, Channel(l)) = [conn |-> e.dst, sid |-> e.dsid]
<1>0. n \in Nodes /\ Genuine(H, n, e)
  BY RecordedAt
<1>1. Channel(l).link = l /\ Channel(l) \in Channels
  BY <1>0, PeerFacts, ConnFacts
<1>2. e.dst # Channel(l)
  <2> SUFFICES ASSUME e.dst = Channel(l) PROVE FALSE
    OBVIOUS
  <2>1. RelayEntry(n, e)
    BY <1>0, <1>1, Kinds
  <2>2. Down(n, l)
    BY <1>1, <2>1 DEF RelayEntry
  <2> QED BY <1>0, <2>2, WayFacts
<1>3. e.src = Channel(l) /\ e.ssid = s
  BY <1>2 DEF Matches
<1> QED BY <1>0, <1>1, <1>3, Kinds DEF NextHop

LEMMA HopRaw ==
    ASSUME LinksAssumption, OneWay, NEW H, History(H), NEW n, NEW c, c \notin Channels,
           NEW s, NEW e, Recorded(H, n, e), Matches(e, c, s)
    PROVE  /\ e.dst = c /\ e.dsid = s /\ c = Raw(s) /\ e.src \in Channels /\ e.src.link \in LinksOf(n)
           /\ e.src = Channel(e.src.link)
           /\ CallerEntry(n, e) \/ Arrives(n, e)
           /\ NextHop(e, c) = [conn |-> e.src, sid |-> e.ssid]
<1>0. n \in Nodes /\ Genuine(H, n, e)
  BY RecordedAt
<1>1. e.src \in Channels /\ e.src # c
  BY <1>0, Kinds
<1>2. e.dst = c /\ e.dsid = s
  BY <1>1 DEF Matches
<1>3. e.dst = Raw(e.dsid)
  BY <1>0, <1>2, Kinds
<1> QED BY <1>0, <1>1, <1>2, <1>3, Kinds DEF NextHop

(***************************************************************************)
(* The wires.                                                              *)
(***************************************************************************)

\* Writing a frame, or losing it.
LEMMA SentOwned ==
    ASSUME LinksAssumption, NEW H, NEW H2, Extends(H, H2), NEW Z, NEW Z2,
           Keeps(Z, Z2, "wire"), Keeps(Z, Z2, "answer"),
           NEW w \in Wires, WiresOwned(H, Z, w), NEW n \in Nodes, NEW l \in LinksOf(n), NEW f,
           FrameOwned(H2, Z2, Peer(n, l), l, f),
           f.cmd = "dial" => Stage(Z, l, f.sid) # "wire",
           f.cmd = "dialback" => Stage(Z, l, f.sid) # "answer"
    PROVE  WiresOwned(H2, Z2, Sent(w, n, l, f))
<1> DEFINE p == Peer(n, l)
<1>0. ASSUME NEW m \in Nodes, NEW j \in Links
      PROVE  WireOwned(H2, Z2, m, j, w[m][j])
  BY <1>0, FrameKept DEF WiresOwned, WireOwned, Keeps
<1>1. CASE ~BothOpen(n, l)
  BY <1>0, <1>1 DEF Sent, WiresOwned
<1>2. CASE BothOpen(n, l)
  <2> DEFINE v == w[p][l]  u == Append(v, f)
  <2>1. p \in Nodes /\ l \in Links /\ v \in Seq(Frames)
    BY PeerFacts DEF Wires
  <2>2. WireOwned(H, Z, p, l, v) /\ WireOwned(H2, Z2, p, l, v)
    BY <1>0, <2>1 DEF WiresOwned
  <2>3. /\ Len(v) \in Nat /\ DOMAIN v = 1..Len(v) /\ DOMAIN u = 1..(Len(v) + 1)
        /\ u[Len(v) + 1] = f /\ \A i \in 1..Len(v) : u[i] = v[i]
        /\ \A i \in DOMAIN u : i \in 1..Len(v) \/ i = Len(v) + 1
    BY <2>1
  <2> HIDE DEF u
  <2>4. \A i \in DOMAIN u : FrameOwned(H2, Z2, p, l, u[i])
    BY <2>2, <2>3 DEF WireOwned
  <2>5. ASSUME NEW i \in DOMAIN v
        PROVE  ~(f.cmd \in {"dial", "dialback"} /\ v[i].cmd = f.cmd /\ v[i].sid = f.sid)
    <3>1. FrameOwned(H, Z, p, l, v[i])
      BY <2>2, <2>5 DEF WireOwned
    <3> QED BY <3>1 DEF FrameOwned
  <2>6. Single(u)
    <3>1. Single(v)
      BY <2>2 DEF WireOwned
    <3> QED BY <2>3, <2>5, <3>1 DEF Single
  <2>7. WireOwned(H2, Z2, p, l, u)
    BY <2>4, <2>6 DEF WireOwned
  <2>8. Sent(w, n, l, f) = [w EXCEPT ![p][l] = u]
    BY <1>2 DEF Sent, u
  <2>9. ASSUME NEW m \in Nodes, NEW j \in Links
        PROVE  WireOwned(H2, Z2, m, j, Sent(w, n, l, f)[m][j])
    <3>1. CASE m = p /\ j = l
      <4>1. Sent(w, n, l, f)[m][j] = u
        BY <2>1, <2>8, <3>1 DEF Wires
      <4> QED BY <2>7, <3>1, <4>1
    <3>2. CASE ~(m = p /\ j = l)
      <4>1. Sent(w, n, l, f)[m][j] = w[m][j]
        BY <2>8, <2>9, <3>2 DEF Wires
      <4> QED BY <1>0, <2>9, <4>1
    <3> QED BY <3>1, <3>2
  <2> QED BY <2>9 DEF WiresOwned
<1> QED BY <1>1, <1>2

\* Reading a frame takes the only copy of a dial or an answer.
LEMMA TakenOwned ==
    ASSUME LinksAssumption, OneWay, NEW H, NEW Z, TypeOK, WiresOwned(H, Z, wire),
           NEW n \in Nodes, NEW l \in LinksOf(n), wire[n][l] # <<>>,
           NEW f, f = Head(wire[n][l]), NEW Z2,
           f.cmd \notin {"dial", "dialback"} => \A u : Keeps(Z, Z2, u),
           \A m, t : m # l \/ t # f.sid => Stage(Z2, m, t) = Stage(Z, m, t)
    PROVE  /\ FrameOwned(H, Z, n, l, f)
           /\ WiresOwned(H, Z2, Taken(n, l))
<1>1. l \in Links /\ wire \in Wires /\ wire[n][l] \in Seq(Frames)
  BY PeerFacts DEF TypeOK, Wires
<1> DEFINE v == wire[n][l]  u == Tail(v)
<1>2. /\ Len(v) \in Nat /\ DOMAIN v = 1..Len(v) /\ 1 \in DOMAIN v /\ f = v[1]
      /\ Len(u) = Len(v) - 1 /\ DOMAIN u = 1..(Len(v) - 1)
      /\ \A i \in DOMAIN u : u[i] = v[i + 1] /\ i + 1 \in DOMAIN v /\ i + 1 # 1
      /\ \A i, j \in DOMAIN u : i + 1 = j + 1 => i = j
  BY <1>1
<1>3. WireOwned(H, Z, n, l, v) /\ FrameOwned(H, Z, n, l, f)
  BY <1>1, <1>2 DEF WiresOwned, WireOwned
<1>4. ASSUME NEW m \in Nodes, NEW j \in Links, NEW i \in DOMAIN wire[m][j],
             ~(m = n /\ j = l /\ i = 1)
      PROVE  FrameOwned(H, Z2, m, j, wire[m][j][i])
  <2> DEFINE g == wire[m][j][i]
  <2>1. FrameOwned(H, Z, m, j, g) /\ Single(v)
    BY <1>3, <1>4 DEF WiresOwned, WireOwned
  <2>0. Extends(H, H)
    BY KeptRefl
  <2>g. SUFFICES FrameOwned(H, Z2, m, j, g)
    OBVIOUS
  <2>i. m = n /\ j = l => i \in DOMAIN v /\ v[i] = g /\ i # 1
    BY <1>4
  <2> HIDE DEF g
  <2>2. CASE f.cmd \notin {"dial", "dialback"}
    BY <2>0, <2>1, <2>2, FrameKept DEF Keeps
  <2>3. CASE f.cmd \in {"dial", "dialback"}
    <3>1. ~(g.cmd = f.cmd /\ j = l /\ g.sid = f.sid)
      <4> SUFFICES ASSUME g.cmd = f.cmd, j = l, g.sid = f.sid PROVE FALSE
        OBVIOUS
      <4>1. m = n
        <5>1. CASE f.cmd = "dial"
          BY <1>3, <2>1, <5>1, WayFacts DEF FrameOwned, DialOwned
        <5>2. CASE f.cmd = "dialback"
          BY <1>3, <2>1, <5>2, WayFacts DEF FrameOwned
        <5> QED BY <2>3, <5>1, <5>2
      <4>2. i \in DOMAIN v /\ v[i] = g /\ i # 1
        BY <2>i, <4>1
      <4> QED BY <1>2, <2>1, <2>3, <4>2 DEF Single
    <3>2. g.cmd = "dial" /\ Stage(Z, j, g.sid) = "wire" => Stage(Z2, j, g.sid) = "wire"
      BY <1>3, <2>1, <2>3, <3>1 DEF FrameOwned
    <3>3. g.cmd = "dialback" /\ Stage(Z, j, g.sid) = "answer" => Stage(Z2, j, g.sid) = "answer"
      BY <1>3, <2>1, <2>3, <3>1 DEF FrameOwned
    <3> QED BY <2>0, <2>1, <3>2, <3>3, FrameKept
  <2> QED BY <2>2, <2>3
<1>5. WireOwned(H, Z2, n, l, u)
  <2>1. \A i \in DOMAIN u : FrameOwned(H, Z2, n, l, u[i])
    BY <1>1, <1>2, <1>4
  <2>2. Single(u)
    <3>1. Single(v)
      BY <1>3 DEF WireOwned
    <3>2. ASSUME NEW i \in DOMAIN u, NEW j \in DOMAIN u,
                 u[i].cmd \in {"dial", "dialback"}, u[j].cmd = u[i].cmd, u[j].sid = u[i].sid
          PROVE  i = j
      <4>1. u[i] = v[i + 1] /\ u[j] = v[j + 1] /\ i + 1 \in DOMAIN v /\ j + 1 \in DOMAIN v
        BY <1>2
      <4>2. i + 1 = j + 1
        BY <3>1, <3>2, <4>1 DEF Single
      <4> QED BY <1>2, <4>2
    <3> QED BY <3>2 DEF Single
  <2> QED BY <2>1, <2>2 DEF WireOwned
<1>6. ASSUME NEW m \in Nodes, NEW j \in Links
      PROVE  WireOwned(H, Z2, m, j, Taken(n, l)[m][j])
  <2>1. CASE m = n /\ j = l
    <3>1. Taken(n, l)[m][j] = u
      BY <1>1, <2>1 DEF Taken, Wires
    <3> QED BY <1>5, <2>1, <3>1
  <2>2. CASE ~(m = n /\ j = l)
    <3>1. Taken(n, l)[m][j] = wire[m][j]
      BY <1>1, <1>6, <2>2 DEF Taken, Wires
    <3>2. WireOwned(H, Z2, m, j, wire[m][j])
      <4>1. Single(wire[m][j])
        BY DEF WiresOwned, WireOwned
      <4> QED BY <1>4, <2>2, <4>1 DEF WireOwned
    <3> QED BY <3>1, <3>2
  <2> QED BY <2>1, <2>2
<1> QED BY <1>3, <1>6 DEF WiresOwned

\* Frames are dropped when a channel end is closed.
LEMMA DroppedOwned ==
    ASSUME NEW H, NEW Z, TypeOK, WiresOwned(H, Z, wire), NEW n, NEW l
    PROVE  WiresOwned(H, Z, [wire EXCEPT ![n][l] = <<>>])
<1>1. wire \in Wires
  BY DEF TypeOK
<1>2. \A m, j : WireOwned(H, Z, m, j, <<>>)
  BY DEF WireOwned, Single
<1> QED BY <1>1, <1>2 DEF WiresOwned, Wires

(***************************************************************************)
(* The readers.                                                            *)
(***************************************************************************)

\* All readers but the one of c at n.
OthersOwned(H, Z, n, c) ==
    \A m \in Nodes : \A d \in DOMAIN reader[m] :
        m # n \/ d # c => ReaderOwned(H, Z, m, d, reader[m][d])

LEMMA GotoOwned ==
    ASSUME TypeOK, NEW H, NEW Z, NEW n \in Nodes, NEW c \in DOMAIN reader[n], OthersOwned(H, Z, n, c),
           NEW x, ReaderOwned(H, Z, n, c, x), Goto(n, c, x)
    PROVE  ReadersOwned(H, Z)'
<1>1. /\ \A m \in Nodes : DOMAIN reader'[m] = DOMAIN reader[m]
      /\ \A m \in Nodes : \A d \in DOMAIN reader'[m] :
           reader'[m][d] = IF m = n /\ d = c THEN x ELSE reader[m][d]
  BY DEF Goto, TypeOK, Readers, Maps
<1> QED BY <1>1 DEF ReadersOwned, OthersOwned

LEMMA PlainOwned ==
    ASSUME NEW H, NEW Z, NEW n, NEW c, c.type = "channel" => c.link \in LinksOf(n),
           NEW x, x.pc \notin {"found", "add", "send"}
    PROVE  ReaderOwned(H, Z, n, c, x)
BY DEF ReaderOwned

LEMMA PlainStates ==
    /\ Reading.pc = "read" /\ Stopping.pc = "stop"
    /\ \A f, R : Found(f, R).pc = "found" /\ Found(f, R).frame = f /\ Found(f, R).router = R
BY DEF Reading, Stopping, Found

LEMMA OthersKept ==
    ASSUME NEW H, NEW H2, Extends(H, H2), NEW Z, NEW Z2, ReadersOwned(H, Z),
           Keeps(Z, Z2, "add"), Keeps(Z, Z2, "send"), Keeps(Z, Z2, "passed"), Keeps(Z, Z2, "found"),
           NEW n, NEW c
    PROVE  OthersOwned(H2, Z2, n, c)
<1>1. ASSUME NEW m \in Nodes, NEW d \in DOMAIN reader[m]
      PROVE  ReaderOwned(H2, Z2, m, d, reader[m][d])
  <2> DEFINE x == reader[m][d]
  <2>1. ReaderOwned(H, Z, m, d, x)
    BY DEF ReadersOwned
  <2> HIDE DEF x
  <2>2. ReaderOwned(H2, Z2, m, d, x)
    BY <2>1, ReaderKept DEF Keeps
  <2> QED BY <2>2 DEF x
<1> QED BY <1>1 DEF OthersOwned

\* Only the reader of a channel that is dialed over deals with the dials of it, ...
LEMMA OthersUp ==
    ASSUME LinksAssumption, OneWay, TypeOK, NEW H, NEW H2, Extends(H, H2), NEW Z, NEW Z2,
           ReadersOwned(H, Z), NEW n \in Nodes, NEW l \in LinksOf(n), Up(n, l),
           Keeps(Z, Z2, "send"), Keeps(Z, Z2, "found"),
           \A m, t : Stage(Z, m, t) = "add" /\ m # l => Stage(Z2, m, t) = "add",
           \A m, t : Stage(Z, m, t) = "passed" /\ m # l => Stage(Z2, m, t) = "passed"
    PROVE  OthersOwned(H2, Z2, n, Channel(l))
<1>1. ASSUME NEW m \in Nodes, NEW d \in DOMAIN reader[m], m # n \/ d # Channel(l)
      PROVE  ReaderOwned(H2, Z2, m, d, reader[m][d])
  <2> DEFINE x == reader[m][d]
  <2>1. ReaderOwned(H, Z, m, d, x) /\ d \in Conns
    BY DEF ReadersOwned, TypeOK, Readers, Maps
  <2> HIDE DEF x
  <2>2. x.pc \in {"add", "send"} => d.link # l
    <3> SUFFICES ASSUME x.pc \in {"add", "send"}, d.link = l PROVE FALSE
      OBVIOUS
    <3>1. d.type = "channel" /\ Up(m, l) /\ l \in LinksOf(m)
      BY <2>1 DEF ReaderOwned, DialOwned
    <3>2. m = n
      BY <3>1, WayFacts
    <3>3. d = Channel(l)
      <4>1. d \in Channels
        BY <2>1, <3>1 DEF Conns, Raws
      <4> QED BY <4>1, ConnFacts
    <3> QED BY <1>1, <3>2, <3>3
  <2>3. ReaderOwned(H2, Z2, m, d, x)
    BY <2>1, <2>2, ReaderKept DEF Keeps
  <2> QED BY <2>3 DEF x
<1> QED BY <1>1 DEF OthersOwned

\* ... and only that of a channel dialed over from here deals with the answers.
LEMMA OthersDown ==
    ASSUME LinksAssumption, OneWay, TypeOK, NEW H, NEW H2, Extends(H, H2), NEW Z, NEW Z2,
           ReadersOwned(H, Z), NEW n \in Nodes, NEW l \in LinksOf(n), Down(n, l),
           Keeps(Z, Z2, "send"), Keeps(Z, Z2, "add"),
           \A m, t : Stage(Z, m, t) = "found" /\ m # l => Stage(Z2, m, t) = "found",
           \A m \in Nodes : \A d \in DOMAIN reader[m] : LET x == reader[m][d] IN
             x.pc = "send" /\ Stage(Z, d.link, x.frame.sid) = "passed"
               => Stage(Z2, d.link, x.frame.sid) = "passed"
    PROVE  OthersOwned(H2, Z2, n, Channel(l))
<1>1. ASSUME NEW m \in Nodes, NEW d \in DOMAIN reader[m], m # n \/ d # Channel(l)
      PROVE  ReaderOwned(H2, Z2, m, d, reader[m][d])
  <2> DEFINE x == reader[m][d]
  <2>1. ReaderOwned(H, Z, m, d, x) /\ d \in Conns
    BY DEF ReadersOwned, TypeOK, Readers, Maps
  <2>4. x.pc = "send" /\ Stage(Z, d.link, x.frame.sid) = "passed"
          => Stage(Z2, d.link, x.frame.sid) = "passed"
    OBVIOUS
  <2> HIDE DEF x
  <2>2. x.pc = "found" /\ x.frame.cmd = "dialback" /\ d.type = "channel" => d.link # l
    <3> SUFFICES ASSUME x.pc = "found", x.frame.cmd = "dialback", d.type = "channel", d.link = l
                 PROVE  FALSE
      OBVIOUS
    <3>1. Down(m, l) /\ l \in LinksOf(m)
      BY <2>1 DEF ReaderOwned, FoundOwned
    <3>2. m = n
      BY <3>1, WayFacts
    <3>3. d = Channel(l)
      <4>1. d \in Channels
        BY <2>1 DEF Conns, Raws
      <4> QED BY <4>1, ConnFacts
    <3> QED BY <1>1, <3>2, <3>3
  <2>3. ReaderOwned(H2, Z2, m, d, x)
    BY <2>1, <2>2, <2>4, ReaderKept DEF Keeps
  <2> QED BY <2>3 DEF x
<1> QED BY <1>1 DEF OthersOwned

\* A dial about to be sent over a channel is with one caller or one relay.
LEMMA OneSender ==
    ASSUME LinksAssumption, CallsAssumption, OneWay, TypeOK, NEW H, History(H), NEW Z,
           CallsOwned(H, Z), ReadersOwned(H, Z), NEW n \in Nodes, NEW d \in LinksOf(n), Down(n, d),
           NEW e, Recorded(H, n, e)
    PROVE  /\ \A k \in Calls : call[k].pc = "send" /\ call[k].link = d /\ call[k].sid = e.dsid =>
                Caller[k] = n /\ e = Entry(Channel(d), e.dsid, Raw(e.dsid), e.dsid, k)
           /\ \A m \in Nodes : \A c \in DOMAIN reader[m] : LET x == reader[m][c] IN
                x.pc = "send" /\ x.dst = d /\ x.sid = e.dsid =>
                  /\ m = n /\ c.type = "channel"
                  /\ e = Entry(c, x.frame.sid, Channel(d), e.dsid, x.frame.call)
<1>1. ASSUME NEW k \in Calls, call[k].pc = "send", call[k].link = d, call[k].sid = e.dsid
      PROVE  Caller[k] = n /\ e = Entry(Channel(d), e.dsid, Raw(e.dsid), e.dsid, k)
  <2> DEFINE m == Caller[k]  g == Entry(Channel(d), e.dsid, Raw(e.dsid), e.dsid, k)
  <2>1. /\ d \in LinksOf(m) /\ Peer(m, d) = Head(Route[k]) /\ m \in Nodes
        /\ Recorded(H, m, g)
    BY <1>1 DEF CallsOwned, CallOwned, CallsAssumption
  <2>2. Down(m, d)
    BY <2>1, RouteStart DEF Down
  <2>3. m = n
    BY <2>1, <2>2, WayFacts
  <2>4. g.dsid = e.dsid
    BY EntryFields
  <2> QED BY <2>1, <2>3, <2>4 DEF Recorded
<1>2. ASSUME NEW m \in Nodes, NEW c \in DOMAIN reader[m], NEW x, x = reader[m][c],
             x.pc = "send", x.dst = d, x.sid = e.dsid
      PROVE  /\ m = n /\ c.type = "channel"
             /\ e = Entry(c, x.frame.sid, Channel(d), e.dsid, x.frame.call)
  <2> DEFINE g == Entry(c, x.frame.sid, Channel(d), e.dsid, x.frame.call)
  <2>1. /\ d \in LinksOf(m) /\ Peer(m, d) = Head(x.frame.route) /\ c.type = "channel"
        /\ OnWay(x.frame.call, m, x.frame.route) /\ Recorded(H, m, g)
    BY <1>2 DEF ReadersOwned, ReaderOwned, DialOwned
  <2>2. x.frame.call \in Calls /\ x.frame.route \in Seq(Nodes) /\ x.frame.route # <<>>
    BY <1>2, DialStateType DEF RelayFrames, DialFrames
  <2>3. Down(m, d)
    BY <2>1, <2>2, RouteGoesOn DEF Down
  <2>4. m = n
    BY <2>1, <2>3, WayFacts
  <2>5. g.dsid = e.dsid
    BY EntryFields
  <2> QED BY <2>1, <2>4, <2>5 DEF Recorded
<1> QED BY <1>1, <1>2

(***************************************************************************)
(* Frames, and replies.                                                    *)
(***************************************************************************)

LEMMA FrameForms ==
    /\ \A s, k, r : /\ Dial(s, k, r).cmd = "dial" /\ Dial(s, k, r).sid = s
                    /\ Dial(s, k, r).call = k /\ Dial(s, k, r).route = r
    /\ \A s, ok : DialBack(s, ok).cmd = "dialback" /\ DialBack(s, ok).sid = s
    /\ \A s, p : Data(s, p).cmd = "data" /\ Data(s, p).sid = s /\ Data(s, p).payload = p
    /\ \A s : Closed(s).cmd = "closed" /\ Closed(s).sid = s
BY DEF Dial, DialBack, Data, Closed

LEMMA ClosedOwned ==
    ASSUME LinksAssumption, NEW H, NEW Z, NEW n \in Nodes, NEW l \in LinksOf(n),
           NEW f, f.cmd = "closed"
    PROVE  FrameOwned(H, Z, Peer(n, l), l, f)
BY PeerFacts DEF FrameOwned

LEMMA AnswerOwned ==
    ASSUME LinksAssumption, OneWay, NEW H, NEW Z, NEW n \in Nodes, NEW l \in LinksOf(n), Up(n, l),
           NEW f, f.cmd = "dialback", <<Peer(n, l), f.sid>> \in DOMAIN H,
           Stage(Z, l, f.sid) = "answer"
    PROVE  FrameOwned(H, Z, Peer(n, l), l, f)
BY PeerFacts, WayFacts DEF FrameOwned

LEMMA DialFrameOwned ==
    ASSUME LinksAssumption, OneWay, NEW H, NEW Z, NEW n \in Nodes, NEW l \in LinksOf(n), Down(n, l),
           NEW s, NEW k, NEW r, <<n, s>> \in DOMAIN H, H[<<n, s>>].call = k,
           OnWay(k, Peer(n, l), r), Stage(Z, l, s) = "wire"
    PROVE  FrameOwned(H, Z, Peer(n, l), l, Dial(s, k, r))
BY PeerFacts, WayFacts, FrameForms DEF FrameOwned, DialOwned

LEMMA ReplyOwned ==
    ASSUME LinksAssumption, TypeOK, NEW H, NEW Z, NEW Z2,
           Keeps(Z, Z2, "wire"), Keeps(Z, Z2, "answer"), NEW n \in Nodes, NEW l \in LinksOf(n),
           OthersOwned(H, Z2, n, Channel(l)), NEW w \in Wires, WiresOwned(H, Z, w),
           NEW f, FrameOwned(H, Z2, Peer(n, l), l, f),
           f.cmd = "dial" => Stage(Z, l, f.sid) # "wire",
           f.cmd = "dialback" => Stage(Z, l, f.sid) # "answer",
           wire' = Sent(w, n, l, f), NEW ok \in BOOLEAN,
           Goto(n, Channel(l), IF ok THEN Reading ELSE Stopping)
    PROVE  ReadersOwned(H, Z2)' /\ WiresOwned(H, Z2, wire')
<1>2. WiresOwned(H, Z2, wire')
  <2>1. Extends(H, H)
    BY KeptRefl
  <2>2. WiresOwned(H, Z2, Sent(w, n, l, f))
    BY <2>1, SentOwned
  <2> QED BY <2>2
<1>3. ReadersOwned(H, Z2)'
  <2> DEFINE x == IF ok THEN Reading ELSE Stopping
  <2>1. x.pc \notin {"found", "add", "send"}
    BY PlainStates
  <2>2. Channel(l) \in DOMAIN reader[n] /\ Channel(l).link \in LinksOf(n) /\ Goto(n, Channel(l), x)
    BY ConnFacts DEF TypeOK, Readers
  <2> HIDE DEF x
  <2>3. ReaderOwned(H, Z2, n, Channel(l), x)
    BY <2>1, <2>2, PlainOwned
  <2> QED BY <2>2, <2>3, GotoOwned
<1> QED BY <1>2, <1>3

\* A channel reader that goes back to reading, or stops.
LEMMA GoesPlain ==
    ASSUME TypeOK, NEW H, NEW Z, NEW n \in Nodes, NEW c \in DOMAIN reader[n], OthersOwned(H, Z, n, c),
           c.type = "channel" => c.link \in LinksOf(n),
           NEW x, x.pc \notin {"found", "add", "send"}, Goto(n, c, x)
    PROVE  ReadersOwned(H, Z)'
<1>1. ReaderOwned(H, Z, n, c, x)
  BY PlainOwned
<1> QED BY <1>1, GotoOwned

(***************************************************************************)
(* The raw connections.                                                    *)
(***************************************************************************)

\* What a step may change in a raw connection without the sessions' notice.
LEMMA RawsKept ==
    ASSUME TypeOK, NEW H, NEW H2, Extends(H, H2), NEW Z, NEW Z2, Keeps(Z, Z2, "done"),
           RawsOwned(H, Z), RawsMade(H), DOMAIN raw' = Nodes,
           \A n \in Nodes : DOMAIN raw'[n] = DOMAIN raw[n],
           \A n \in Nodes : \A s \in DOMAIN raw[n] :
              /\ raw'[n][s].call = raw[n][s].call /\ raw'[n][s].dialer = raw[n][s].dialer
              /\ raw'[n][s].ready = raw[n][s].ready /\ raw'[n][s].got = raw[n][s].got
    PROVE  RawsOwned(H2, Z2)' /\ (History(H) => RawsMade(H)')
<1>1. ASSUME NEW n \in Nodes, NEW s \in DOMAIN raw'[n]
      PROVE  RawOwned(H2, Z2, n, s, raw'[n][s])
  <2>1. s \in DOMAIN raw[n] /\ RawOwned(H, Z, n, s, raw[n][s])
    BY <1>1 DEF RawsOwned
  <2>2. RawOwned(H2, Z2, n, s, raw[n][s])
    BY <2>1, RawKept
  <2> DEFINE r == raw[n][s]  q == raw'[n][s]
  <2>3. q.call = r.call /\ q.dialer = r.dialer /\ q.ready = r.ready /\ q.got = r.got
    BY <2>1
  <2> HIDE DEF r, q
  <2>4. RawOwned(H2, Z2, n, s, r)
    BY <2>2 DEF r
  <2>5. RawOwned(H2, Z2, n, s, q)
    BY <2>3, <2>4 DEF RawOwned
  <2> QED BY <2>5 DEF q
<1>2. History(H) => RawsMade(H)'
  BY DEF RawsMade, History
<1> QED BY <1>1, <1>2 DEF RawsOwned

\* Closing raw connections.
LEMMA RawsClosed ==
    ASSUME TypeOK, NEW H, NEW Z, RawsOwned(H, Z), RawsMade(H), History(H), NEW Z2,
           Keeps(Z, Z2, "done"), NEW n \in Nodes, NEW ss, raw' = CloseRaws(n, ss)
    PROVE  RawsOwned(H, Z2)' /\ RawsMade(H)'
<1>1. Maps(raw, Nat, RawStates)
  BY DEF TypeOK
<1>2. /\ DOMAIN raw' = Nodes /\ \A m \in Nodes : DOMAIN raw'[m] = DOMAIN raw[m]
      /\ \A m \in Nodes : \A s \in DOMAIN raw[m] :
           raw'[m][s] = raw[m][s] \/ raw'[m][s] = [raw[m][s] EXCEPT !.closed = TRUE]
  BY <1>1 DEF Maps, CloseRaws
<1>3. \A r \in RawStates : LET q == [r EXCEPT !.closed = TRUE] IN
        q.call = r.call /\ q.dialer = r.dialer /\ q.ready = r.ready /\ q.got = r.got
  BY DEF RawStates
<1>4. \A m \in Nodes : \A s \in DOMAIN raw[m] :
        /\ raw'[m][s].call = raw[m][s].call /\ raw'[m][s].dialer = raw[m][s].dialer
        /\ raw'[m][s].ready = raw[m][s].ready /\ raw'[m][s].got = raw[m][s].got
  <2> TAKE m \in Nodes
  <2> TAKE s \in DOMAIN raw[m]
  <2> DEFINE r == raw[m][s]  q == raw'[m][s]
  <2>1. r \in RawStates /\ (q = r \/ q = [r EXCEPT !.closed = TRUE])
    BY <1>1, <1>2 DEF Maps
  <2> HIDE DEF r, q
  <2>2. q.call = r.call /\ q.dialer = r.dialer /\ q.ready = r.ready /\ q.got = r.got
    BY <1>3, <2>1
  <2> QED BY <2>2 DEF r, q
<1>5. Extends(H, H)
  BY KeptRefl
<1> QED BY <1>2, <1>4, <1>5, RawsKept

\* A raw connection is made with its entry.
LEMMA RawAdded ==
    ASSUME TypeOK, NEW H, NEW H2, Extends(H, H2), NEW Z, NEW Z2, Keeps(Z, Z2, "done"),
           RawsOwned(H, Z), RawsMade(H), History(H),
           NEW n \in Nodes, NEW s, NEW e, Recorded(H2, n, e), e.dsid = s, e.dst = Raw(s),
           \A x \in DOMAIN H2 : x \in DOMAIN H \/ x = <<n, s>>,
           NEW dialer \in BOOLEAN, dialer <=> Down(n, e.src.link),
           raw' = [raw EXCEPT ![n] = Put(@, {s}, NewRaw(e.call, dialer))]
    PROVE  RawsOwned(H2, Z2)' /\ RawsMade(H2)'
<1>0. DOMAIN raw = Nodes
  BY DEF TypeOK, Maps
<1>1. /\ raw'[n] = Put(raw[n], {s}, NewRaw(e.call, dialer))
      /\ \A m \in Nodes : m # n => raw'[m] = raw[m]
  BY <1>0
<1>2. /\ DOMAIN raw'[n] = DOMAIN raw[n] \cup {s} /\ raw'[n][s] = NewRaw(e.call, dialer)
      /\ \A t \in DOMAIN raw[n] : t # s => raw'[n][t] = raw[n][t]
  BY <1>1 DEF Put
<1>3. RawOwned(H2, Z2, n, s, NewRaw(e.call, dialer))
  <2> DEFINE r == NewRaw(e.call, dialer)
  <2>1. r.call = e.call /\ r.dialer = dialer /\ r.ready = FALSE /\ r.got = <<>>
    BY DEF NewRaw
  <2>2. <<n, s>> \in DOMAIN H2 /\ H2[<<n, s>>] = e
    BY DEF Recorded
  <2> HIDE DEF r
  <2> QED BY <2>1, <2>2 DEF RawOwned, r
<1>4. ASSUME NEW m \in Nodes, NEW t \in DOMAIN raw'[m]
      PROVE  RawOwned(H2, Z2, m, t, raw'[m][t])
  <2>1. CASE m = n /\ t = s
    BY <1>2, <1>3, <2>1
  <2>2. CASE ~(m = n /\ t = s)
    <3>1. t \in DOMAIN raw[m] /\ raw'[m][t] = raw[m][t]
      BY <1>1, <1>2, <1>4, <2>2
    <3>2. RawOwned(H, Z, m, t, raw[m][t])
      BY <3>1 DEF RawsOwned
    <3>3. RawOwned(H2, Z2, m, t, raw[m][t])
      BY <3>2, RawKept
    <3> QED BY <3>1, <3>3
  <2> QED BY <2>1, <2>2
<1>5. ASSUME NEW x \in DOMAIN H2, H2[x].dst = Raw(x[2])
      PROVE  x[2] \in DOMAIN raw'[x[1]]
  <2>1. CASE x \in DOMAIN H
    <3>1. x[1] \in Nodes /\ H2[x] = H[x]
      BY <2>1 DEF History, Extends
    <3>2. x[2] \in DOMAIN raw[x[1]]
      BY <1>5, <2>1, <3>1 DEF RawsMade
    <3> QED BY <1>1, <1>2, <3>1, <3>2
  <2>2. CASE x = <<n, s>>
    BY <1>2, <2>2
  <2> QED BY <2>1, <2>2
<1> QED BY <1>4, <1>5 DEF RawsOwned, RawsMade

\* A step that changes one raw connection.
LEMMA OneRaw ==
    ASSUME TypeOK, NEW H, NEW Z, NEW Z2, Keeps(Z, Z2, "done"),
           RawsOwned(H, Z), RawsMade(H), History(H), NEW n, NEW s,
           \A m \in Nodes : DOMAIN raw'[m] = DOMAIN raw[m],
           \A m \in Nodes : \A t \in DOMAIN raw[m] : m # n \/ t # s => raw'[m][t] = raw[m][t],
           n \in Nodes /\ s \in DOMAIN raw[n] => RawOwned(H, Z2, n, s, raw'[n][s])
    PROVE  RawsOwned(H, Z2)' /\ RawsMade(H)'
<1>1. ASSUME NEW m \in Nodes, NEW t \in DOMAIN raw'[m]
      PROVE  RawOwned(H, Z2, m, t, raw'[m][t])
  <2>1. CASE m = n /\ t = s
    BY <1>1, <2>1
  <2>2. CASE ~(m = n /\ t = s)
    <3>1. t \in DOMAIN raw[m] /\ raw'[m][t] = raw[m][t]
      BY <1>1, <2>2
    <3>2. RawOwned(H, Z, m, t, raw[m][t]) /\ Extends(H, H)
      BY <3>1, KeptRefl DEF RawsOwned
    <3>3. RawOwned(H, Z2, m, t, raw[m][t])
      BY <3>2, RawKept
    <3> QED BY <3>1, <3>3
  <2> QED BY <2>1, <2>2
<1>2. RawsMade(H)'
  BY DEF RawsMade, History
<1> QED BY <1>1, <1>2 DEF RawsOwned

\* Ready, and the refusal of a dial, of the caller's raw connection.
LEMMA ReadyOwned ==
    ASSUME TypeOK, NEW H, NEW Z, NEW Z2, Keeps(Z, Z2, "done"),
           RawsOwned(H, Z), RawsMade(H), History(H), NEW n \in Nodes,
           NEW e, Recorded(H, n, e), e.dst = Raw(e.dsid), Down(n, e.src.link),
           Stage(Z2, e.src.link, e.dsid) = "done", NEW s, s = e.dsid,
           \/ raw' = [raw EXCEPT ![n][s].ready = TRUE]
           \/ raw' = [raw EXCEPT ![n][s].ready = TRUE, ![n][s].failed = TRUE,
                                 ![n][s].closed = TRUE]
    PROVE  RawsOwned(H, Z2)' /\ RawsMade(H)'
<1>1. Maps(raw, Nat, RawStates)
  BY DEF TypeOK
<1>2. /\ \A m \in Nodes : DOMAIN raw'[m] = DOMAIN raw[m]
      /\ \A m \in Nodes : \A t \in DOMAIN raw[m] : m # n \/ t # s => raw'[m][t] = raw[m][t]
  BY <1>1 DEF Maps
<1>3. ASSUME s \in DOMAIN raw[n]
      PROVE  RawOwned(H, Z2, n, s, raw'[n][s])
  <2> DEFINE r == raw[n][s]  q == raw'[n][s]
  <2>0. r \in RawStates
    BY <1>1, <1>3 DEF Maps
  <2>2. \/ q = [r EXCEPT !.ready = TRUE]
        \/ q = [r EXCEPT !.ready = TRUE, !.failed = TRUE, !.closed = TRUE]
    <3>1. CASE raw' = [raw EXCEPT ![n][s].ready = TRUE]
      <4>1. q = [r EXCEPT !.ready = TRUE]
        BY <1>1, <1>3, <3>1 DEF Maps
      <4> QED BY <4>1
    <3>2. CASE raw' = [raw EXCEPT ![n][s].ready = TRUE, ![n][s].failed = TRUE,
                                  ![n][s].closed = TRUE]
      <4>1. q = [r EXCEPT !.ready = TRUE, !.failed = TRUE, !.closed = TRUE]
        BY <1>1, <1>3, <3>2 DEF Maps
      <4> QED BY <4>1
    <3> QED BY <3>1, <3>2
  <2>3. RawOwned(H, Z, n, s, r)
    BY <1>3 DEF RawsOwned
  <2> HIDE DEF r, q
  <2>4. q.call = r.call /\ q.dialer = r.dialer /\ q.got = r.got
    BY <2>0, <2>2 DEF RawStates
  <2>5. H[<<n, s>>] = e /\ <<n, s>> \in DOMAIN H
    BY DEF Recorded
  <2>6. RawOwned(H, Z2, n, s, q)
    BY <2>3, <2>4, <2>5 DEF RawOwned
  <2> QED BY <2>6 DEF q
<1>4. n \in Nodes /\ s \in DOMAIN raw[n] => RawOwned(H, Z2, n, s, raw'[n][s])
  BY <1>3
<1> QED BY ONLY TypeOK, Keeps(Z, Z2, "done"), RawsOwned(H, Z), RawsMade(H), History(H),
           <1>2, <1>4, OneRaw

\* A payload of the call, from the other end of it, is received.
LEMMA DeliverOwned ==
    ASSUME TypeOK, NEW H, NEW Z, RawsOwned(H, Z), RawsMade(H), History(H), NEW n \in Nodes,
           NEW e, Recorded(H, n, e), e.dst = Raw(e.dsid), NEW s, s = e.dsid, NEW p \in Payloads,
           p.call = e.call, p.dialer <=> ~Down(n, e.src.link), raw' = Deliver(n, s, p)
    PROVE  RawsOwned(H, Z)' /\ RawsMade(H)'
<1>1. Maps(raw, Nat, RawStates)
  BY DEF TypeOK
<1>2. /\ \A m \in Nodes : DOMAIN raw'[m] = DOMAIN raw[m]
      /\ \A m \in Nodes : \A t \in DOMAIN raw[m] : m # n \/ t # s => raw'[m][t] = raw[m][t]
  BY <1>1 DEF Maps, Deliver
<1>3. ASSUME s \in DOMAIN raw[n]
      PROVE  RawOwned(H, Z, n, s, raw'[n][s])
  <2> DEFINE r == raw[n][s]  q == raw'[n][s]
  <2>0. r \in RawStates
    BY <1>1, <1>3 DEF Maps
  <2>2. q = r \/ q = [r EXCEPT !.got = Append(@, p)]
    BY <1>1, <1>3 DEF Maps, Deliver
  <2>3. RawOwned(H, Z, n, s, r)
    BY <1>3 DEF RawsOwned
  <2> HIDE DEF r, q
  <2>4. q.call = r.call /\ q.dialer = r.dialer /\ q.ready = r.ready
        /\ (q.got = r.got \/ q.got = Append(r.got, p)) /\ r.got \in Seq(Payloads)
        /\ r.dialer \in BOOLEAN
    BY <2>0, <2>2 DEF RawStates
  <2>5. H[<<n, s>>] = e /\ <<n, s>> \in DOMAIN H
    BY DEF Recorded
  <2>6. p.call = r.call /\ p.dialer = ~r.dialer
    <3>1. p.dialer \in BOOLEAN /\ r.call = e.call /\ (r.dialer <=> Down(n, e.src.link))
      BY <2>3, <2>5 DEF RawOwned, Payloads
    <3> QED BY <2>4, <3>1
  <2>7. \A i \in DOMAIN q.got : q.got[i].call = r.call /\ q.got[i].dialer = ~r.dialer
    <3>1. \A i \in DOMAIN r.got : r.got[i].call = r.call /\ r.got[i].dialer = ~r.dialer
      BY <2>3 DEF RawOwned
    <3>2. CASE q.got = Append(r.got, p)
      <4>1. \A i \in DOMAIN q.got : (i \in DOMAIN r.got /\ q.got[i] = r.got[i]) \/ q.got[i] = p
        BY <2>4, <3>2
      <4> QED BY <2>6, <3>1, <4>1
    <3> QED BY <2>4, <3>1, <3>2
  <2>8. RawOwned(H, Z, n, s, q)
    BY <2>3, <2>4, <2>7 DEF RawOwned
  <2> QED BY <2>8 DEF q
<1>4. \A u : Keeps(Z, Z, u)
  BY KeptRefl
<1> QED BY <1>2, <1>3, <1>4, OneRaw

(***************************************************************************)
(* Every step keeps the sessions apart, for a history that extends H.      *)
(***************************************************************************)

\* A dial that is done stays so, and so does what was recorded.
OwnedAfter(H, Z) ==
    \E H2, Z2 : Extends(H, H2) /\ Keeps(Z, Z2, "done") /\ Owned(H2, Z2)'

LEMMA StayOwned ==
    ASSUME NEW H, NEW Z, Owned(H, Z)
    PROVE  /\ History(H) /\ AllPlaced(H, Z) /\ Staged(H, Z) /\ Extends(H, H)
           /\ Keeps(Z, Z, "done")
           /\ UNCHANGED seq => AllDrawn(H)'
           /\ UNCHANGED reg => Joined'
           /\ UNCHANGED table => TablesOwned(H)'
           /\ UNCHANGED call => CallsOwned(H, Z)'
           /\ UNCHANGED wire => WiresOwned(H, Z, wire')
           /\ UNCHANGED reader => ReadersOwned(H, Z)'
           /\ UNCHANGED dialing => AllDialingOwned(H, Z)'
           /\ UNCHANGED raw => RawsOwned(H, Z)' /\ RawsMade(H)'
<1>1. Extends(H, H) /\ \A u : Keeps(Z, Z, u)
  BY KeptRefl
<1>2. /\ History(H) /\ AllPlaced(H, Z) /\ Staged(H, Z)
      /\ UNCHANGED seq => AllDrawn(H)'
      /\ UNCHANGED reg => Joined'
      /\ UNCHANGED raw => RawsMade(H)'
  BY DEF Owned, AllDrawn, Joined, RawsMade
<1> QED BY <1>1, <1>2, KeepOwned

LEMMA DialSelectOwned ==
    ASSUME LinksAssumption, CallsAssumption, TypeOK, NEW H, NEW Z, Owned(H, Z),
           NEW k \in Calls, DialSelect(k)
    PROVE  OwnedAfter(H, Z)
<1>1. CallsOwned(H, Z)'
  <2>1. call \in [Calls -> CallStates]
    BY DEF TypeOK
  <2>2. PICK x : call' = [call EXCEPT ![k] = x] /\ CallOwned(H, Z, k, x)
    <3>1. CASE call' = [call EXCEPT ![k] = [pc |-> "error"]]
      <4>1. CallOwned(H, Z, k, [pc |-> "error"])
        BY DEF CallOwned
      <4> QED BY <3>1, <4>1
    <3>2. CASE \E l \in Candidates(Caller[k], Head(Route[k])) :
                 call' = [call EXCEPT ![k] = [pc |-> "add", link |-> l]]
      <4>1. PICK l \in Candidates(Caller[k], Head(Route[k])) :
                   call' = [call EXCEPT ![k] = [pc |-> "add", link |-> l]]
        BY <3>2
      <4>2. l \in LinksOf(Caller[k]) /\ Peer(Caller[k], l) = Head(Route[k])
        BY DEF Owned, Joined, Candidates, CallsAssumption
      <4>3. CallOwned(H, Z, k, [pc |-> "add", link |-> l])
        BY <4>2 DEF CallOwned
      <4> QED BY <4>1, <4>3
    <3> QED BY <3>1, <3>2 DEF DialSelect
  <2>3. \A j \in Calls : call'[j] = IF j = k THEN x ELSE call[j]
    BY <2>1, <2>2
  <2> QED BY <2>2, <2>3 DEF Owned, CallsOwned
<1> QED BY <1>1, StayOwned DEF DialSelect, OwnedAfter, Owned

LEMMA DialAddOwned ==
    ASSUME IdsAssumption, LinksAssumption, CallsAssumption, OneWay, TypeOK, HopInv,
           NEW H, NEW Z, Owned(H, Z), NEW k \in Calls, DialAdd(k)
    PROVE  OwnedAfter(H, Z)
<1>1. PICK n, l, s, e : /\ n = Caller[k] /\ l = call[k].link /\ s = NextSid(n)
                        /\ e = Entry(Channel(l), s, Raw(s), s, k)
  OBVIOUS
<1>o. History(H) /\ AllDrawn(H) /\ AllPlaced(H, Z) /\ Staged(H, Z) /\ TablesOwned(H)
      /\ CallsOwned(H, Z) /\ RawsOwned(H, Z) /\ RawsMade(H)
  BY DEF Owned
<1>2. /\ n \in Nodes /\ l \in LinksOf(n) /\ Peer(n, l) = Head(Route[k]) /\ Down(n, l) /\ l \in Links
  <2>1. l \in LinksOf(n) /\ Peer(n, l) = Head(Route[k]) /\ n \in Nodes
    BY <1>1, <1>o DEF DialAdd, CallsOwned, CallOwned, CallsAssumption
  <2> QED BY <1>1, <2>1, RouteStart, PeerFacts DEF Down
<1>3. s \in Nat /\ s > Sid0[n] /\ <<n, s>> \notin DOMAIN H /\ Stage(Z, l, s) = "none"
  BY <1>1, <1>2, <1>o, Fresh
<1>4. /\ e.src = Channel(l) /\ e.ssid = s /\ e.dst = Raw(s) /\ e.dsid = s /\ e.call = k
      /\ e.src \in Channels /\ e.src.link = l
  BY <1>1, <1>2, EntryFields, ConnFacts
<1>5. Genuine(H, n, e) /\ ~Arrives(n, e)
  <2>1. e \in Entries
    BY <1>1, <1>2, <1>3 DEF Entry, Entries, Conns, Channels, Raws, Channel, Raw
  <2>2. ~Up(n, l)
    BY <1>2, WayFacts
  <2> QED BY <1>2, <1>3, <1>4, <2>1, <2>2 DEF Genuine, CallerEntry, Arrives
<1>9. PICK H2, Z2 : H2 = Put(H, {<<n, s>>}, e) /\ Z2 = Move(Z, l, s, "send")
  OBVIOUS
<1>c. Continues(H, n, e)
  BY <1>5 DEF Continues
<1>6. /\ History(H2) /\ Extends(H, H2) /\ Recorded(H2, n, e)
      /\ \A x \in DOMAIN H2 : x \in DOMAIN H \/ x = <<n, s>>
  <2>1. e.src \in Channels /\ e.src.link \in LinksOf(n) /\ e.dsid = s
    BY <1>2, <1>4
  <2>2. History(H) /\ Genuine(H, n, e) /\ H2 = Put(H, {<<n, s>>}, e)
    BY <1>5, <1>9, <1>o
  <2>3. n \in Nodes /\ s \in Nat /\ <<n, s>> \notin DOMAIN H
    BY <1>2, <1>3
  <2>4. Grown(H, H2, n, e)
    BY ONLY LinksAssumption, <2>1, <2>2, <2>3, <1>c, Records
  <2> QED BY <1>4, <2>4 DEF Grown
<1>7. /\ \A u : u # "none" => Keeps(Z, Z2, u)
      /\ Stage(Z2, l, s) = "send"
      /\ \A m, t : m # l \/ t # s => Stage(Z2, m, t) = Stage(Z, m, t)
  BY <1>3, <1>9, MoveKeeps, Moved
<1>8. AllPlaced(H, Z2)
  BY <1>3, <1>9, <1>o, MovePlaced DEF Made
<1>10. AllPlaced(H2, Z2)
  <2>1. ASSUME NEW x \in DOMAIN H2 PROVE Placed(Z2, x[1], H2[x])
    <3>1. CASE x \in DOMAIN H
      BY <1>6, <1>8, <1>9, <3>1 DEF AllPlaced, Extends
    <3>2. CASE x = <<n, s>>
      <4>1. H2[x] = e /\ x[1] = n
        BY <1>4, <1>6, <1>9, <3>2 DEF Recorded
      <4>2. ~RelayEntry(n, e)
        BY <1>5 DEF RelayEntry
      <4> QED BY <1>5, <4>1, <4>2 DEF Placed
    <3> QED BY <1>6, <1>9, <3>1, <3>2
  <2> QED BY <2>1 DEF AllPlaced
<1>11. Staged(H2, Z2)
  <2>1. <<n, s>> \in DOMAIN H2
    BY <1>4, <1>6, <1>9 DEF Recorded
  <2>2. \A m, t : Stage(Z2, m, t) # "none" => Stage(Z, m, t) # "none" \/ (m = l /\ t = s)
    BY <1>7, <1>9
  <2>3. \A x \in DOMAIN H : x \in DOMAIN H2
    BY <1>6, <1>9 DEF Extends
  <2> QED BY <1>2, <1>o, <2>1, <2>2, <2>3 DEF Staged
<1>12. AllDrawn(H2)'
  BY <1>1, <1>2, <1>6, <1>9, <1>o, DrawnKept DEF DialAdd
<1>13. TablesOwned(H2)'
  BY <1>1, <1>2, <1>6, <1>9, <1>o, AddOwned DEF DialAdd
<1>14. RawsOwned(H2, Z2)' /\ RawsMade(H2)'
  <2>1. raw' = [raw EXCEPT ![n] = Put(@, {s}, NewRaw(e.call, TRUE))]
    BY <1>1, <1>4 DEF DialAdd
  <2>2. Keeps(Z, Z2, "done") /\ Extends(H, H2) /\ Recorded(H2, n, e)
        /\ \A x \in DOMAIN H2 : x \in DOMAIN H \/ x = <<n, s>>
    BY <1>6, <1>7, <1>9
  <2>3. TRUE <=> Down(n, e.src.link)
    BY <1>2, <1>4
  <2> QED BY <1>2, <1>4, <1>o, <2>1, <2>2, <2>3, RawAdded
<1>15. CallsOwned(H2, Z2)'
  <2> DEFINE x == [pc |-> "send", link |-> l, sid |-> s]
  <2>1. x.pc = "send" /\ x.link = l /\ x.sid = s
    OBVIOUS
  <2>2. call' = [call EXCEPT ![k] = x] /\ call \in [Calls -> CallStates]
    BY <1>1 DEF DialAdd, TypeOK
  <2> HIDE DEF x
  <2>3. CallOwned(H2, Z2, k, x)
    BY <1>1, <1>2, <1>6, <1>7, <1>9, <2>1 DEF CallOwned
  <2>4. ASSUME NEW j \in Calls, j # k PROVE CallOwned(H2, Z2, j, call[j])
    <3>1. CallOwned(H, Z, j, call[j])
      BY <1>o DEF CallsOwned
    <3>2. Extends(H, H2) /\ Keeps(Z, Z2, "send")
      BY <1>6, <1>7, <1>9
    <3> QED BY <3>1, <3>2, CallKept DEF Keeps
  <2> QED BY <2>2, <2>3, <2>4 DEF CallsOwned
<1>16. /\ WiresOwned(H2, Z2, wire') /\ ReadersOwned(H2, Z2)' /\ AllDialingOwned(H2, Z2)' /\ Joined'
  <2>1. Extends(H, H2) /\ \A u : u # "none" => Keeps(Z, Z2, u)
    BY <1>6, <1>7, <1>9
  <2> QED BY <2>1, KeepOwned, StayOwned DEF DialAdd
<1> QED BY <1>7, <1>6, <1>9, <1>10, <1>11, <1>12, <1>13, <1>14, <1>15, <1>16 DEF OwnedAfter, Owned

LEMMA DialSendOwned ==
    ASSUME IdsAssumption, LinksAssumption, CallsAssumption, OneWay, TypeOK,
           NEW H, NEW Z, Owned(H, Z), NEW k \in Calls, DialSend(k)
    PROVE  OwnedAfter(H, Z)
<1>1. PICK n, l, s, e : /\ n = Caller[k] /\ l = call[k].link /\ s = call[k].sid
                        /\ e = Entry(Channel(l), s, Raw(s), s, k)
  OBVIOUS
<1>o. History(H) /\ AllPlaced(H, Z) /\ Staged(H, Z) /\ TablesOwned(H) /\ CallsOwned(H, Z)
      /\ WiresOwned(H, Z, wire) /\ ReadersOwned(H, Z)
  BY DEF Owned
<1>2. /\ n \in Nodes /\ l \in LinksOf(n) /\ Peer(n, l) = Head(Route[k]) /\ Down(n, l) /\ l \in Links
      /\ Recorded(H, n, e) /\ Stage(Z, l, s) = "send" /\ OnWay(k, Peer(n, l), Tail(Route[k]))
  <2>1. /\ l \in LinksOf(n) /\ Peer(n, l) = Head(Route[k]) /\ n \in Nodes
        /\ Recorded(H, n, e) /\ Stage(Z, l, s) = "send"
    BY <1>1, <1>o DEF DialSend, CallsOwned, CallOwned, CallsAssumption
  <2> QED BY <1>1, <2>1, RouteStart, PeerFacts DEF Down
<1>4. e.src = Channel(l) /\ e.dst = Raw(s) /\ e.dsid = s /\ e.call = k
  BY <1>1, EntryFields
<1>5. /\ \A j \in Calls : call[j].pc = "send" /\ call[j].link = l /\ call[j].sid = s => j = k
      /\ \A m \in Nodes : \A c \in DOMAIN reader[m] :
           ~(reader[m][c].pc = "send" /\ reader[m][c].dst = l /\ reader[m][c].sid = s)
  <2>1. /\ \A j \in Calls : call[j].pc = "send" /\ call[j].link = l /\ call[j].sid = e.dsid =>
             e = Entry(Channel(l), e.dsid, Raw(e.dsid), e.dsid, j)
        /\ \A m \in Nodes : \A c \in DOMAIN reader[m] :
             reader[m][c].pc = "send" /\ reader[m][c].dst = l /\ reader[m][c].sid = e.dsid =>
               e = Entry(c, reader[m][c].frame.sid, Channel(l), e.dsid, reader[m][c].frame.call)
    BY ONLY LinksAssumption, CallsAssumption, OneWay, TypeOK, <1>2, <1>o, OneSender
  <2>2. ASSUME NEW j, e = Entry(Channel(l), s, Raw(s), s, j) PROVE j = k
    BY <1>4, <2>2, EntryFields
  <2>3. ASSUME NEW c, NEW a, NEW b, e = Entry(c, a, Channel(l), s, b) PROVE FALSE
    BY <1>4, <2>3, EntryFields, ConnFacts
  <2> QED BY ONLY <1>4, <2>1, <2>2, <2>3
<1>6. call \in [Calls -> CallStates]
  BY DEF TypeOK
<1>7. CASE /\ wire' = Sent(wire, n, l, Dial(s, k, Tail(Route[k])))
           /\ call' = [call EXCEPT ![k] = [pc |-> "dialed", sid |-> s]]
           /\ UNCHANGED table
  <2>1. PICK Z2 : Z2 = Move(Z, l, s, "wire")
    OBVIOUS
  <2>2. /\ \A u : u # "send" => Keeps(Z, Z2, u)
        /\ Stage(Z2, l, s) = "wire"
        /\ \A m, t : m # l \/ t # s => Stage(Z2, m, t) = Stage(Z, m, t)
    BY <1>2, <2>1, MoveKeeps, Moved
  <2>3. AllPlaced(H, Z2) /\ Staged(H, Z2)
    BY <1>2, <1>o, <2>1, MovePlaced, MoveStaged DEF Made
  <2>4. WiresOwned(H, Z2, wire')
    <3> DEFINE f == Dial(s, k, Tail(Route[k]))
    <3>1. FrameOwned(H, Z2, Peer(n, l), l, f)
      BY <1>2, <1>4, <2>2, DialFrameOwned DEF Recorded
    <3>2. f.cmd = "dial" /\ f.sid = s
      BY FrameForms
    <3> HIDE DEF f
    <3>3. WiresOwned(H, Z2, Sent(wire, n, l, f))
      <4>1. Extends(H, H) /\ wire \in Wires
        BY KeptRefl DEF TypeOK
      <4> QED BY <1>2, <1>o, <2>2, <3>1, <3>2, <4>1, SentOwned
    <3> QED BY <1>7, <3>3 DEF f
  <2>5. CallsOwned(H, Z2)'
    <3>1. CallOwned(H, Z2, k, [pc |-> "dialed", sid |-> s])
      BY DEF CallOwned
    <3>2. ASSUME NEW j \in Calls, j # k PROVE CallOwned(H, Z2, j, call[j])
      <4> DEFINE x == call[j]
      <4>1. CallOwned(H, Z, j, x) /\ ~(x.pc = "send" /\ x.link = l /\ x.sid = s) /\ Extends(H, H)
        BY <1>5, <1>o, <3>2, KeptRefl DEF CallsOwned
      <4> HIDE DEF x
      <4>2. x.pc = "send" /\ Stage(Z, x.link, x.sid) = "send" => Stage(Z2, x.link, x.sid) = "send"
        BY <2>2, <4>1
      <4>3. CallOwned(H, Z2, j, x)
        BY <4>1, <4>2, CallKept
      <4> QED BY <4>3 DEF x
    <3>3. \A j \in Calls : call'[j] = IF j = k THEN [pc |-> "dialed", sid |-> s] ELSE call[j]
      BY <1>6, <1>7
    <3> QED BY <3>1, <3>2, <3>3 DEF CallsOwned
  <2>6. ReadersOwned(H, Z2)'
    <3>1. ASSUME NEW m \in Nodes, NEW c \in DOMAIN reader[m]
          PROVE  ReaderOwned(H, Z2, m, c, reader[m][c])
      <4> DEFINE x == reader[m][c]
      <4>1. ReaderOwned(H, Z, m, c, x) /\ ~(x.pc = "send" /\ x.dst = l /\ x.sid = s)
            /\ Extends(H, H)
        BY <1>5, <1>o, KeptRefl DEF ReadersOwned
      <4> HIDE DEF x
      <4>2. x.pc = "send" /\ Stage(Z, x.dst, x.sid) = "send" => Stage(Z2, x.dst, x.sid) = "send"
        BY <2>2, <4>1
      <4>3. \A u \in {"add", "passed", "found"} :
              Stage(Z, c.link, x.frame.sid) = u => Stage(Z2, c.link, x.frame.sid) = u
        <5>1. \A u \in {"add", "passed", "found"} : Keeps(Z, Z2, u)
          BY <2>2
        <5> QED BY ONLY <5>1 DEF Keeps
      <4>4. ReaderOwned(H, Z2, m, c, x)
        BY ONLY <4>1, <4>2, <4>3, ReaderKept
      <4> QED BY <4>4 DEF x
    <3> QED BY <3>1 DEF DialSend, ReadersOwned
  <2>7. AllDialingOwned(H, Z2)' /\ RawsOwned(H, Z2)'
    BY <2>2, KeepOwned, KeptRefl DEF DialSend
  <2> QED BY <2>2, <1>7, <2>3, <2>4, <2>5, <2>6, <2>7, StayOwned DEF DialSend, OwnedAfter, Owned
<1>8. CASE /\ table' = [table EXCEPT ![n] = RemoveTable(n, Channel(l), s)]
           /\ call' = [call EXCEPT ![k] = [pc |-> "error"]]
           /\ UNCHANGED wire
  <2>1. TablesOwned(H)'
    BY <1>2, <1>8, <1>o, RemoveOwned
  <2>2. CallsOwned(H, Z)'
    <3>1. CallOwned(H, Z, k, [pc |-> "error"])
      BY DEF CallOwned
    <3>2. \A j \in Calls : call'[j] = IF j = k THEN [pc |-> "error"] ELSE call[j]
      BY <1>6, <1>8
    <3> QED BY <1>o, <3>1, <3>2 DEF CallsOwned
  <2> QED BY <1>8, <2>1, <2>2, StayOwned DEF DialSend, OwnedAfter, Owned
<1> QED BY <1>1, <1>7, <1>8 DEF DialSend

(***************************************************************************)
(* procDial.                                                               *)
(***************************************************************************)

\* A frame that was taken off the wire.
LEMMA TakenFrame ==
    ASSUME LinksAssumption, OneWay, TypeOK, NEW H, NEW Z, Owned(H, Z), NEW n \in Nodes, NEW l \in LinksOf(n),
           NEW cmd, HasFrame(n, l, cmd), NEW f, f = Head(wire[n][l])
    PROVE  /\ FrameOwned(H, Z, n, l, f) /\ f.cmd = cmd /\ f \in Frames /\ f.sid \in Nat
           /\ Taken(n, l) \in Wires
           /\ \A v : WiresOwned(H, Move(Z, l, f.sid, v), Taken(n, l)) \/ cmd \notin {"dial", "dialback"}
           /\ cmd \notin {"dial", "dialback"} => WiresOwned(H, Z, Taken(n, l))
<1>1. f \in Frames /\ Taken(n, l) \in Wires /\ f.cmd = cmd /\ wire[n][l] # <<>>
  BY TakenType, PeerFacts DEF HasFrame
<1>2. WiresOwned(H, Z, wire)
  BY DEF Owned
<1>3. FrameOwned(H, Z, n, l, f) /\ (cmd \notin {"dial", "dialback"} => WiresOwned(H, Z, Taken(n, l)))
  <2>1. \A u : Keeps(Z, Z, u)
    BY KeptRefl
  <2>2. CASE cmd \notin {"dial", "dialback"}
    BY <1>1, <1>2, <2>1, <2>2, TakenOwned
  <2>3. FrameOwned(H, Z, n, l, f)
    BY <1>1, <1>2, <2>1, TakenOwned
  <2> QED BY <2>2, <2>3
<1>4. ASSUME NEW v, cmd \in {"dial", "dialback"}
      PROVE  WiresOwned(H, Move(Z, l, f.sid, v), Taken(n, l))
  <2>1. PICK Z2 : Z2 = Move(Z, l, f.sid, v)
    OBVIOUS
  <2>2. \A m, t : m # l \/ t # f.sid => Stage(Z2, m, t) = Stage(Z, m, t)
    BY <2>1, Moved
  <2>3. WiresOwned(H, Z2, Taken(n, l))
    BY <1>1, <1>2, <1>4, <2>2, TakenOwned
  <2> QED BY <2>1, <2>3
<1> QED BY <1>1, <1>3, <1>4, FrameTypes

\* All there is to say of a move from one stage to another.
LEMMA OneMove ==
    ASSUME NEW H, NEW Z, AllPlaced(H, Z), Staged(H, Z), NEW l, NEW s, NEW u, NEW v,
           Stage(Z, l, s) = u, u \notin {"none", "passed", "done"}, u \in Made => v \in Made,
           NEW Z2, Z2 = Move(Z, l, s, v)
    PROVE  /\ AllPlaced(H, Z2) /\ Staged(H, Z2) /\ Stage(Z2, l, s) = v
           /\ \A m, t : m # l \/ t # s => Stage(Z2, m, t) = Stage(Z, m, t)
           /\ \A x : x # u => Keeps(Z, Z2, x)
BY MovePlaced, MoveStaged, Moved, MoveKeeps

LEMMA ProcDialRefuseOwned ==
    ASSUME LinksAssumption, OneWay, TypeOK, NEW H, NEW Z, Owned(H, Z),
           NEW n \in Nodes, NEW l \in LinksOf(n), ProcDialRefuse(n, l)
    PROVE  OwnedAfter(H, Z)
<1>1. PICK f, s : f = Head(wire[n][l]) /\ s = f.sid
  OBVIOUS
<1>o. History(H) /\ AllPlaced(H, Z) /\ Staged(H, Z) /\ ReadersOwned(H, Z)
  BY DEF Owned
<1>2. /\ FrameOwned(H, Z, n, l, f) /\ f.cmd = "dial" /\ Taken(n, l) \in Wires
      /\ WiresOwned(H, Move(Z, l, s, "add"), Taken(n, l))
  BY <1>1, TakenFrame DEF ProcDialRefuse
<1>3. Up(n, l) /\ <<Peer(n, l), s>> \in DOMAIN H /\ Stage(Z, l, s) = "wire"
  BY <1>1, <1>2 DEF FrameOwned, DialOwned
<1>4. PICK Z1, Z2 : Z1 = Move(Z, l, s, "add") /\ Z2 = Move(Z1, l, s, "answer")
  OBVIOUS
<1>5. /\ AllPlaced(H, Z1) /\ Staged(H, Z1) /\ Stage(Z1, l, s) = "add"
      /\ \A m, t : m # l \/ t # s => Stage(Z1, m, t) = Stage(Z, m, t)
  BY <1>o, <1>3, <1>4, OneMove DEF Made
<1>6. /\ AllPlaced(H, Z2) /\ Staged(H, Z2) /\ Stage(Z2, l, s) = "answer"
      /\ \A m, t : m # l \/ t # s => Stage(Z2, m, t) = Stage(Z1, m, t)
      /\ \A u : u # "add" => Keeps(Z1, Z2, u)
  BY <1>4, <1>5, OneMove DEF Made
<1>7. \A u : u # "wire" => Keeps(Z, Z2, u)
  BY <1>3, <1>5, <1>6 DEF Keeps
<1>8. OthersOwned(H, Z2, n, Channel(l))
  BY <1>o, <1>7, OthersKept, KeptRefl
<1>9. ReadersOwned(H, Z2)' /\ WiresOwned(H, Z2, wire')
  <2> DEFINE g == DialBack(s, FALSE)
  <2>0. PICK ok \in BOOLEAN : /\ wire' = Sent(Taken(n, l), n, l, g)
                              /\ Goto(n, Channel(l), IF ok THEN Reading ELSE Stopping)
    BY <1>1 DEF ProcDialRefuse, Reply
  <2>1. g.cmd = "dialback" /\ g.sid = s
    BY DEF DialBack
  <2> HIDE DEF g
  <2>2. FrameOwned(H, Z2, Peer(n, l), l, g)
    BY <1>3, <1>6, <2>1, AnswerOwned
  <2>3. WiresOwned(H, Z1, Taken(n, l))
    BY <1>2, <1>4
  <2> QED BY <1>2, <1>5, <1>6, <1>8, <2>0, <2>1, <2>2, <2>3, ReplyOwned
<1>10. CallsOwned(H, Z2)' /\ AllDialingOwned(H, Z2)' /\ RawsOwned(H, Z2)'
  BY <1>7, KeepOwned, KeptRefl DEF ProcDialRefuse
<1> QED BY <1>7, <1>6, <1>9, <1>10, StayOwned DEF ProcDialRefuse, OwnedAfter, Owned

LEMMA ProcDialLastOwned ==
    ASSUME LinksAssumption, OneWay, TypeOK, NEW H, NEW Z, Owned(H, Z),
           NEW n \in Nodes, NEW l \in LinksOf(n), ProcDialLast(n, l)
    PROVE  OwnedAfter(H, Z)
<1>1. PICK f, s : f = Head(wire[n][l]) /\ s = f.sid
  OBVIOUS
<1>o. History(H) /\ AllPlaced(H, Z) /\ Staged(H, Z) /\ ReadersOwned(H, Z) /\ AllDialingOwned(H, Z)
  BY DEF Owned
<1>2. FrameOwned(H, Z, n, l, f) /\ f.cmd = "dial" /\ WiresOwned(H, Move(Z, l, s, "dial"), Taken(n, l))
  BY <1>1, TakenFrame DEF ProcDialLast
<1>3. Up(n, l) /\ <<Peer(n, l), s>> \in DOMAIN H /\ H[<<Peer(n, l), s>>].call = f.call
      /\ Stage(Z, l, s) = "wire"
  BY <1>1, <1>2 DEF FrameOwned, DialOwned
<1>4. PICK Z2 : Z2 = Move(Z, l, s, "dial")
  OBVIOUS
<1>5. /\ AllPlaced(H, Z2) /\ Staged(H, Z2) /\ Stage(Z2, l, s) = "dial"
      /\ \A u : u # "wire" => Keeps(Z, Z2, u)
  BY <1>o, <1>3, <1>4, OneMove DEF Made
<1>6. AllDialingOwned(H, Z2)'
  <2> DEFINE d == [pc |-> "dial", link |-> l, sid |-> s, call |-> f.call]
  <2>1. d.pc = "dial" /\ d.link = l /\ d.sid = s /\ d.call = f.call
    OBVIOUS
  <2>2. dialing' = [dialing EXCEPT ![n] = @ \cup {d}]
    BY <1>1 DEF ProcDialLast
  <2> HIDE DEF d
  <2>3. DialingOwned(H, Z2, n, d)
    BY <1>3, <1>5, <2>1 DEF DialingOwned
  <2>4. ASSUME NEW m \in Nodes, NEW x \in dialing[m] PROVE DialingOwned(H, Z2, m, x)
    BY <1>o, <1>5, DialingKept, KeptRefl DEF AllDialingOwned, Keeps
  <2> QED BY <2>2, <2>3, <2>4 DEF AllDialingOwned
<1>7. WiresOwned(H, Z2, wire')
  BY <1>2, <1>4 DEF ProcDialLast
<1>8. CallsOwned(H, Z2)' /\ ReadersOwned(H, Z2)' /\ RawsOwned(H, Z2)'
  BY <1>5, KeepOwned, KeptRefl DEF ProcDialLast
<1> QED BY <1>5, <1>6, <1>7, <1>8, StayOwned DEF ProcDialLast, OwnedAfter, Owned

LEMMA ProcDialSelectOwned ==
    ASSUME LinksAssumption, OneWay, TypeOK, NEW H, NEW Z, Owned(H, Z),
           NEW n \in Nodes, NEW l \in LinksOf(n), ProcDialSelect(n, l)
    PROVE  OwnedAfter(H, Z)
<1>1. PICK f, s : f = Head(wire[n][l]) /\ s = f.sid
  OBVIOUS
<1>o. History(H) /\ AllPlaced(H, Z) /\ Staged(H, Z) /\ ReadersOwned(H, Z) /\ Joined
  BY DEF Owned
<1>2. FrameOwned(H, Z, n, l, f) /\ f.cmd = "dial" /\ WiresOwned(H, Move(Z, l, s, "add"), Taken(n, l))
  BY <1>1, TakenFrame DEF ProcDialSelect
<1>3. DialOwned(H, n, l, f) /\ Stage(Z, l, s) = "wire"
  BY <1>1, <1>2 DEF FrameOwned
<1>4. PICK Z2 : Z2 = Move(Z, l, s, "add")
  OBVIOUS
<1>5. /\ AllPlaced(H, Z2) /\ Staged(H, Z2) /\ Stage(Z2, l, s) = "add"
      /\ \A u : u # "wire" => Keeps(Z, Z2, u)
  BY <1>o, <1>3, <1>4, OneMove DEF Made
<1>6. PICK d \in Candidates(n, Head(f.route)) :
               Goto(n, Channel(l), [pc |-> "add", frame |-> f, dst |-> d])
  BY <1>1 DEF ProcDialSelect
<1>7. ReadersOwned(H, Z2)'
  <2> DEFINE x == [pc |-> "add", frame |-> f, dst |-> d]
  <2>1. x.pc = "add" /\ x.frame = f /\ x.dst = d /\ Goto(n, Channel(l), x)
    BY <1>6
  <2> HIDE DEF x
  <2>2. d \in LinksOf(n) /\ Peer(n, d) = Head(f.route)
    BY <1>o DEF Candidates, Joined
  <2>3. ReaderOwned(H, Z2, n, Channel(l), x)
    BY <1>1, <1>3, <1>5, <2>1, <2>2, ConnFacts DEF ReaderOwned
  <2>4. OthersOwned(H, Z2, n, Channel(l))
    BY <1>o, <1>5, OthersKept, KeptRefl
  <2>5. Channel(l) \in DOMAIN reader[n]
    BY DEF TypeOK, Readers
  <2> QED BY <2>1, <2>3, <2>4, <2>5, GotoOwned
<1>8. WiresOwned(H, Z2, wire')
  BY <1>2, <1>4 DEF ProcDialSelect
<1>9. CallsOwned(H, Z2)' /\ AllDialingOwned(H, Z2)' /\ RawsOwned(H, Z2)'
  BY <1>5, KeepOwned, KeptRefl DEF ProcDialSelect
<1> QED BY <1>5, <1>7, <1>8, <1>9, StayOwned DEF ProcDialSelect, OwnedAfter, Owned

\* What a relay that deals with a dial knows of it.
LEMMA RelayFacts ==
    ASSUME LinksAssumption, CallsAssumption, OneWay, TypeOK, NEW H, NEW Z, ReadersOwned(H, Z),
           NEW n \in Nodes, NEW l \in LinksOf(n), NEW r, r = reader[n][Channel(l)],
           r.pc \in {"add", "send"}, NEW f, f = r.frame, NEW d, d = r.dst
    PROVE  /\ f.sid \in Nat /\ f.call \in Calls /\ f.route \in Seq(Nodes) /\ f.route # <<>>
           /\ l \in Links /\ d \in Links /\ Channel(l) \in DOMAIN reader[n]
           /\ DialOwned(H, n, l, f) /\ Up(n, l)
           /\ d \in LinksOf(n) /\ Down(n, d) /\ d # l /\ OnWay(f.call, Peer(n, d), Tail(f.route))
           /\ r.pc = "add" => Stage(Z, l, f.sid) = "add"
           /\ r.pc = "send" =>
                /\ Recorded(H, n, Entry(Channel(l), f.sid, Channel(d), r.sid, f.call))
                /\ Stage(Z, d, r.sid) = "send" /\ Stage(Z, l, f.sid) = "passed"
<1>1. Channel(l) \in DOMAIN reader[n] /\ Channel(l).link = l
  BY ConnFacts DEF TypeOK, Readers
<1>2. f \in RelayFrames /\ d \in Links
  BY <1>1, DialStateType
<1>3. f.sid \in Nat /\ f.call \in Calls /\ f.route \in Seq(Nodes) /\ f.route # <<>>
  BY <1>2 DEF RelayFrames, DialFrames
<1>4. ReaderOwned(H, Z, n, Channel(l), r)
  BY <1>1 DEF ReadersOwned
<1>5. /\ DialOwned(H, n, l, f) /\ d \in LinksOf(n) /\ Peer(n, d) = Head(f.route)
      /\ r.pc = "add" => Stage(Z, l, f.sid) = "add"
      /\ r.pc = "send" =>
           /\ Recorded(H, n, Entry(Channel(l), f.sid, Channel(d), r.sid, f.call))
           /\ Stage(Z, d, r.sid) = "send" /\ Stage(Z, l, f.sid) = "passed"
  BY <1>1, <1>4 DEF ReaderOwned
<1>6. Up(n, l) /\ OnWay(f.call, n, f.route)
  BY <1>5 DEF DialOwned
<1>7. Down(n, d) /\ OnWay(f.call, Peer(n, d), Tail(f.route))
  BY <1>3, <1>5, <1>6, RouteGoesOn DEF Down
<1>8. d # l
  BY <1>5, <1>6, <1>7, WayFacts
<1> QED BY <1>1, <1>2, <1>3, <1>5, <1>6, <1>7, <1>8, PeerFacts

LEMMA ProcDialAddOwned ==
    ASSUME IdsAssumption, LinksAssumption, CallsAssumption, OneWay, TypeOK, HopInv,
           NEW H, NEW Z, Owned(H, Z), NEW n \in Nodes, NEW l \in LinksOf(n), ProcDialAdd(n, l)
    PROVE  OwnedAfter(H, Z)
<1>1. PICK r, f, d, s, e : /\ r = reader[n][Channel(l)] /\ f = r.frame /\ d = r.dst
                           /\ s = NextSid(n)
                           /\ e = Entry(Channel(l), f.sid, Channel(d), s, f.call)
  OBVIOUS
<1>o. History(H) /\ AllDrawn(H) /\ AllPlaced(H, Z) /\ Staged(H, Z) /\ TablesOwned(H)
      /\ ReadersOwned(H, Z) /\ RawsMade(H)
  BY DEF Owned
<1>p. r.pc = "add"
  BY <1>1 DEF ProcDialAdd
<1>2. /\ f.sid \in Nat /\ f.call \in Calls
      /\ l \in Links /\ d \in Links /\ Channel(l) \in DOMAIN reader[n]
      /\ DialOwned(H, n, l, f) /\ Up(n, l)
      /\ d \in LinksOf(n) /\ Down(n, d) /\ d # l /\ Stage(Z, l, f.sid) = "add"
  BY ONLY LinksAssumption, CallsAssumption, OneWay, TypeOK, <1>1, <1>o, <1>p, RelayFacts
<1>3. s \in Nat /\ s > Sid0[n] /\ <<n, s>> \notin DOMAIN H /\ Stage(Z, d, s) = "none"
  BY <1>1, <1>2, <1>o, Fresh
<1>4. /\ e.src = Channel(l) /\ e.ssid = f.sid /\ e.dst = Channel(d) /\ e.dsid = s
      /\ e.call = f.call /\ e.src \in Channels /\ e.src.link = l /\ e.dst \in Channels /\ e.dst.link = d
  <2>1. /\ e.src = Channel(l) /\ e.ssid = f.sid /\ e.dst = Channel(d) /\ e.dsid = s
        /\ e.call = f.call
    BY <1>1, EntryFields
  <2> QED BY <1>2, <2>1, ConnFacts
<1>5. Genuine(H, n, e) /\ Arrives(n, e) /\ RelayEntry(n, e)
  <2>1. e \in Entries
    BY <1>1, <1>2, <1>3 DEF Entry, Entries, Conns, Channels, Channel
  <2> QED BY <1>2, <1>3, <1>4, <2>1 DEF Genuine, RelayEntry, Arrives
<1>c. Continues(H, n, e)
  <2>1. ASSUME NEW t, <<n, t>> \in DOMAIN H, H[<<n, t>>].src = e.src, H[<<n, t>>].ssid = e.ssid
        PROVE  FALSE
    <3>1. Placed(Z, n, H[<<n, t>>])
      BY <1>o, <2>1, HistoryAt, PlacedAt
    <3>2. Arrives(n, H[<<n, t>>])
      BY <1>5, <2>1 DEF Arrives
    <3>3. Stage(Z, l, f.sid) \in Made
      BY <1>4, <2>1, <3>1, <3>2 DEF Placed
    <3> QED BY <1>2, <3>3 DEF Made
  <2>2. <<Peer(n, l), f.sid>> \in DOMAIN H /\ H[<<Peer(n, l), f.sid>>].call = f.call
    BY <1>2 DEF DialOwned
  <2> QED BY <1>4, <2>1, <2>2 DEF Continues
<1>9. PICK H2, Z1, Z2 : /\ H2 = Put(H, {<<n, s>>}, e)
                        /\ Z1 = Move(Z, l, f.sid, "passed") /\ Z2 = Move(Z1, d, s, "send")
  OBVIOUS
<1>6. /\ History(H2) /\ Extends(H, H2) /\ Recorded(H2, n, e)
      /\ \A x \in DOMAIN H2 : x \in DOMAIN H \/ x = <<n, s>>
  <2>1. e.src \in Channels /\ e.src.link \in LinksOf(n) /\ e.dsid = s
    BY <1>2, <1>4
  <2>2. History(H) /\ Genuine(H, n, e) /\ H2 = Put(H, {<<n, s>>}, e)
    BY <1>5, <1>9, <1>o
  <2>3. n \in Nodes /\ s \in Nat /\ <<n, s>> \notin DOMAIN H
    BY <1>3
  <2>4. Grown(H, H2, n, e)
    BY ONLY LinksAssumption, <2>1, <2>2, <2>3, <1>c, Records
  <2> QED BY <2>1, <2>4 DEF Grown
<1>7. /\ AllPlaced(H, Z1) /\ Staged(H, Z1) /\ Stage(Z1, l, f.sid) = "passed"
      /\ \A m, t : m # l \/ t # f.sid => Stage(Z1, m, t) = Stage(Z, m, t)
  <2>1. "passed" \in Made
    BY DEF Made
  <2> QED BY ONLY <1>2, <1>9, <1>o, <2>1, OneMove
<1>8. /\ AllPlaced(H, Z2) /\ Stage(Z2, d, s) = "send"
      /\ \A m, t : m # d \/ t # s => Stage(Z2, m, t) = Stage(Z1, m, t)
  <2>1. Stage(Z1, d, s) = "none"
    BY <1>2, <1>3, <1>7
  <2> QED BY <1>7, <1>9, <2>1, MovePlaced, Moved DEF Made
<1>10. /\ Stage(Z2, l, f.sid) = "passed"
       /\ \A m, t : (m # l \/ t # f.sid) /\ (m # d \/ t # s) => Stage(Z2, m, t) = Stage(Z, m, t)
       /\ \A u : u \notin {"none", "add"} => Keeps(Z, Z2, u)
  <2>1. /\ Stage(Z2, l, f.sid) = "passed"
        /\ \A m, t : (m # l \/ t # f.sid) /\ (m # d \/ t # s) => Stage(Z2, m, t) = Stage(Z, m, t)
    BY <1>2, <1>7, <1>8
  <2>2. ASSUME NEW u, u \notin {"none", "add"} PROVE Keeps(Z, Z2, u)
    BY <1>2, <1>3, <2>1, <2>2 DEF Keeps
  <2> QED BY <2>1, <2>2
<1>11. AllPlaced(H2, Z2)
  <2>1. ASSUME NEW x \in DOMAIN H2 PROVE Placed(Z2, x[1], H2[x])
    <3>1. CASE x \in DOMAIN H
      BY <1>6, <1>8, <3>1 DEF AllPlaced, Extends
    <3>2. CASE x = <<n, s>>
      <4>1. H2[x] = e /\ x[1] = n
        BY <1>4, <1>6, <3>2 DEF Recorded
      <4> QED BY <1>4, <1>10, <4>1 DEF Placed, Made
    <3> QED BY <1>6, <3>1, <3>2
  <2> QED BY <2>1 DEF AllPlaced
<1>12. Staged(H2, Z2)
  <2>1. <<n, s>> \in DOMAIN H2
    BY <1>4, <1>6 DEF Recorded
  <2>2. \A m, t : Stage(Z2, m, t) # "none" => Stage(Z, m, t) # "none" \/ (m = d /\ t = s)
    BY <1>2, <1>10
  <2>3. \A x \in DOMAIN H : x \in DOMAIN H2
    BY <1>6 DEF Extends
  <2> QED BY <1>2, <1>o, <2>1, <2>2, <2>3 DEF Staged
<1>13. AllDrawn(H2)'
  BY <1>1, <1>6, <1>o, DrawnKept DEF ProcDialAdd
<1>14. TablesOwned(H2)'
  BY <1>1, <1>6, <1>o, AddOwned DEF ProcDialAdd
<1>15. ReadersOwned(H2, Z2)'
  <2> DEFINE x == [pc |-> "send", frame |-> f, dst |-> d, sid |-> s]
  <2>1. x.pc = "send" /\ x.frame = f /\ x.dst = d /\ x.sid = s
    OBVIOUS
  <2>2. Goto(n, Channel(l), x)
    BY <1>1 DEF ProcDialAdd, Goto
  <2> HIDE DEF x
  <2>3. ReaderOwned(H2, Z2, n, Channel(l), x)
    <3>1. ReaderOwned(H, Z, n, Channel(l), r)
      BY <1>1, <1>2, <1>o DEF ReadersOwned
    <3>2. Channel(l).type = "channel" /\ Channel(l).link = l
      BY ConnFacts
    <3>3. DialOwned(H2, n, l, f) /\ Peer(n, d) = Head(f.route)
      BY <1>1, <1>2, <1>6, <1>p, <3>1 DEF DialOwned, Extends, ReaderOwned
    <3> QED BY <1>1, <1>2, <1>6, <1>8, <1>10, <2>1, <3>2, <3>3 DEF ReaderOwned
  <2>4. OthersOwned(H2, Z2, n, Channel(l))
    <3>1. /\ \A m, t : Stage(Z, m, t) = "add" /\ m # l => Stage(Z2, m, t) = "add"
          /\ \A m, t : Stage(Z, m, t) = "passed" /\ m # l => Stage(Z2, m, t) = "passed"
      BY <1>3, <1>10
    <3>2. Keeps(Z, Z2, "send") /\ Keeps(Z, Z2, "found")
      BY <1>10
    <3> QED BY <1>2, <1>6, <1>o, <3>1, <3>2, OthersUp
  <2> QED BY <1>2, <2>2, <2>3, <2>4, GotoOwned
<1>16. RawsMade(H2)'
  <2>1. ASSUME NEW x \in DOMAIN H2, H2[x].dst = Raw(x[2]) PROVE x[2] \in DOMAIN raw[x[1]]
    <3>1. CASE x \in DOMAIN H
      BY <1>6, <1>o, <2>1, <3>1 DEF RawsMade, Extends
    <3>2. CASE x = <<n, s>>
      BY <1>4, <1>6, <2>1, <3>2, ConnFacts DEF Recorded
    <3> QED BY <1>6, <2>1, <3>1, <3>2
  <2> QED BY <2>1 DEF RawsMade, ProcDialAdd
<1>17. /\ CallsOwned(H2, Z2)' /\ WiresOwned(H2, Z2, wire') /\ AllDialingOwned(H2, Z2)'
       /\ RawsOwned(H2, Z2)' /\ Joined'
  BY <1>6, <1>10, KeepOwned, StayOwned DEF ProcDialAdd
<1> QED BY <1>10, <1>6, <1>11, <1>12, <1>13, <1>14, <1>15, <1>16, <1>17 DEF OwnedAfter, Owned

LEMMA ProcDialSendOwned ==
    ASSUME IdsAssumption, LinksAssumption, CallsAssumption, OneWay, TypeOK,
           NEW H, NEW Z, Owned(H, Z), NEW n \in Nodes, NEW l \in LinksOf(n), ProcDialSend(n, l)
    PROVE  OwnedAfter(H, Z)
<1>1. PICK r, f, d, s, e : /\ r = reader[n][Channel(l)] /\ f = r.frame /\ d = r.dst
                           /\ s = r.sid
                           /\ e = Entry(Channel(l), f.sid, Channel(d), s, f.call)
  OBVIOUS
<1>o. History(H) /\ AllPlaced(H, Z) /\ Staged(H, Z) /\ TablesOwned(H) /\ CallsOwned(H, Z)
      /\ WiresOwned(H, Z, wire) /\ ReadersOwned(H, Z)
  BY DEF Owned
<1>p. r.pc = "send"
  BY <1>1 DEF ProcDialSend
<1>2. /\ f.sid \in Nat /\ f.call \in Calls
      /\ l \in Links /\ d \in Links /\ Channel(l) \in DOMAIN reader[n]
      /\ DialOwned(H, n, l, f) /\ Up(n, l)
      /\ d \in LinksOf(n) /\ Down(n, d) /\ d # l /\ OnWay(f.call, Peer(n, d), Tail(f.route))
      /\ Recorded(H, n, e) /\ Stage(Z, d, s) = "send" /\ Stage(Z, l, f.sid) = "passed"
  BY ONLY LinksAssumption, CallsAssumption, OneWay, TypeOK, <1>1, <1>o, <1>p, RelayFacts
<1>4. /\ e.src = Channel(l) /\ e.ssid = f.sid /\ e.dst = Channel(d) /\ e.dsid = s /\ e.call = f.call
      /\ e.src.link = l /\ e.dst.link = d /\ e.dst \in Channels
  <2>1. /\ e.src = Channel(l) /\ e.ssid = f.sid /\ e.dst = Channel(d) /\ e.dsid = s
        /\ e.call = f.call
    BY <1>1, EntryFields
  <2> QED BY <1>2, <2>1, ConnFacts
<1>5. /\ \A j \in Calls : ~(call[j].pc = "send" /\ call[j].link = d /\ call[j].sid = s)
      /\ \A m \in Nodes : \A c \in DOMAIN reader[m] :
           reader[m][c].pc = "send" /\ reader[m][c].dst = d /\ reader[m][c].sid = s
             => m = n /\ c = Channel(l)
  <2>1. /\ \A j \in Calls : call[j].pc = "send" /\ call[j].link = d /\ call[j].sid = e.dsid =>
             e = Entry(Channel(d), e.dsid, Raw(e.dsid), e.dsid, j)
        /\ \A m \in Nodes : \A c \in DOMAIN reader[m] :
             reader[m][c].pc = "send" /\ reader[m][c].dst = d /\ reader[m][c].sid = e.dsid =>
               /\ m = n
               /\ e = Entry(c, reader[m][c].frame.sid, Channel(d), e.dsid, reader[m][c].frame.call)
    BY ONLY LinksAssumption, CallsAssumption, OneWay, TypeOK, <1>2, <1>o, OneSender
  <2>2. ASSUME NEW j, e = Entry(Channel(d), s, Raw(s), s, j) PROVE FALSE
    BY <1>4, <2>2, EntryFields, ConnFacts
  <2>3. ASSUME NEW c, NEW a, NEW b, e = Entry(c, a, Channel(d), s, b) PROVE c = Channel(l)
    BY <1>4, <2>3, EntryFields
  <2> QED BY ONLY <1>4, <2>1, <2>2, <2>3
\* Whatever becomes of this dial, the other calls and readers do not notice.
<1>6. ASSUME NEW Z2, \A u : u \notin {"send", "passed"} => Keeps(Z, Z2, u),
             \A m, t : (m # d \/ t # s) /\ (m # l \/ t # f.sid) => Stage(Z2, m, t) = Stage(Z, m, t)
      PROVE  CallsOwned(H, Z2)' /\ OthersOwned(H, Z2, n, Channel(l))
  <2>1. ASSUME NEW j \in Calls PROVE CallOwned(H, Z2, j, call[j])
    <3> DEFINE x == call[j]
    <3>1. CallOwned(H, Z, j, x) /\ ~(x.pc = "send" /\ x.link = d /\ x.sid = s) /\ Extends(H, H)
      BY <1>5, <1>o, KeptRefl DEF CallsOwned
    <3> HIDE DEF x
    <3>2. x.pc = "send" /\ Stage(Z, x.link, x.sid) = "send" => Stage(Z2, x.link, x.sid) = "send"
      BY <1>2, <1>6, <3>1
    <3>3. CallOwned(H, Z2, j, x)
      BY <3>1, <3>2, CallKept
    <3> QED BY <3>3 DEF x
  <2>2. ASSUME NEW m \in Nodes, NEW c \in DOMAIN reader[m], m # n \/ c # Channel(l)
        PROVE  ReaderOwned(H, Z2, m, c, reader[m][c])
    <3> DEFINE x == reader[m][c]
    <3>1. /\ ReaderOwned(H, Z, m, c, x) /\ ~(x.pc = "send" /\ x.dst = d /\ x.sid = s)
          /\ Extends(H, H) /\ c \in Conns
      BY <1>5, <1>o, <2>2, KeptRefl DEF ReadersOwned, TypeOK, Readers, Maps
    <3> HIDE DEF x
    <3>2. x.pc = "send" => c.link # l
      <4> SUFFICES ASSUME x.pc = "send", c.link = l PROVE FALSE
        OBVIOUS
      <4>1. c.type = "channel" /\ Up(m, l) /\ l \in LinksOf(m)
        BY <3>1 DEF ReaderOwned, DialOwned
      <4>2. m = n
        BY <1>2, <4>1, WayFacts
      <4>3. c \in Channels
        BY <3>1, <4>1 DEF Conns, Raws
      <4> QED BY <2>2, <4>2, <4>3, ConnFacts
    <3>3. /\ x.pc = "send" /\ Stage(Z, x.dst, x.sid) = "send" => Stage(Z2, x.dst, x.sid) = "send"
          /\ x.pc = "send" /\ Stage(Z, c.link, x.frame.sid) = "passed"
               => Stage(Z2, c.link, x.frame.sid) = "passed"
      BY <1>2, <1>6, <3>1, <3>2
    <3>4. \A u \in {"add", "found"} :
            Stage(Z, c.link, x.frame.sid) = u => Stage(Z2, c.link, x.frame.sid) = u
      <4>1. \A u \in {"add", "found"} : Keeps(Z, Z2, u)
        BY <1>6
      <4> QED BY ONLY <4>1 DEF Keeps
    <3>5. ReaderOwned(H, Z2, m, c, x)
      BY ONLY <3>1, <3>3, <3>4, ReaderKept
    <3> QED BY <3>5 DEF x
  <2> QED BY <2>1, <2>2 DEF CallsOwned, OthersOwned, ProcDialSend
<1>7. CASE /\ wire' = Sent(wire, n, d, Dial(s, f.call, Tail(f.route)))
           /\ Goto(n, Channel(l), Reading)
           /\ UNCHANGED table
  <2>1. PICK Z2 : Z2 = Move(Z, d, s, "wire")
    OBVIOUS
  <2>2. /\ AllPlaced(H, Z2) /\ Staged(H, Z2) /\ Stage(Z2, d, s) = "wire"
        /\ \A m, t : m # d \/ t # s => Stage(Z2, m, t) = Stage(Z, m, t)
        /\ \A u : u # "send" => Keeps(Z, Z2, u)
    <3>1. "send" \notin Made
      BY DEF Made
    <3> QED BY ONLY <1>2, <1>o, <2>1, <3>1, OneMove
  <2>3. WiresOwned(H, Z2, wire')
    <3> DEFINE g == Dial(s, f.call, Tail(f.route))
    <3>1. FrameOwned(H, Z2, Peer(n, d), d, g)
      BY <1>2, <1>4, <2>2, DialFrameOwned DEF Recorded
    <3>2. g.cmd = "dial" /\ g.sid = s
      BY FrameForms
    <3> HIDE DEF g
    <3>3. WiresOwned(H, Z2, Sent(wire, n, d, g))
      <4>1. Extends(H, H) /\ wire \in Wires
        BY KeptRefl DEF TypeOK
      <4> QED BY <1>2, <1>o, <2>2, <3>1, <3>2, <4>1, SentOwned
    <3> QED BY <1>7, <3>3 DEF g
  <2>4. CallsOwned(H, Z2)' /\ OthersOwned(H, Z2, n, Channel(l))
    <3>1. /\ \A u : u \notin {"send", "passed"} => Keeps(Z, Z2, u)
          /\ \A m, t : (m # d \/ t # s) /\ (m # l \/ t # f.sid) => Stage(Z2, m, t) = Stage(Z, m, t)
      BY <2>2
    <3> QED BY ONLY <1>6, <3>1
  <2>5. ReadersOwned(H, Z2)'
    <3>1. Reading.pc \notin {"found", "add", "send"} /\ Channel(l).link \in LinksOf(n)
      BY PlainStates, ConnFacts
    <3> QED BY <1>2, <1>7, <2>4, <3>1, GoesPlain
  <2>6. AllDialingOwned(H, Z2)' /\ RawsOwned(H, Z2)'
    BY <2>2, KeepOwned, KeptRefl DEF ProcDialSend
  <2> QED BY <1>7, <2>2, <2>3, <2>4, <2>5, <2>6, StayOwned DEF ProcDialSend, OwnedAfter, Owned
<1>8. CASE /\ Reply(n, l, wire, DialBack(r.frame.sid, FALSE))
           /\ table' = [table EXCEPT ![n] = RemoveTable(n, Channel(l), r.frame.sid)]
  <2>1. PICK Z1, Z2 : Z1 = Move(Z, d, s, "done") /\ Z2 = Move(Z1, l, f.sid, "answer")
    OBVIOUS
  <2>2. /\ AllPlaced(H, Z2) /\ Staged(H, Z2) /\ Stage(Z2, l, f.sid) = "answer"
        /\ Stage(Z2, d, s) = "done"
        /\ \A m, t : (m # d \/ t # s) /\ (m # l \/ t # f.sid) => Stage(Z2, m, t) = Stage(Z, m, t)
    <3>1. RelayEntry(n, e)
      <4>1. Genuine(H, n, e)
        BY <1>2, <1>o, RecordedAt
      <4> QED BY <1>4, <4>1, Kinds
    <3>2. /\ AllPlaced(H, Z2) /\ Staged(H, Z2) /\ Stage(Z2, l, f.sid) = "answer"
          /\ Stage(Z2, d, s) = "done"
          /\ \A m, t : <<m, t>> \notin {<<d, s>>, <<l, f.sid>>} => Stage(Z2, m, t) = Stage(Z, m, t)
      <4>1. /\ Stage(Z, e.dst.link, e.dsid) \in {"send", "found"}
            /\ Z1 = Move(Z, e.dst.link, e.dsid, "done") /\ Z2 = Move(Z1, e.src.link, e.ssid, "answer")
        BY <1>2, <1>4, <2>1
      <4>2. /\ AllPlaced(H, Z2) /\ Staged(H, Z2) /\ Stage(Z2, e.src.link, e.ssid) = "answer"
            /\ Stage(Z2, e.dst.link, e.dsid) = "done"
            /\ \A m, t : <<m, t>> \notin {<<e.dst.link, e.dsid>>, <<e.src.link, e.ssid>>} =>
                 Stage(Z2, m, t) = Stage(Z, m, t)
        BY ONLY LinksAssumption, OneWay, <1>o, <1>2, <3>1, <4>1, AnswerPlaced
      <4> QED BY <1>4, <4>2
    <3> QED BY <3>2
  <2>3. \A u : u \notin {"send", "passed"} => Keeps(Z, Z2, u)
    BY <1>2, <2>2 DEF Keeps
  <2>4. CallsOwned(H, Z2)' /\ OthersOwned(H, Z2, n, Channel(l))
    BY ONLY <1>6, <2>2, <2>3
  <2>5. ReadersOwned(H, Z2)' /\ WiresOwned(H, Z2, wire')
    <3> DEFINE g == DialBack(f.sid, FALSE)
    <3>0. PICK ok \in BOOLEAN : /\ wire' = Sent(wire, n, l, g)
                                /\ Goto(n, Channel(l), IF ok THEN Reading ELSE Stopping)
      BY <1>1, <1>8 DEF Reply
    <3>1. g.cmd = "dialback" /\ g.sid = f.sid
      BY DEF DialBack
    <3> HIDE DEF g
    <3>2. FrameOwned(H, Z2, Peer(n, l), l, g)
      BY <1>2, <2>2, <3>1, AnswerOwned DEF DialOwned
    <3>3. wire \in Wires /\ Keeps(Z, Z2, "wire") /\ Keeps(Z, Z2, "answer")
      BY <2>3 DEF TypeOK
    <3> QED BY <1>2, <1>o, <2>4, <3>0, <3>1, <3>2, <3>3, ReplyOwned
  <2>6. AllDialingOwned(H, Z2)' /\ RawsOwned(H, Z2)'
    BY <2>3, KeepOwned, KeptRefl DEF ProcDialSend
  <2>7. TablesOwned(H)'
    BY <1>8, <1>o, RemoveOwned
  <2> QED BY <2>3, <2>2, <2>4, <2>5, <2>6, <2>7, StayOwned DEF ProcDialSend, OwnedAfter, Owned
<1> QED BY <1>1, <1>7, <1>8 DEF ProcDialSend

(***************************************************************************)
(* procRawDial.                                                            *)
(***************************************************************************)

\* Readers that start, beside readers that do not notice.
LEMMA StartOwned ==
    ASSUME TypeOK, NEW H, NEW Z, NEW n \in Nodes, NEW cs,
           \A m \in Nodes : \A c \in DOMAIN reader[m] :
              m # n \/ c \notin cs => ReaderOwned(H, Z, m, c, reader[m][c]),
           \A c \in cs : c.type = "channel" => c.link \in LinksOf(n),
           reader' = [reader EXCEPT ![n] = Put(@, cs, Reading)]
    PROVE  ReadersOwned(H, Z)'
<1>1. /\ \A m \in Nodes : m # n => reader'[m] = reader[m]
      /\ DOMAIN reader'[n] = DOMAIN reader[n] \cup cs
      /\ \A c \in cs : reader'[n][c] = Reading
      /\ \A c \in DOMAIN reader[n] : c \notin cs => reader'[n][c] = reader[n][c]
  BY DEF TypeOK, Readers, Maps, Put
<1>2. ASSUME NEW m \in Nodes, NEW c \in DOMAIN reader'[m]
      PROVE  ReaderOwned(H, Z, m, c, reader'[m][c])
  <2>1. CASE m = n /\ c \in cs
    <3>1. ReaderOwned(H, Z, n, c, Reading)
      BY <2>1, PlainOwned, PlainStates
    <3> QED BY <1>1, <2>1, <3>1
  <2>2. CASE ~(m = n /\ c \in cs)
    BY <1>1, <1>2, <2>2
  <2> QED BY <2>1, <2>2
<1> QED BY <1>2 DEF ReadersOwned

\* What a goroutine that dials knows, and that it is the only one for its dial.
LEMMA DialerFacts ==
    ASSUME LinksAssumption, OneWay, TypeOK, NEW H, History(H), NEW Z, AllDialingOwned(H, Z),
           NEW n \in Nodes, NEW d \in dialing[n], NEW l, l = d.link, NEW s, s = d.sid
    PROVE  /\ l \in LinksOf(n) /\ l \in Links /\ s \in Nat /\ Up(n, l) /\ <<Peer(n, l), s>> \in DOMAIN H
           /\ d.pc \in {"dial", "back"}
           /\ d.pc = "dial" => /\ d.call \in Calls /\ d.call = H[<<Peer(n, l), s>>].call
                               /\ Stage(Z, l, s) = "dial"
           /\ d.pc = "back" => d.raw \in Nat /\ Stage(Z, l, s) = "back"
           /\ \A Z2 : (\A m, t : m # l \/ t # s => Stage(Z2, m, t) = Stage(Z, m, t)) =>
                \A H2 : Extends(H, H2) =>
                  \A m \in Nodes : \A x \in dialing[m] :
                    m # n \/ x # d => DialingOwned(H2, Z2, m, x)
<1>1. /\ d \in Dialing /\ DialingOwned(H, Z, n, d)
      /\ \A m \in Nodes : \A x \in dialing[m] : x \in Dialing /\ DialingOwned(H, Z, m, x)
  BY DEF TypeOK, AllDialingOwned
<1>2. /\ d.pc \in {"dial", "back"} /\ l \in Links /\ s \in Nat
      /\ d.pc = "dial" => d.call \in Calls
      /\ d.pc = "back" => d.raw \in Nat
  BY <1>1 DEF Dialing
<1>3. /\ l \in LinksOf(n) /\ Up(n, l) /\ <<Peer(n, l), s>> \in DOMAIN H
      /\ d.pc = "dial" => d.call = H[<<Peer(n, l), s>>].call /\ Stage(Z, l, s) = "dial"
      /\ d.pc = "back" => Stage(Z, l, s) = "back"
  BY <1>1 DEF DialingOwned
<1>4. ASSUME NEW m \in Nodes, NEW x \in dialing[m], x.link = l, x.sid = s
      PROVE  m = n /\ x = d
  <2>1. x \in Dialing /\ DialingOwned(H, Z, m, x) /\ x.pc \in {"dial", "back"}
    BY <1>1 DEF Dialing
  <2>2. l \in LinksOf(m) /\ Up(m, l)
    BY <1>4, <2>1 DEF DialingOwned
  <2>3. m = n
    BY <1>3, <2>2, WayFacts
  <2>4. x.pc = d.pc
    BY <1>2, <1>3, <1>4, <2>1 DEF DialingOwned
  <2>5. CASE d.pc = "dial"
    <3>1. x.call = d.call
      BY <1>3, <1>4, <2>1, <2>3, <2>4, <2>5 DEF DialingOwned
    <3> QED BY <1>1, <1>4, <2>1, <2>3, <2>4, <2>5, <3>1 DEF Dialing
  <2>6. CASE d.pc = "back"
    <3>1. /\ <<n, d.raw>> \in DOMAIN H /\ H[<<n, d.raw>>].src = Channel(l) /\ H[<<n, d.raw>>].ssid = s
          /\ <<n, x.raw>> \in DOMAIN H /\ H[<<n, x.raw>>].src = Channel(l) /\ H[<<n, x.raw>>].ssid = s
      BY <1>1, <1>4, <2>1, <2>3, <2>4, <2>6 DEF DialingOwned
    <3>2. PICK e : e = H[<<n, d.raw>>]
      OBVIOUS
    <3>3. Follows(H, n, e) /\ e.dsid = d.raw /\ Channel(l) \in Channels
      BY <1>2, <3>1, <3>2, HistoryAt, ConnFacts
    <3>4. Arrives(n, e)
      BY <1>3, <3>1, <3>2, <3>3, ConnFacts DEF Arrives
    <3>5. x.raw = d.raw
      BY <3>1, <3>2, <3>3, <3>4 DEF Follows
    <3> QED BY <1>1, <1>4, <2>1, <2>3, <2>4, <2>6, <3>5 DEF Dialing
  <2> QED BY <1>2, <2>5, <2>6
<1>5. ASSUME NEW Z2, \A m, t : m # l \/ t # s => Stage(Z2, m, t) = Stage(Z, m, t),
             NEW H2, Extends(H, H2), NEW m \in Nodes, NEW x \in dialing[m], m # n \/ x # d
      PROVE  DialingOwned(H2, Z2, m, x)
  <2>1. DialingOwned(H, Z, m, x) /\ (x.link # l \/ x.sid # s)
    BY <1>1, <1>4, <1>5
  <2>2. Stage(Z2, x.link, x.sid) = Stage(Z, x.link, x.sid)
    BY <1>5, <2>1
  <2> QED BY <1>5, <2>1, <2>2, DialingKept
<1> QED BY <1>2, <1>3, <1>5

LEMMA RawDialFailOwned ==
    ASSUME LinksAssumption, OneWay, TypeOK, NEW H, NEW Z, Owned(H, Z),
           NEW n \in Nodes, NEW d \in dialing[n], RawDialFail(n, d)
    PROVE  OwnedAfter(H, Z)
<1>1. PICK l, s : l = d.link /\ s = d.sid
  OBVIOUS
<1>o. History(H) /\ AllDrawn(H) /\ AllPlaced(H, Z) /\ Staged(H, Z) /\ AllDialingOwned(H, Z)
      /\ WiresOwned(H, Z, wire)
  BY DEF Owned
<1>2. /\ l \in LinksOf(n) /\ Up(n, l) /\ <<Peer(n, l), s>> \in DOMAIN H /\ Stage(Z, l, s) = "dial"
      /\ \A Z2 : (\A m, t : m # l \/ t # s => Stage(Z2, m, t) = Stage(Z, m, t)) =>
                \A H2 : Extends(H, H2) =>
                  \A m \in Nodes : \A x \in dialing[m] :
                    m # n \/ x # d => DialingOwned(H2, Z2, m, x)
  BY <1>1, <1>o, DialerFacts DEF RawDialFail
<1>3. PICK Z2 : Z2 = Move(Z, l, s, "answer")
  OBVIOUS
<1>4. /\ AllPlaced(H, Z2) /\ Staged(H, Z2) /\ Stage(Z2, l, s) = "answer"
      /\ \A m, t : m # l \/ t # s => Stage(Z2, m, t) = Stage(Z, m, t)
      /\ \A u : u # "dial" => Keeps(Z, Z2, u)
  BY <1>2, <1>3, <1>o, OneMove DEF Made
<1>5. AllDialingOwned(H, Z2)'
  <2>1. \A m \in Nodes : \A x \in dialing[m] : m # n \/ x # d => DialingOwned(H, Z2, m, x)
    BY <1>2, <1>4, KeptRefl
  <2>2. \A m \in Nodes : \A x \in dialing'[m] : x \in dialing[m] /\ (m # n \/ x # d)
    BY DEF RawDialFail, TypeOK
  <2> QED BY <2>1, <2>2 DEF AllDialingOwned
<1>6. WiresOwned(H, Z2, wire')
  <2> DEFINE g == DialBack(s, FALSE)
  <2>1. g.cmd = "dialback" /\ g.sid = s
    BY DEF DialBack
  <2>2. wire' = Sent(wire, n, l, g)
    BY <1>1 DEF RawDialFail
  <2> HIDE DEF g
  <2>3. FrameOwned(H, Z2, Peer(n, l), l, g)
    BY <1>2, <1>4, <2>1, AnswerOwned
  <2>4. WiresOwned(H, Z2, Sent(wire, n, l, g))
    <3>1. Extends(H, H) /\ wire \in Wires /\ Keeps(Z, Z2, "wire") /\ Keeps(Z, Z2, "answer")
      BY <1>4, KeptRefl DEF TypeOK
    <3> QED BY <1>2, <1>o, <2>1, <2>3, <3>1, SentOwned
  <2> QED BY <2>2, <2>4
<1>7. AllDrawn(H)'
  BY <1>o, DrawnKept DEF RawDialFail
<1>8. CallsOwned(H, Z2)' /\ ReadersOwned(H, Z2)' /\ RawsOwned(H, Z2)'
  BY <1>4, KeepOwned, KeptRefl DEF RawDialFail
<1> QED BY <1>4, <1>5, <1>6, <1>7, <1>8, StayOwned DEF RawDialFail, OwnedAfter, Owned

\* The rest of a dial that ends here: the goroutine goes on as d2, or is done.
LEMMA DialerLeaves ==
    ASSUME TypeOK, NEW H2, NEW Z2, NEW n \in Nodes, NEW d,
           \A m \in Nodes : \A x \in dialing[m] : m # n \/ x # d => DialingOwned(H2, Z2, m, x),
           NEW D, \A x \in D : DialingOwned(H2, Z2, n, x),
           dialing' = [dialing EXCEPT ![n] = (@ \ {d}) \cup D]
    PROVE  AllDialingOwned(H2, Z2)'
<1>1. \A m \in Nodes : \A x \in dialing'[m] :
        (x \in dialing[m] /\ (m # n \/ x # d)) \/ (m = n /\ x \in D)
  BY DEF TypeOK
<1> QED BY <1>1 DEF AllDialingOwned

LEMMA RawDialAddOwned ==
    ASSUME IdsAssumption, LinksAssumption, OneWay, TypeOK, HopInv, NEW H, NEW Z, Owned(H, Z),
           NEW n \in Nodes, NEW d \in dialing[n], RawDialAdd(n, d)
    PROVE  OwnedAfter(H, Z)
<1>1. PICK l, a, s, e : /\ l = d.link /\ a = d.sid /\ s = NextSid(n)
                        /\ e = Entry(Channel(l), a, Raw(s), s, d.call)
  OBVIOUS
<1>n. n \in Nodes
  OBVIOUS
<1>o. History(H) /\ AllDrawn(H) /\ AllPlaced(H, Z) /\ Staged(H, Z) /\ TablesOwned(H)
      /\ AllDialingOwned(H, Z) /\ RawsOwned(H, Z) /\ RawsMade(H)
  BY DEF Owned
<1>p. d.pc = "dial"
  BY DEF RawDialAdd
<1>2. /\ l \in LinksOf(n) /\ l \in Links /\ a \in Nat /\ Up(n, l) /\ <<Peer(n, l), a>> \in DOMAIN H
      /\ d.call \in Calls /\ d.call = H[<<Peer(n, l), a>>].call /\ Stage(Z, l, a) = "dial"
      /\ \A Z2 : (\A m, t : m # l \/ t # a => Stage(Z2, m, t) = Stage(Z, m, t)) =>
                \A H2 : Extends(H, H2) =>
                  \A m \in Nodes : \A x \in dialing[m] :
                    m # n \/ x # d => DialingOwned(H2, Z2, m, x)
  BY <1>1, <1>o, <1>p, DialerFacts
<1>3. s \in Nat /\ s > Sid0[n] /\ <<n, s>> \notin DOMAIN H
  BY <1>1, <1>o, Fresh
<1>4. /\ e.src = Channel(l) /\ e.ssid = a /\ e.dst = Raw(s) /\ e.dsid = s
      /\ e.call = d.call /\ e.src \in Channels /\ e.src.link = l
  <2>1. /\ e.src = Channel(l) /\ e.ssid = a /\ e.dst = Raw(s) /\ e.dsid = s /\ e.call = d.call
    BY <1>1, EntryFields
  <2> QED BY <1>2, <2>1, ConnFacts
<1>5. Genuine(H, n, e) /\ Arrives(n, e) /\ ~RelayEntry(n, e)
  <2>1. e \in Entries
    BY <1>1, <1>2, <1>3 DEF Entry, Entries, Conns, Channels, Raws, Channel, Raw
  <2>2. e.dst \notin Channels
    BY <1>4, ConnFacts
  <2> QED BY <1>2, <1>3, <1>4, <2>1, <2>2 DEF Genuine, LastEntry, RelayEntry, Arrives
<1>c. Continues(H, n, e)
  <2>1. ASSUME NEW t, <<n, t>> \in DOMAIN H, H[<<n, t>>].src = e.src, H[<<n, t>>].ssid = e.ssid
        PROVE  FALSE
    <3>1. Placed(Z, n, H[<<n, t>>])
      BY <1>o, <2>1, HistoryAt, PlacedAt
    <3>2. Arrives(n, H[<<n, t>>])
      BY <1>5, <2>1 DEF Arrives
    <3>3. Stage(Z, l, a) \in Made
      BY <1>4, <2>1, <3>1, <3>2 DEF Placed
    <3> QED BY <1>2, <3>3 DEF Made
  <2> QED BY <1>2, <1>4, <2>1 DEF Continues
<1>9. PICK H2, Z2 : H2 = Put(H, {<<n, s>>}, e) /\ Z2 = Move(Z, l, a, "back")
  OBVIOUS
<1>6. /\ History(H2) /\ Extends(H, H2) /\ Recorded(H2, n, e)
      /\ \A x \in DOMAIN H2 : x \in DOMAIN H \/ x = <<n, s>>
  <2>1. e.src \in Channels /\ e.src.link \in LinksOf(n) /\ e.dsid = s
    BY <1>2, <1>4
  <2>2. History(H) /\ Genuine(H, n, e) /\ H2 = Put(H, {<<n, s>>}, e)
    BY <1>5, <1>9, <1>o
  <2>3. s \in Nat /\ <<n, s>> \notin DOMAIN H
    BY <1>3
  <2>4. Grown(H, H2, n, e)
    BY ONLY LinksAssumption, <1>n, <2>1, <2>2, <2>3, <1>c, Records
  <2> QED BY <2>1, <2>4 DEF Grown
<1>7. /\ AllPlaced(H, Z2) /\ Staged(H, Z2) /\ Stage(Z2, l, a) = "back"
      /\ \A m, t : m # l \/ t # a => Stage(Z2, m, t) = Stage(Z, m, t)
      /\ \A u : u # "dial" => Keeps(Z, Z2, u)
  <2>1. "dial" \notin Made
    BY DEF Made
  <2> QED BY ONLY <1>2, <1>9, <1>o, <2>1, OneMove
<1>8. AllPlaced(H2, Z2)
  <2>1. ASSUME NEW x \in DOMAIN H2 PROVE Placed(Z2, x[1], H2[x])
    <3>1. CASE x \in DOMAIN H
      BY <1>6, <1>7, <3>1 DEF AllPlaced, Extends
    <3>2. CASE x = <<n, s>>
      <4>1. H2[x] = e /\ x[1] = n
        BY <1>4, <1>6, <3>2 DEF Recorded
      <4>2. "back" \in Made
        BY DEF Made
      <4> QED BY <1>4, <1>5, <1>7, <4>1, <4>2 DEF Placed
    <3> QED BY <1>6, <3>1, <3>2
  <2> QED BY <2>1 DEF AllPlaced
<1>10. Staged(H2, Z2)
  <2>1. \A x \in DOMAIN H : x \in DOMAIN H2
    BY <1>6 DEF Extends
  <2> QED BY <1>7, <2>1 DEF Staged
<1>11. AllDrawn(H2)'
  BY <1>1, <1>6, <1>o, DrawnKept DEF RawDialAdd
<1>12. TablesOwned(H2)'
  BY <1>1, <1>6, <1>o, AddOwned DEF RawDialAdd
<1>13. RawsOwned(H2, Z2)' /\ RawsMade(H2)'
  <2>1. raw' = [raw EXCEPT ![n] = Put(@, {s}, NewRaw(e.call, FALSE))]
    BY <1>1, <1>4 DEF RawDialAdd
  <2>2. Keeps(Z, Z2, "done")
    BY <1>7
  <2>3. FALSE <=> Down(n, e.src.link)
    BY <1>2, <1>4, WayFacts
  <2> QED BY ONLY TypeOK, <1>4, <1>6, <1>o, <2>1, <2>2, <2>3, RawAdded
<1>14. AllDialingOwned(H2, Z2)'
  <2> DEFINE x == [pc |-> "back", link |-> l, sid |-> a, raw |-> s]
  <2>1. x.pc = "back" /\ x.link = l /\ x.sid = a /\ x.raw = s
    OBVIOUS
  <2>2. dialing' = [dialing EXCEPT ![n] = (@ \ {d}) \cup {x}]
    BY <1>1 DEF RawDialAdd
  <2> HIDE DEF x
  <2>3. DialingOwned(H2, Z2, n, x)
    BY <1>2, <1>4, <1>6, <1>7, <2>1 DEF DialingOwned, Extends, Recorded
  <2>4. \A m \in Nodes : \A y \in dialing[m] : m # n \/ y # d => DialingOwned(H2, Z2, m, y)
    BY <1>2, <1>6, <1>7
  <2>5. PICK D : D = {x}
    OBVIOUS
  <2>6. dialing' = [dialing EXCEPT ![n] = (@ \ {d}) \cup D] /\ \A y \in D : DialingOwned(H2, Z2, n, y)
    BY <2>2, <2>3, <2>5
  <2> QED BY ONLY TypeOK, <1>n, <2>4, <2>6, DialerLeaves
<1>15. CallsOwned(H2, Z2)' /\ WiresOwned(H2, Z2, wire') /\ ReadersOwned(H2, Z2)' /\ Joined'
  BY <1>6, <1>7, KeepOwned, StayOwned DEF RawDialAdd
<1> QED BY <1>7, <1>6, <1>8, <1>10, <1>11, <1>12, <1>13, <1>14, <1>15 DEF OwnedAfter, Owned

LEMMA RawDialBackOwned ==
    ASSUME LinksAssumption, OneWay, TypeOK, NEW H, NEW Z, Owned(H, Z),
           NEW n \in Nodes, NEW d \in dialing[n], RawDialBack(n, d)
    PROVE  OwnedAfter(H, Z)
<1>1. PICK l, s : l = d.link /\ s = d.sid
  OBVIOUS
<1>n. n \in Nodes
  OBVIOUS
<1>o. History(H) /\ AllPlaced(H, Z) /\ Staged(H, Z) /\ AllDialingOwned(H, Z)
      /\ WiresOwned(H, Z, wire) /\ ReadersOwned(H, Z) /\ RawsOwned(H, Z) /\ RawsMade(H)
      /\ TablesOwned(H)
  BY DEF Owned
<1>2. /\ l \in LinksOf(n) /\ Up(n, l) /\ <<Peer(n, l), s>> \in DOMAIN H /\ Stage(Z, l, s) = "back"
      /\ \A Z2 : (\A m, t : m # l \/ t # s => Stage(Z2, m, t) = Stage(Z, m, t)) =>
                \A H2 : Extends(H, H2) =>
                  \A m \in Nodes : \A x \in dialing[m] :
                    m # n \/ x # d => DialingOwned(H2, Z2, m, x)
  BY <1>1, <1>o, DialerFacts DEF RawDialBack
<1>d. PICK D : (\A x \in D : FALSE) /\ dialing' = [dialing EXCEPT ![n] = (@ \ {d}) \cup D]
  <2>1. dialing' = [dialing EXCEPT ![n] = (@ \ {d}) \cup {}]
    BY DEF RawDialBack
  <2> QED BY <2>1
<1>c. PICK cs : cs = {Raw(d.raw)}
  OBVIOUS
<1>3. CASE /\ wire' = Sent(wire, n, l, DialBack(s, TRUE))
           /\ reader' = [reader EXCEPT ![n] = Put(@, {Raw(d.raw)}, Reading)]
           /\ UNCHANGED <<raw, table>>
  <2>1. PICK Z2 : Z2 = Move(Z, l, s, "answer")
    OBVIOUS
  <2>2. /\ AllPlaced(H, Z2) /\ Staged(H, Z2) /\ Stage(Z2, l, s) = "answer"
        /\ \A m, t : m # l \/ t # s => Stage(Z2, m, t) = Stage(Z, m, t)
        /\ \A u : u # "back" => Keeps(Z, Z2, u)
    <3>1. "answer" \in Made
      BY DEF Made
    <3> QED BY ONLY <1>2, <1>o, <2>1, <3>1, OneMove
  <2>3. WiresOwned(H, Z2, wire')
    <3> DEFINE g == DialBack(s, TRUE)
    <3>1. g.cmd = "dialback" /\ g.sid = s
      BY DEF DialBack
    <3> HIDE DEF g
    <3>2. FrameOwned(H, Z2, Peer(n, l), l, g)
      BY <1>2, <2>2, <3>1, AnswerOwned
    <3>3. WiresOwned(H, Z2, Sent(wire, n, l, g))
      <4>1. Extends(H, H) /\ wire \in Wires /\ Keeps(Z, Z2, "wire") /\ Keeps(Z, Z2, "answer")
        BY <2>2, KeptRefl DEF TypeOK
      <4> QED BY <1>2, <1>o, <3>1, <3>2, <4>1, SentOwned
    <3> QED BY <1>3, <3>3 DEF g
  <2>4. ReadersOwned(H, Z2)'
    <3>1. \A m \in Nodes : \A c \in DOMAIN reader[m] :
            m # n \/ c \notin cs => ReaderOwned(H, Z2, m, c, reader[m][c])
      <4>1. OthersOwned(H, Z2, n, Raw(d.raw))
        BY <1>o, <2>2, OthersKept, KeptRefl
      <4> QED BY <1>c, <4>1 DEF OthersOwned
    <3>2. \A c \in cs : c.type = "channel" => c.link \in LinksOf(n)
      BY <1>c, ConnFacts
    <3>3. reader' = [reader EXCEPT ![n] = Put(@, cs, Reading)]
      BY <1>3, <1>c
    <3> QED BY ONLY TypeOK, <1>n, <3>1, <3>2, <3>3, StartOwned
  <2>5. AllDialingOwned(H, Z2)'
    <3>1. \A m \in Nodes : \A x \in dialing[m] : m # n \/ x # d => DialingOwned(H, Z2, m, x)
      BY <1>2, <2>2, KeptRefl
    <3> QED BY ONLY TypeOK, <1>n, <1>d, <3>1, DialerLeaves
  <2>6. CallsOwned(H, Z2)' /\ RawsOwned(H, Z2)'
    BY <1>3, <2>2, KeepOwned, KeptRefl DEF RawDialBack
  <2> QED BY <1>3, <2>2, <2>3, <2>4, <2>5, <2>6, StayOwned DEF RawDialBack, OwnedAfter, Owned
<1>4. CASE /\ raw' = CloseRaws(n, {d.raw})
           /\ table' = [table EXCEPT ![n] = RemoveTable(n, Channel(l), s)]
           /\ UNCHANGED <<wire, reader>>
  <2>1. TablesOwned(H)'
    BY <1>4, <1>o, RemoveOwned
  <2>2. RawsOwned(H, Z)' /\ RawsMade(H)'
    BY <1>4, <1>o, RawsClosed, KeptRefl
  <2>3. AllDialingOwned(H, Z)'
    <3>1. \A m \in Nodes : \A x \in dialing[m] : m # n \/ x # d => DialingOwned(H, Z, m, x)
      BY <1>o DEF AllDialingOwned
    <3> QED BY ONLY TypeOK, <1>n, <1>d, <3>1, DialerLeaves
  <2> QED BY <1>4, <2>1, <2>2, <2>3, StayOwned DEF RawDialBack, OwnedAfter, Owned
<1> QED BY <1>1, <1>3, <1>4 DEF RawDialBack

(***************************************************************************)
(* procDialBack.                                                           *)
(***************************************************************************)

\* What a channel reader looks up, and keeps with its frame.
LEMMA FoundHere ==
    ASSUME IdsAssumption, LinksAssumption, OneWay, TypeOK, HopInv, NEW H, NEW Z, NEW Z2, Owned(H, Z),
           NEW n \in Nodes, NEW l \in LinksOf(n), NEW f, NEW x, x = Found(f, Lookup(n, Channel(l), f.sid)),
           f.cmd = "dialback" => Down(n, l) /\ <<n, f.sid>> \in DOMAIN H /\ Stage(Z2, l, f.sid) = "found",
           f.cmd = "data" => DataOwned(H, n, l, f)
    PROVE  ReaderOwned(H, Z2, n, Channel(l), x)
<1>0. /\ x.pc = "found" /\ x.frame = f /\ x.router = Lookup(n, Channel(l), f.sid)
      /\ Channel(l).type = "channel" /\ Channel(l).link = l
  BY PlainStates, ConnFacts
<1>1. ASSUME NEW e \in x.router PROVE Recorded(H, n, e) /\ Matches(e, Channel(l), f.sid)
  <2>1. Channel(l) \in Conns /\ Drawn(n, Channel(l))
    BY <1>0, PeerFacts, ConnFacts DEF Conns, Drawn
  <2>2. History(H) /\ TablesOwned(H) /\ TablesSound
    BY DEF Owned, HopInv
  <2>3. e \in Lookup(n, Channel(l), f.sid)
    BY <1>0, <1>1
  <2> QED BY ONLY IdsAssumption, LinksAssumption, OneWay, n \in Nodes, <2>1, <2>2, <2>3, LookupOwned
<1>2. FoundOwned(H, Z2, n, Channel(l), x)
  BY <1>0, <1>1 DEF FoundOwned
<1> QED BY <1>0, <1>2 DEF ReaderOwned

\* What it knows when it acts on an answer, ...
AnswerHere(H, Z, n, l, c, r, s) ==
    /\ c \in DOMAIN reader[n] /\ Down(n, l) /\ Stage(Z, l, s) = "found"
    /\ \A e \in r.router : Recorded(H, n, e) /\ Matches(e, c, s)

LEMMA AnswerFacts ==
    ASSUME TypeOK, NEW H, NEW Z, Owned(H, Z), NEW n \in Nodes, NEW l \in LinksOf(n),
           Acting(n, Channel(l), "dialback"),
           NEW c, c = Channel(l), NEW r, r = reader[n][c], NEW s, s = r.frame.sid
    PROVE  AnswerHere(H, Z, n, l, c, r, s)
<1>0. r.pc = "found" /\ r.frame.cmd = "dialback"
  BY DEF Acting
<1>1. c \in DOMAIN reader[n] /\ l \in Links
  BY LinkType DEF TypeOK, Readers
<1>3. FoundOwned(H, Z, n, c, r)
  BY <1>0, <1>1 DEF Owned, ReadersOwned, ReaderOwned
<1>4. c.type = "channel" /\ c.link = l
  BY ConnFacts
<1> QED BY <1>0, <1>1, <1>3, <1>4 DEF FoundOwned, AnswerHere

\* ... on the closing of a session, ...
LEMMA ClosingFacts ==
    ASSUME TypeOK, NEW H, NEW Z, Owned(H, Z), NEW n \in Nodes, NEW l \in LinksOf(n),
           Acting(n, Channel(l), "closed"),
           NEW c, c = Channel(l), NEW r, r = reader[n][c]
    PROVE  /\ c \in DOMAIN reader[n] /\ l \in Links
           /\ r.frame \in Frames /\ r.frame.cmd = "closed"
           /\ \A e \in r.router : Recorded(H, n, e) /\ Matches(e, c, r.frame.sid)
<1>0. r.pc = "found" /\ r.frame.cmd = "closed"
  BY DEF Acting
<1>1. c \in DOMAIN reader[n] /\ l \in Links
  BY LinkType DEF TypeOK, Readers
<1>2. r.frame \in Frames
  BY <1>1, FoundType DEF Acting
<1>3. FoundOwned(H, Z, n, c, r)
  BY <1>0, <1>1 DEF Owned, ReadersOwned, ReaderOwned
<1> QED BY <1>0, <1>1, <1>2, <1>3 DEF FoundOwned

\* ... and on data, of its channel or of its raw connection.
LEMMA DataFacts ==
    ASSUME TypeOK, NEW H, NEW Z, Owned(H, Z), NEW n \in Nodes, NEW c \in DOMAIN reader[n],
           Acting(n, c, "data"), NEW r, r = reader[n][c], NEW f, f = r.frame, NEW s, s = f.sid
    PROVE  /\ f \in Frames /\ f.cmd = "data"
           /\ \A e \in r.router : Recorded(H, n, e) /\ Matches(e, c, s)
           /\ c.type = "channel" => c.link \in LinksOf(n) /\ DataOwned(H, n, c.link, f)
           /\ c.type = "raw" => RawFrameOwned(H, n, c, f)
<1>0. r.pc = "found" /\ f.cmd = "data"
  BY DEF Acting
<1>2. f \in Frames
  BY FoundType DEF Acting
<1>3. FoundOwned(H, Z, n, c, r) /\ (c.type = "channel" => c.link \in LinksOf(n))
  BY <1>0 DEF Owned, ReadersOwned, ReaderOwned
<1> QED BY <1>0, <1>2, <1>3 DEF FoundOwned

\* A frame that is passed on with another id.
LEMMA WithSidFacts ==
    ASSUME NEW f \in Frames, NEW s
    PROVE  /\ WithSid(f, s).cmd = f.cmd /\ WithSid(f, s).sid = s
           /\ f.cmd = "data" => WithSid(f, s).payload = f.payload /\ f.payload \in Payloads
BY DEF Frames, DialFrames, WithSid

LEMMA TakenAnswer ==
    ASSUME LinksAssumption, OneWay, TypeOK, NEW H, NEW Z, Owned(H, Z), NEW n \in Nodes, NEW l \in LinksOf(n),
           HasFrame(n, l, "dialback"), NEW f, f = Head(wire[n][l])
    PROVE  /\ FrameOwned(H, Z, n, l, f) /\ f.cmd = "dialback"
           /\ \A v : WiresOwned(H, Move(Z, l, f.sid, v), Taken(n, l))
BY TakenFrame

LEMMA ProcDialBackOwned ==
    ASSUME IdsAssumption, LinksAssumption, OneWay, TypeOK, HopInv, NEW H, NEW Z, Owned(H, Z),
           NEW n \in Nodes, NEW l \in LinksOf(n), ProcDialBack(n, l)
    PROVE  OwnedAfter(H, Z)
<1>1. PICK f, s : f = Head(wire[n][l]) /\ s = f.sid
  OBVIOUS
<1>o. AllPlaced(H, Z) /\ Staged(H, Z) /\ ReadersOwned(H, Z)
  BY DEF Owned
<1>2. FrameOwned(H, Z, n, l, f) /\ f.cmd = "dialback" /\ WiresOwned(H, Move(Z, l, s, "found"), Taken(n, l))
  <2>1. HasFrame(n, l, "dialback")
    BY DEF ProcDialBack
  <2> QED BY <1>1, <2>1, TakenAnswer
<1>3. Down(n, l) /\ <<n, s>> \in DOMAIN H /\ Stage(Z, l, s) = "answer"
  BY <1>1, <1>2 DEF FrameOwned
<1>4. PICK Z2 : Z2 = Move(Z, l, s, "found")
  OBVIOUS
<1>5. /\ AllPlaced(H, Z2) /\ Staged(H, Z2) /\ Stage(Z2, l, s) = "found"
      /\ \A u : u # "answer" => Keeps(Z, Z2, u)
  <2>1. "found" \in Made
    BY DEF Made
  <2> QED BY ONLY <1>o, <1>3, <1>4, <2>1, OneMove
<1>6. ReadersOwned(H, Z2)'
  <2>1. PICK x : x = Found(f, Lookup(n, Channel(l), f.sid))
    OBVIOUS
  <2>2. Goto(n, Channel(l), x)
    BY <1>1, <2>1 DEF ProcDialBack, Goto
  <2>3. ReaderOwned(H, Z2, n, Channel(l), x)
    BY <1>1, <1>2, <1>3, <1>5, <2>1, FoundHere
  <2>4. OthersOwned(H, Z2, n, Channel(l))
    BY <1>o, <1>5, OthersKept, KeptRefl
  <2>5. Channel(l) \in DOMAIN reader[n]
    BY DEF TypeOK, Readers
  <2> QED BY <2>2, <2>3, <2>4, <2>5, GotoOwned
<1>7. WiresOwned(H, Z2, wire')
  BY <1>2, <1>4 DEF ProcDialBack
<1>8. CallsOwned(H, Z2)' /\ AllDialingOwned(H, Z2)' /\ RawsOwned(H, Z2)'
  BY <1>5, KeepOwned, KeptRefl DEF ProcDialBack
<1> QED BY <1>5, <1>6, <1>7, <1>8, StayOwned DEF ProcDialBack, OwnedAfter, Owned

LEMMA DialBackUnknownOwned ==
    ASSUME LinksAssumption, OneWay, TypeOK, NEW H, NEW Z, Owned(H, Z),
           NEW n \in Nodes, NEW l \in LinksOf(n), DialBackUnknown(n, l)
    PROVE  OwnedAfter(H, Z)
<1>1. PICK f : f = Closed(reader[n][Channel(l)].frame.sid)
  OBVIOUS
<1>2. PICK ok \in BOOLEAN : /\ wire' = Sent(wire, n, l, f)
                            /\ Goto(n, Channel(l), IF ok THEN Reading ELSE Stopping)
  BY <1>1 DEF DialBackUnknown, Reply
<1>3. f.cmd = "closed"
  BY <1>1, FrameForms
<1>4. FrameOwned(H, Z, Peer(n, l), l, f)
  BY <1>3, ClosedOwned
<1>5. ReadersOwned(H, Z)' /\ WiresOwned(H, Z, wire')
  <2>1. /\ \A u : Keeps(Z, Z, u)
        /\ WiresOwned(H, Z, wire) /\ ReadersOwned(H, Z) /\ wire \in Wires /\ Extends(H, H)
    BY KeptRefl DEF Owned, TypeOK
  <2>2. OthersOwned(H, Z, n, Channel(l))
    BY <2>1, OthersKept
  <2> QED BY <1>2, <1>3, <1>4, <2>1, <2>2, ReplyOwned
<1> QED BY <1>5, StayOwned DEF DialBackUnknown, OwnedAfter, Owned

\* The answer is used.
LEMMA FoundDone ==
    ASSUME LinksAssumption, OneWay, TypeOK, NEW H, NEW Z, Owned(H, Z),
           NEW n \in Nodes, NEW l \in LinksOf(n), Down(n, l), NEW s, Stage(Z, l, s) = "found",
           NEW Z2, Z2 = Move(Z, l, s, "done")
    PROVE  /\ AllPlaced(H, Z2) /\ Staged(H, Z2) /\ Stage(Z2, l, s) = "done"
           /\ \A u : u # "found" => Keeps(Z, Z2, u)
           /\ OthersOwned(H, Z2, n, Channel(l))
<1>o. AllPlaced(H, Z) /\ Staged(H, Z) /\ ReadersOwned(H, Z)
  BY DEF Owned
<1>1. /\ AllPlaced(H, Z2) /\ Staged(H, Z2) /\ Stage(Z2, l, s) = "done"
      /\ \A m, t : m # l \/ t # s => Stage(Z2, m, t) = Stage(Z, m, t)
      /\ \A u : u # "found" => Keeps(Z, Z2, u)
  BY <1>o, OneMove DEF Made
<1>2. OthersOwned(H, Z2, n, Channel(l))
  <2>1. Keeps(Z, Z2, "send") /\ Keeps(Z, Z2, "add") /\ Keeps(Z, Z2, "passed") /\ Extends(H, H)
    BY <1>1, KeptRefl
  <2>2. \A m, t : Stage(Z, m, t) = "found" /\ m # l => Stage(Z2, m, t) = "found"
    BY <1>1
  <2>3. \A m \in Nodes : \A d \in DOMAIN reader[m] : LET x == reader[m][d] IN
             x.pc = "send" /\ Stage(Z, d.link, x.frame.sid) = "passed"
               => Stage(Z2, d.link, x.frame.sid) = "passed"
    BY <2>1 DEF Keeps
  <2> QED BY <1>o, <2>1, <2>2, <2>3, OthersDown
<1> QED BY <1>1, <1>2

\* The entry that leads an answer to the raw connection of the caller.
LEMMA CallerHop ==
    ASSUME LinksAssumption, OneWay, NEW H, History(H), NEW n \in Nodes, NEW l \in LinksOf(n), Down(n, l),
           NEW s, NEW e, Recorded(H, n, e), Matches(e, Channel(l), s),
           NextHop(e, Channel(l)).conn.type = "raw"
    PROVE  /\ NextHop(e, Channel(l)).conn = Raw(s) /\ Raw(s).sid = s
           /\ e.src = Channel(l) /\ e.src.link = l /\ e.dst = Raw(s) /\ e.dsid = s
           /\ Entry(Channel(l), s, Raw(s), s, e.call) = e
<1>1. e \in Entries /\ Genuine(H, n, e)
  BY RecordedAt
<1>2. /\ CallerEntry(n, e) /\ e.src = Channel(l) /\ e.ssid = s /\ e.dst = Raw(s) /\ e.dsid = s
      /\ NextHop(e, Channel(l)).conn = e.dst
  <2>1. e.src.type = "channel"
    BY <1>1, Kinds, ConnFacts
  <2> QED BY <2>1, HopDown
<1>3. Entry(Channel(l), s, Raw(s), s, e.call) = e
  BY <1>1, <1>2 DEF Entries, Entry
<1> QED BY <1>2, <1>3, ConnFacts

LEMMA DialBackReadyOwned ==
    ASSUME LinksAssumption, OneWay, TypeOK, NEW H, NEW Z, Owned(H, Z),
           NEW n \in Nodes, NEW l \in LinksOf(n), DialBackReady(n, l)
    PROVE  OwnedAfter(H, Z)
<1>n. n \in Nodes
  OBVIOUS
<1>1. PICK c, r, s : c = Channel(l) /\ r = reader[n][Channel(l)] /\ s = r.frame.sid
  OBVIOUS
<1>o. History(H) /\ TablesOwned(H) /\ RawsOwned(H, Z) /\ RawsMade(H)
  BY DEF Owned
<1>2. /\ c \in DOMAIN reader[n] /\ Down(n, l) /\ Stage(Z, l, s) = "found"
      /\ \A e \in r.router : Recorded(H, n, e) /\ Matches(e, c, s)
  <2>1. Acting(n, Channel(l), "dialback")
    BY DEF DialBackReady
  <2>2. AnswerHere(H, Z, n, l, c, r, s)
    BY <1>1, <2>1, AnswerFacts
  <2> QED BY <2>2 DEF AnswerHere
<1>3. PICK e \in r.router :
        /\ NextHop(e, c).conn.type = "raw"
        /\ table' = [table EXCEPT ![n] = AddTable(n, Entry(c, s, NextHop(e, c).conn,
                                                           NextHop(e, c).conn.sid, e.call))]
        /\ IF raw[n][NextHop(e, c).conn.sid].closed
           THEN Goto(n, c, Reading) /\ UNCHANGED raw
           ELSE /\ raw' = [raw EXCEPT ![n][NextHop(e, c).conn.sid].ready = TRUE]
                /\ reader' = [reader EXCEPT ![n] = Put(@, {c, NextHop(e, c).conn}, Reading)]
  BY <1>1 DEF DialBackReady
<1>4. /\ NextHop(e, c).conn = Raw(s) /\ NextHop(e, c).conn.sid = s
      /\ e.src.link = l /\ e.dst = Raw(s) /\ e.dsid = s /\ Recorded(H, n, e)
      /\ Entry(c, s, Raw(s), s, e.call) = e
  <2>1. Recorded(H, n, e) /\ Matches(e, Channel(l), s) /\ NextHop(e, Channel(l)).conn.type = "raw"
    BY <1>1, <1>2, <1>3
  <2> QED BY <1>1, <1>2, <1>o, <2>1, CallerHop
<1>5. /\ table' = [table EXCEPT ![n] = AddTable(n, e)]
      /\ IF raw[n][s].closed
         THEN Goto(n, c, Reading) /\ UNCHANGED raw
         ELSE /\ raw' = [raw EXCEPT ![n][s].ready = TRUE]
              /\ reader' = [reader EXCEPT ![n] = Put(@, {c, Raw(s)}, Reading)]
  BY <1>3, <1>4
<1>6. PICK Z2 : Z2 = Move(Z, l, s, "done")
  OBVIOUS
<1>7. /\ AllPlaced(H, Z2) /\ Staged(H, Z2) /\ Stage(Z2, l, s) = "done"
      /\ \A u : u # "found" => Keeps(Z, Z2, u)
      /\ OthersOwned(H, Z2, n, c)
  BY <1>1, <1>2, <1>6, FoundDone
<1>8. TablesOwned(H)'
  BY <1>4, <1>5, <1>o, AddOwned, KeptRefl
<1>9. RawsOwned(H, Z2)' /\ RawsMade(H)' /\ ReadersOwned(H, Z2)'
  <2>0. Keeps(Z, Z2, "done") /\ Extends(H, H)
    BY <1>7, KeptRefl
  <2>1. CASE raw[n][s].closed
    <3>1. RawsOwned(H, Z2)' /\ RawsMade(H)'
      BY <1>5, <2>0, <2>1, KeepOwned, StayOwned
    <3>2. ReadersOwned(H, Z2)'
      <4>1. Goto(n, c, Reading) /\ Reading.pc \notin {"found", "add", "send"} /\ c.link \in LinksOf(n)
        BY <1>1, <1>5, <2>1, PlainStates, ConnFacts
      <4> QED BY <1>2, <1>7, <4>1, GoesPlain
    <3> QED BY <3>1, <3>2
  <2>2. CASE ~raw[n][s].closed
    <3>1. RawsOwned(H, Z2)' /\ RawsMade(H)'
      <4>1. raw' = [raw EXCEPT ![n][s].ready = TRUE]
        BY <1>5, <2>2
      <4>2. /\ e.dst = Raw(e.dsid) /\ Down(n, e.src.link) /\ Stage(Z2, e.src.link, e.dsid) = "done"
            /\ s = e.dsid /\ Recorded(H, n, e)
        BY <1>2, <1>4, <1>7
      <4> QED BY ONLY TypeOK, <1>n, <1>o, <2>0, <4>1, <4>2, ReadyOwned
    <3>2. ReadersOwned(H, Z2)'
      <4>1. PICK cs : cs = {c, Raw(s)}
        OBVIOUS
      <4>2. reader' = [reader EXCEPT ![n] = Put(@, cs, Reading)]
        BY <1>5, <2>2, <4>1
      <4>3. \A m \in Nodes : \A d \in DOMAIN reader[m] :
              m # n \/ d \notin cs => ReaderOwned(H, Z2, m, d, reader[m][d])
        BY <1>7, <4>1 DEF OthersOwned
      <4>4. \A d \in cs : d.type = "channel" => d.link \in LinksOf(n)
        BY <1>1, <4>1, ConnFacts
      <4> QED BY ONLY TypeOK, <1>n, <4>2, <4>3, <4>4, StartOwned
    <3> QED BY <3>1, <3>2
  <2> QED BY <2>1, <2>2
<1>10. CallsOwned(H, Z2)' /\ WiresOwned(H, Z2, wire') /\ AllDialingOwned(H, Z2)'
  BY <1>7, KeepOwned, KeptRefl DEF DialBackReady
<1> QED BY <1>7, <1>8, <1>9, <1>10, StayOwned DEF DialBackReady, OwnedAfter, Owned

LEMMA DialBackFailedOwned ==
    ASSUME LinksAssumption, OneWay, TypeOK, NEW H, NEW Z, Owned(H, Z),
           NEW n \in Nodes, NEW l \in LinksOf(n), DialBackFailed(n, l)
    PROVE  OwnedAfter(H, Z)
<1>n. n \in Nodes
  OBVIOUS
<1>1. PICK c, r, s : c = Channel(l) /\ r = reader[n][Channel(l)] /\ s = r.frame.sid
  OBVIOUS
<1>o. History(H) /\ TablesOwned(H) /\ RawsOwned(H, Z) /\ RawsMade(H)
  BY DEF Owned
<1>2. /\ c \in DOMAIN reader[n] /\ Down(n, l) /\ Stage(Z, l, s) = "found"
      /\ \A e \in r.router : Recorded(H, n, e) /\ Matches(e, c, s)
  <2>1. Acting(n, Channel(l), "dialback")
    BY DEF DialBackFailed
  <2>2. AnswerHere(H, Z, n, l, c, r, s)
    BY <1>1, <2>1, AnswerFacts
  <2> QED BY <2>2 DEF AnswerHere
<1>3. PICK e, t :
        /\ e \in r.router /\ t = NextHop(e, c).conn /\ t.type = "raw"
        /\ table' = [table EXCEPT ![n] = RemoveTable(n, c, s)]
        /\ raw' = IF raw[n][t.sid].closed THEN raw
                  ELSE [raw EXCEPT ![n][t.sid].ready = TRUE, ![n][t.sid].failed = TRUE,
                                   ![n][t.sid].closed = TRUE]
  BY <1>1 DEF DialBackFailed
<1>4. t.sid = s /\ e.src.link = l /\ e.dst = Raw(s) /\ e.dsid = s /\ Recorded(H, n, e)
  <2>1. Recorded(H, n, e) /\ Matches(e, Channel(l), s) /\ NextHop(e, Channel(l)).conn.type = "raw"
    BY <1>1, <1>2, <1>3
  <2>2. /\ NextHop(e, Channel(l)).conn = Raw(s) /\ Raw(s).sid = s
        /\ e.src.link = l /\ e.dst = Raw(s) /\ e.dsid = s
    BY <1>2, <1>o, <2>1, CallerHop
  <2> QED BY <1>1, <1>3, <2>1, <2>2
<1>6. PICK Z2 : Z2 = Move(Z, l, s, "done")
  OBVIOUS
<1>7. /\ AllPlaced(H, Z2) /\ Staged(H, Z2) /\ Stage(Z2, l, s) = "done"
      /\ \A u : u # "found" => Keeps(Z, Z2, u)
      /\ OthersOwned(H, Z2, n, c)
  BY <1>1, <1>2, <1>6, FoundDone
<1>8. TablesOwned(H)'
  BY <1>3, <1>o, RemoveOwned
<1>9. RawsOwned(H, Z2)' /\ RawsMade(H)'
  <2>0. Keeps(Z, Z2, "done") /\ Extends(H, H)
    BY <1>7, KeptRefl
  <2>1. CASE raw[n][t.sid].closed
    BY <1>3, <2>0, <2>1, KeepOwned, StayOwned
  <2>2. CASE ~raw[n][t.sid].closed
    <3>1. raw' = [raw EXCEPT ![n][s].ready = TRUE, ![n][s].failed = TRUE, ![n][s].closed = TRUE]
      BY <1>3, <1>4, <2>2
    <3>2. /\ e.dst = Raw(e.dsid) /\ Down(n, e.src.link) /\ Stage(Z2, e.src.link, e.dsid) = "done"
          /\ s = e.dsid /\ Recorded(H, n, e)
      BY <1>2, <1>4, <1>7
    <3> QED BY ONLY TypeOK, <1>n, <1>o, <2>0, <3>1, <3>2, ReadyOwned
  <2> QED BY <2>1, <2>2
<1>10. ReadersOwned(H, Z2)'
  <2>1. Goto(n, c, Reading) /\ Reading.pc \notin {"found", "add", "send"} /\ c.link \in LinksOf(n)
    <3>1. Goto(n, Channel(l), Reading)
      BY DEF DialBackFailed
    <3> QED BY <1>1, <3>1, PlainStates, ConnFacts
  <2> QED BY <1>2, <1>7, <2>1, GoesPlain
<1>11. CallsOwned(H, Z2)' /\ WiresOwned(H, Z2, wire') /\ AllDialingOwned(H, Z2)'
  BY <1>7, KeepOwned, KeptRefl DEF DialBackFailed
<1> QED BY <1>7, <1>8, <1>9, <1>10, <1>11, StayOwned DEF DialBackFailed, OwnedAfter, Owned

LEMMA DialBackForwardOwned ==
    ASSUME LinksAssumption, CallsAssumption, OneWay, TypeOK, NEW H, NEW Z, Owned(H, Z),
           NEW n \in Nodes, NEW l \in LinksOf(n), DialBackForward(n, l)
    PROVE  OwnedAfter(H, Z)
<1>n. n \in Nodes
  OBVIOUS
<1>0. PICK c, r, s : c = Channel(l) /\ r = reader[n][Channel(l)] /\ s = r.frame.sid
  OBVIOUS
<1>1. PICK f : c = Channel(l) /\ r = reader[n][Channel(l)] /\ f = r.frame /\ s = f.sid
  BY <1>0
<1>o. History(H) /\ AllPlaced(H, Z) /\ Staged(H, Z) /\ ReadersOwned(H, Z) /\ WiresOwned(H, Z, wire)
  BY DEF Owned
<1>a. /\ c \in DOMAIN reader[n] /\ Down(n, l) /\ Stage(Z, l, s) = "found"
      /\ \A e \in r.router : Recorded(H, n, e) /\ Matches(e, c, s)
  <2>1. Acting(n, Channel(l), "dialback")
    BY DEF DialBackForward
  <2>2. AnswerHere(H, Z, n, l, c, r, s)
    BY <1>0, <2>1, AnswerFacts
  <2> QED BY <2>2 DEF AnswerHere
<1>b. f \in Frames /\ f.cmd = "dialback"
  <2>1. Acting(n, Channel(l), "dialback")
    BY DEF DialBackForward
  <2> QED BY <1>1, <1>a, <2>1, FoundType DEF Acting
<1>2. /\ c \in DOMAIN reader[n] /\ Down(n, l) /\ Stage(Z, l, s) = "found"
      /\ f \in Frames /\ f.cmd = "dialback"
      /\ \A e \in r.router : Recorded(H, n, e) /\ Matches(e, c, s)
  BY <1>a, <1>b
<1>3. PICK e, hop :
        /\ e \in r.router /\ hop = NextHop(e, c) /\ hop.conn.type = "channel"
        /\ \/ /\ wire' = Sent(wire, n, hop.conn.link, WithSid(f, hop.sid))
              /\ Goto(n, c, Reading)
           \/ Reply(n, l, wire, Closed(s))
  BY <1>1 DEF DialBackForward
<1>4. /\ Recorded(H, n, e) /\ RelayEntry(n, e) /\ e.dst = Channel(l) /\ e.dsid = s
      /\ hop = [conn |-> e.src, sid |-> e.ssid]
  <2>1. Recorded(H, n, e) /\ Matches(e, Channel(l), s)
    BY <1>1, <1>2, <1>3
  <2>2. NextHop(e, Channel(l)) = [conn |-> e.dst, sid |-> e.dsid] /\ e.dst = Raw(s) => FALSE
    <3>1. Raw(s).type = "raw"
      BY ConnFacts
    <3> QED BY <1>1, <1>3, <3>1
  <2> QED BY <1>1, <1>2, <1>3, <1>o, <2>1, <2>2, HopDown
<1>5. PICK d, a, Z1, Z2 : /\ d = e.src.link /\ a = e.ssid
                          /\ Z1 = Move(Z, l, s, "done") /\ Z2 = Move(Z1, d, a, "answer")
  OBVIOUS
<1>6. /\ d \in LinksOf(n) /\ Up(n, d) /\ e.src = Channel(d) /\ e.dst.link = l /\ Arrives(n, e)
      /\ <<Peer(n, d), a>> \in DOMAIN H /\ hop.conn.link = d /\ hop.sid = a
  <2>1. /\ d \in LinksOf(n) /\ Up(n, d) /\ e.src = Channel(d) /\ e.dst.link = l /\ Arrives(n, e)
    BY <1>4, <1>5, ConnFacts DEF RelayEntry, Arrives
  <2>2. Follows(H, n, e)
    BY <1>4, <1>o, RecordedAt
  <2> QED BY <1>4, <1>5, <2>1, <2>2 DEF Follows
<1>7. /\ AllPlaced(H, Z2) /\ Staged(H, Z2) /\ Stage(Z, d, a) = "passed" /\ Stage(Z2, d, a) = "answer"
      /\ Stage(Z2, l, s) = "done" /\ d # l
      /\ \A m, t : (m # d \/ t # a) /\ (m # l \/ t # s) => Stage(Z2, m, t) = Stage(Z, m, t)
  <2>1. /\ Stage(Z, e.dst.link, e.dsid) \in {"send", "found"}
        /\ Z1 = Move(Z, e.dst.link, e.dsid, "done") /\ Z2 = Move(Z1, e.src.link, e.ssid, "answer")
    BY <1>2, <1>4, <1>5, <1>6
  <2>2. /\ AllPlaced(H, Z2) /\ Staged(H, Z2)
        /\ Stage(Z, e.src.link, e.ssid) = "passed" /\ Stage(Z2, e.src.link, e.ssid) = "answer"
        /\ Stage(Z2, e.dst.link, e.dsid) = "done" /\ e.dst.link # e.src.link
        /\ \A m, t : <<m, t>> \notin {<<e.dst.link, e.dsid>>, <<e.src.link, e.ssid>>} =>
             Stage(Z2, m, t) = Stage(Z, m, t)
    BY ONLY LinksAssumption, OneWay, <1>4, <1>o, <2>1, AnswerPlaced
  <2> QED BY <1>4, <1>5, <1>6, <2>2
<1>8. \A u : u \notin {"found", "passed"} => Keeps(Z, Z2, u)
  BY <1>2, <1>7 DEF Keeps
<1>9. OthersOwned(H, Z2, n, Channel(l))
  <2>1. ASSUME NEW m \in Nodes, NEW b \in DOMAIN reader[m], NEW x, x = reader[m][b],
               x.pc = "send", Stage(Z, b.link, x.frame.sid) = "passed"
        PROVE  Stage(Z2, b.link, x.frame.sid) = "passed"
    <3>1. SUFFICES ASSUME b.link = d, x.frame.sid = a PROVE FALSE
      BY <1>2, <1>7, <2>1
    <3>2. /\ b.type = "channel" /\ DialOwned(H, m, d, x.frame)
          /\ Recorded(H, m, Entry(b, a, Channel(x.dst), x.sid, x.frame.call))
          /\ Stage(Z, x.dst, x.sid) = "send"
      BY <1>o, <2>1, <3>1 DEF ReadersOwned, ReaderOwned
    <3>3. b \in Channels
      BY <2>1, <3>2 DEF TypeOK, Readers, Maps, Conns, Raws
    <3>4. m = n /\ b = Channel(d)
      BY <1>6, <3>1, <3>2, <3>3, WayFacts, ConnFacts DEF DialOwned
    <3>5. PICK g : g = Entry(b, a, Channel(x.dst), x.sid, x.frame.call)
      OBVIOUS
    <3>6. g.src = e.src /\ g.ssid = e.ssid /\ g.dst = Channel(x.dst) /\ g.dsid = x.sid /\ Recorded(H, n, g)
      BY <1>5, <1>6, <3>2, <3>4, <3>5, EntryFields
    <3>7. g = e
      BY <1>4, <1>6, <1>o, <3>6, SameArrival
    <3>8. x.dst = l /\ x.sid = s
      BY <1>4, <3>6, <3>7, ConnFacts
    <3> QED BY <1>2, <3>2, <3>8
  <2>2. /\ \A m, t : Stage(Z, m, t) = "found" /\ m # l => Stage(Z2, m, t) = "found"
        /\ Keeps(Z, Z2, "send") /\ Keeps(Z, Z2, "add") /\ Extends(H, H)
    BY <1>7, <1>8, KeptRefl
  <2>3. \A m \in Nodes : \A b \in DOMAIN reader[m] : LET x == reader[m][b] IN
             x.pc = "send" /\ Stage(Z, b.link, x.frame.sid) = "passed"
               => Stage(Z2, b.link, x.frame.sid) = "passed"
    BY <2>1
  <2> QED BY <1>2, <1>o, <2>2, <2>3, OthersDown
<1>10. ReadersOwned(H, Z2)' /\ WiresOwned(H, Z2, wire')
  <2>0. Keeps(Z, Z2, "wire") /\ Keeps(Z, Z2, "answer") /\ wire \in Wires /\ Extends(H, H)
    BY <1>8, KeptRefl DEF TypeOK
  <2>1. CASE /\ wire' = Sent(wire, n, hop.conn.link, WithSid(f, hop.sid))
             /\ Goto(n, c, Reading)
    <3>1. PICK g : g = WithSid(f, a)
      OBVIOUS
    <3>2. g.cmd = "dialback" /\ g.sid = a
      BY <1>2, <3>1, WithSidFacts
    <3>3. FrameOwned(H, Z2, Peer(n, d), d, g)
      BY <1>6, <1>7, <3>2, AnswerOwned
    <3>4. WiresOwned(H, Z2, Sent(wire, n, d, g))
      BY <1>6, <1>7, <1>o, <2>0, <3>2, <3>3, SentOwned
    <3>5. ReadersOwned(H, Z2)'
      <4>1. Goto(n, c, Reading) /\ Reading.pc \notin {"found", "add", "send"} /\ c.link \in LinksOf(n)
        BY <1>1, <2>1, PlainStates, ConnFacts
      <4> QED BY <1>1, <1>2, <1>9, <4>1, GoesPlain
    <3> QED BY <1>6, <2>1, <3>1, <3>4, <3>5
  <2>2. CASE Reply(n, l, wire, Closed(s))
    <3>1. PICK g : g = Closed(s)
      OBVIOUS
    <3>2. PICK ok \in BOOLEAN : /\ wire' = Sent(wire, n, l, g)
                                /\ Goto(n, Channel(l), IF ok THEN Reading ELSE Stopping)
      BY <2>2, <3>1 DEF Reply
    <3>3. g.cmd = "closed"
      BY <3>1, FrameForms
    <3>4. FrameOwned(H, Z2, Peer(n, l), l, g)
      BY <3>3, ClosedOwned
    <3> QED BY <1>9, <1>o, <2>0, <3>2, <3>3, <3>4, ReplyOwned
  <2> QED BY <1>3, <2>1, <2>2
<1>11. CallsOwned(H, Z2)' /\ AllDialingOwned(H, Z2)' /\ RawsOwned(H, Z2)'
  BY <1>8, KeepOwned, KeptRefl DEF DialBackForward
<1> QED BY <1>8, <1>7, <1>10, <1>11, StayOwned DEF DialBackForward, OwnedAfter, Owned

(***************************************************************************)
(* procChannelData and procClosed.                                         *)
(***************************************************************************)
LEMMA TakenOther ==
    ASSUME LinksAssumption, OneWay, TypeOK, NEW H, NEW Z, Owned(H, Z), NEW n \in Nodes, NEW l \in LinksOf(n),
           NEW cmd, cmd \notin {"dial", "dialback"}, HasFrame(n, l, cmd), NEW f, f = Head(wire[n][l])
    PROVE  FrameOwned(H, Z, n, l, f) /\ f.cmd = cmd /\ WiresOwned(H, Z, Taken(n, l))
BY TakenFrame

\* The reader goes on with what it found, if anything.
LEMMA GoesFound ==
    ASSUME IdsAssumption, LinksAssumption, OneWay, TypeOK, HopInv, NEW H, NEW Z, Owned(H, Z),
           NEW n \in Nodes, NEW l \in LinksOf(n), NEW f, NEW R, R = Lookup(n, Channel(l), f.sid),
           f.cmd # "dialback", f.cmd = "data" => DataOwned(H, n, l, f),
           Goto(n, Channel(l), IF R = {} THEN Reading ELSE Found(f, R))
    PROVE  ReadersOwned(H, Z)'
<1>1. ReadersOwned(H, Z)
  BY DEF Owned
<1>2. OthersOwned(H, Z, n, Channel(l)) /\ Channel(l) \in DOMAIN reader[n]
  BY <1>1, OthersKept, KeptRefl DEF TypeOK, Readers
<1>3. CASE R = {}
  <2>1. Goto(n, Channel(l), Reading) /\ Reading.pc \notin {"found", "add", "send"} /\ Channel(l).link \in LinksOf(n)
    BY <1>3, PlainStates, ConnFacts
  <2> QED BY <1>2, <2>1, GoesPlain
<1>4. CASE R # {}
  <2>1. PICK x : x = Found(f, Lookup(n, Channel(l), f.sid))
    OBVIOUS
  <2>2. Goto(n, Channel(l), x)
    BY <1>4, <2>1 DEF Goto
  <2>3. ReaderOwned(H, Z, n, Channel(l), x)
    BY <2>1, FoundHere
  <2> QED BY <1>2, <2>2, <2>3, GotoOwned
<1> QED BY <1>3, <1>4

LEMMA ProcDataOwned ==
    ASSUME IdsAssumption, LinksAssumption, OneWay, TypeOK, HopInv, NEW H, NEW Z, Owned(H, Z),
           NEW n \in Nodes, NEW l \in LinksOf(n), ProcData(n, l)
    PROVE  OwnedAfter(H, Z)
<1>1. PICK f, R : f = Head(wire[n][l]) /\ R = Lookup(n, Channel(l), f.sid)
  OBVIOUS
<1>2. FrameOwned(H, Z, n, l, f) /\ f.cmd = "data" /\ WiresOwned(H, Z, Taken(n, l))
  <2>1. HasFrame(n, l, "data")
    BY DEF ProcData
  <2> QED BY <1>1, <2>1, TakenOther
<1>3. ReadersOwned(H, Z)'
  <2>1. Goto(n, Channel(l), IF R = {} THEN Reading ELSE Found(f, R))
    BY <1>1 DEF ProcData, Goto
  <2> QED BY <1>1, <1>2, <2>1, GoesFound DEF FrameOwned
<1>4. WiresOwned(H, Z, wire')
  BY <1>2 DEF ProcData
<1> QED BY <1>3, <1>4, StayOwned DEF ProcData, OwnedAfter, Owned

LEMMA ProcClosedOwned ==
    ASSUME IdsAssumption, LinksAssumption, OneWay, TypeOK, HopInv, NEW H, NEW Z, Owned(H, Z),
           NEW n \in Nodes, NEW l \in LinksOf(n), ProcClosed(n, l)
    PROVE  OwnedAfter(H, Z)
<1>1. PICK f, R : f = Head(wire[n][l]) /\ R = Lookup(n, Channel(l), f.sid)
  OBVIOUS
<1>2. FrameOwned(H, Z, n, l, f) /\ f.cmd = "closed" /\ WiresOwned(H, Z, Taken(n, l))
  <2>1. HasFrame(n, l, "closed")
    BY DEF ProcClosed
  <2> QED BY <1>1, <2>1, TakenOther
<1>3. ReadersOwned(H, Z)'
  <2>1. Goto(n, Channel(l), IF R = {} THEN Reading ELSE Found(f, R))
    BY <1>1 DEF ProcClosed, Goto
  <2> QED BY <1>1, <1>2, <2>1, GoesFound
<1>4. WiresOwned(H, Z, wire')
  BY <1>2 DEF ProcClosed
<1>5. TablesOwned(H)'
  BY RemoveOwned DEF Owned, ProcClosed
<1> QED BY <1>3, <1>4, <1>5, StayOwned DEF ProcClosed, OwnedAfter, Owned

\* The frame goes to the next connection of the entry.
LEMMA ForwardClosedOwned ==
    ASSUME LinksAssumption, OneWay, TypeOK, NEW H, NEW Z, Owned(H, Z),
           NEW n \in Nodes, NEW l \in LinksOf(n), ForwardClosed(n, l)
    PROVE  OwnedAfter(H, Z)
<1>n. n \in Nodes
  OBVIOUS
<1>1. PICK c, r : c = Channel(l) /\ r = reader[n][Channel(l)]
  OBVIOUS
<1>o. /\ History(H) /\ RawsOwned(H, Z) /\ RawsMade(H) /\ ReadersOwned(H, Z) /\ WiresOwned(H, Z, wire)
      /\ wire \in Wires /\ Extends(H, H) /\ \A u : Keeps(Z, Z, u)
  BY KeptRefl DEF Owned, TypeOK
<1>2. /\ c \in DOMAIN reader[n] /\ r.frame \in Frames /\ r.frame.cmd = "closed"
      /\ \A e \in r.router : Recorded(H, n, e) /\ Matches(e, c, r.frame.sid)
  <2>1. Acting(n, Channel(l), "closed")
    BY DEF ForwardClosed
  <2> QED BY <1>1, <2>1, ClosingFacts
<1>3. ReadersOwned(H, Z)'
  <2>1. Goto(n, c, Reading) /\ Reading.pc \notin {"found", "add", "send"} /\ c.link \in LinksOf(n)
    BY <1>1, PlainStates, ConnFacts DEF ForwardClosed
  <2>2. OthersOwned(H, Z, n, c)
    BY <1>o, OthersKept
  <2> QED BY <1>2, <2>1, <2>2, GoesPlain
<1>4. PICK e, hop :
        /\ e \in r.router /\ hop = NextHop(e, c)
        /\ IF hop.conn.type = "raw"
           THEN raw' = CloseRaws(n, {hop.conn.sid}) /\ UNCHANGED wire
           ELSE /\ wire' = Sent(wire, n, hop.conn.link, WithSid(r.frame, hop.sid))
                /\ UNCHANGED raw
  BY <1>1 DEF ForwardClosed
<1>5. CASE hop.conn.type = "raw"
  <2>1. raw' = CloseRaws(n, {hop.conn.sid}) /\ UNCHANGED wire
    BY <1>4, <1>5
  <2>2. RawsOwned(H, Z)' /\ RawsMade(H)'
    BY <1>o, <2>1, RawsClosed
  <2> QED BY <1>3, <2>1, <2>2, StayOwned DEF ForwardClosed, OwnedAfter, Owned
<1>6. CASE hop.conn.type # "raw"
  <2>1. PICK d, g : d = hop.conn.link /\ g = WithSid(r.frame, hop.sid)
    OBVIOUS
  <2>2. wire' = Sent(wire, n, d, g) /\ UNCHANGED raw
    BY <1>4, <1>6, <2>1
  <2>3. g.cmd = "closed"
    BY <1>2, <2>1, WithSidFacts
  <2>4. d \in LinksOf(n)
    <3>1. Recorded(H, n, e) /\ Matches(e, c, r.frame.sid)
      BY <1>2, <1>4
    <3>2. Genuine(H, n, e)
      BY <1>o, <3>1, RecordedAt
    <3>3. hop.conn \in {e.src, e.dst}
      BY <1>4 DEF NextHop
    <3> QED BY <1>6, <2>1, <3>2, <3>3, Kinds, ConnFacts DEF RelayEntry
  <2>5. WiresOwned(H, Z, wire')
    <3>1. FrameOwned(H, Z, Peer(n, d), d, g)
      BY <2>3, <2>4, ClosedOwned
    <3> QED BY <1>o, <2>2, <2>3, <2>4, <3>1, SentOwned
  <2> QED BY <1>3, <2>2, <2>5, StayOwned DEF ForwardClosed, OwnedAfter, Owned
<1> QED BY <1>5, <1>6

(***************************************************************************)
(* Data stays with its call.                                               *)
(***************************************************************************)

\* Data of the end that dials, sent to where the call goes, ...
LEMMA DataDown ==
    ASSUME LinksAssumption, OneWay, NEW H, NEW n \in Nodes, NEW d \in LinksOf(n), Down(n, d),
           NEW g, g.cmd = "data", <<n, g.sid>> \in DOMAIN H,
           g.payload.call = H[<<n, g.sid>>].call, g.payload.dialer, NEW Z
    PROVE  FrameOwned(H, Z, Peer(n, d), d, g)
<1>1. Peer(n, d) \in Nodes /\ Peer(Peer(n, d), d) = n /\ d \in LinksOf(Peer(n, d)) /\ Up(Peer(n, d), d)
  BY PeerFacts, WayFacts
<1>2. DataOwned(H, Peer(n, d), d, g)
  BY <1>1 DEF DataOwned
<1> QED BY <1>1, <1>2 DEF FrameOwned

\* ... and of the dialled end, sent to where it came from.
LEMMA DataUp ==
    ASSUME LinksAssumption, OneWay, NEW H, NEW n \in Nodes, NEW d \in LinksOf(n), Up(n, d),
           NEW g, g.cmd = "data", <<Peer(n, d), g.sid>> \in DOMAIN H,
           g.payload.call = H[<<Peer(n, d), g.sid>>].call, ~g.payload.dialer, NEW Z
    PROVE  FrameOwned(H, Z, Peer(n, d), d, g)
<1>1. Peer(n, d) \in Nodes /\ Peer(Peer(n, d), d) = n /\ d \in LinksOf(Peer(n, d)) /\ Down(Peer(n, d), d)
  BY PeerFacts, WayFacts
<1>2. DataOwned(H, Peer(n, d), d, g)
  BY <1>1 DEF DataOwned
<1> QED BY <1>1, <1>2 DEF FrameOwned

\* What a reader does with data: a raw connection gets what the other end of its call
\* sent, and a channel what belongs to the session on it.
DataFits(H, n, e, hop, f) ==
    LET p == f.payload  d == hop.conn.link IN
    IF hop.conn.type = "raw"
    THEN /\ hop.conn.sid = e.dsid /\ e.dst = Raw(e.dsid)
         /\ p.call = e.call /\ (p.dialer <=> ~Down(n, e.src.link))
    ELSE /\ d \in LinksOf(n)
         /\ \/ /\ Down(n, d) /\ <<n, hop.sid>> \in DOMAIN H
               /\ p.call = H[<<n, hop.sid>>].call /\ p.dialer
            \/ /\ Up(n, d) /\ <<Peer(n, d), hop.sid>> \in DOMAIN H
               /\ p.call = H[<<Peer(n, d), hop.sid>>].call /\ ~p.dialer

LEMMA DialerHop ==
    ASSUME LinksAssumption, OneWay, NEW H, History(H), NEW n \in Nodes, NEW l \in LinksOf(n), Up(n, l),
           NEW f, <<Peer(n, l), f.sid>> \in DOMAIN H,
           f.payload.call = H[<<Peer(n, l), f.sid>>].call, f.payload.dialer,
           NEW e, Recorded(H, n, e), Matches(e, Channel(l), f.sid)
    PROVE  DataFits(H, n, e, NextHop(e, Channel(l)), f)
<1>1. /\ Arrives(n, e) /\ e.src = Channel(l) /\ e.ssid = f.sid
      /\ e.dst = Raw(e.dsid) \/ RelayEntry(n, e)
      /\ NextHop(e, Channel(l)) = [conn |-> e.dst, sid |-> e.dsid]
  BY HopUp
<1>2. Follows(H, n, e) /\ <<n, e.dsid>> \in DOMAIN H /\ H[<<n, e.dsid>>] = e
  BY RecordedAt
<1>3. e.src.link = l /\ f.payload.call = e.call /\ ~Down(n, l)
  BY <1>1, <1>2, WayFacts, ConnFacts DEF Follows
<1>4. CASE e.dst = Raw(e.dsid)
  BY <1>1, <1>3, <1>4, ConnFacts DEF DataFits
<1>5. CASE RelayEntry(n, e)
  <2>1. e.dst.type # "raw" /\ e.dst.link \in LinksOf(n) /\ Down(n, e.dst.link)
    BY <1>5, ConnFacts DEF RelayEntry
  <2> QED BY <1>1, <1>2, <1>3, <2>1 DEF DataFits
<1> QED BY <1>1, <1>4, <1>5

LEMMA DialledHop ==
    ASSUME LinksAssumption, OneWay, NEW H, History(H), NEW n \in Nodes, NEW l \in LinksOf(n), Down(n, l),
           NEW f, <<n, f.sid>> \in DOMAIN H,
           f.payload.call = H[<<n, f.sid>>].call, ~f.payload.dialer,
           NEW e, Recorded(H, n, e), Matches(e, Channel(l), f.sid)
    PROVE  DataFits(H, n, e, NextHop(e, Channel(l)), f)
<1>1. /\ e.dsid = f.sid
      /\ \/ /\ CallerEntry(n, e) /\ e.src = Channel(l) /\ e.ssid = f.sid /\ e.dst = Raw(f.sid)
            /\ NextHop(e, Channel(l)) = [conn |-> e.dst, sid |-> e.dsid]
         \/ /\ RelayEntry(n, e) /\ e.dst = Channel(l)
            /\ NextHop(e, Channel(l)) = [conn |-> e.src, sid |-> e.ssid]
  BY HopDown
<1>2. Follows(H, n, e) /\ <<n, e.dsid>> \in DOMAIN H /\ H[<<n, e.dsid>>] = e
  BY RecordedAt
<1>3. f.payload.call = e.call
  BY <1>1, <1>2
<1>4. CASE /\ CallerEntry(n, e) /\ e.src = Channel(l) /\ e.dst = Raw(f.sid)
           /\ NextHop(e, Channel(l)) = [conn |-> e.dst, sid |-> e.dsid]
  BY <1>1, <1>3, <1>4, ConnFacts DEF DataFits
<1>5. CASE RelayEntry(n, e) /\ NextHop(e, Channel(l)) = [conn |-> e.src, sid |-> e.ssid]
  <2>1. e.src.type # "raw" /\ e.src.link \in LinksOf(n) /\ Up(n, e.src.link) /\ Arrives(n, e)
    BY <1>5, ConnFacts DEF RelayEntry, Arrives
  <2>2. <<Peer(n, e.src.link), e.ssid>> \in DOMAIN H /\ H[<<Peer(n, e.src.link), e.ssid>>].call = e.call
    BY <1>2, <2>1 DEF Follows
  <2> QED BY <1>3, <1>5, <2>1, <2>2 DEF DataFits
<1> QED BY <1>1, <1>4, <1>5

LEMMA RawHop ==
    ASSUME LinksAssumption, OneWay, NEW H, History(H), NEW n \in Nodes, NEW c, c \notin Channels,
           NEW f, RawFrameOwned(H, n, c, f),
           NEW e, Recorded(H, n, e), Matches(e, c, f.sid)
    PROVE  DataFits(H, n, e, NextHop(e, c), f)
<1>1. /\ e.dst = c /\ e.dsid = f.sid /\ c = Raw(f.sid) /\ e.src \in Channels /\ e.src.link \in LinksOf(n)
      /\ CallerEntry(n, e) \/ Arrives(n, e)
      /\ NextHop(e, c) = [conn |-> e.src, sid |-> e.ssid]
  BY HopRaw
<1>2. Follows(H, n, e) /\ <<n, e.dsid>> \in DOMAIN H /\ H[<<n, e.dsid>>] = e
  BY RecordedAt
<1>3. f.payload.call = e.call /\ (f.payload.dialer <=> Down(n, e.src.link)) /\ e.src.type # "raw"
  BY <1>1, <1>2, ConnFacts DEF RawFrameOwned
<1>4. CASE CallerEntry(n, e)
  <2>1. Down(n, e.src.link) /\ e.ssid = e.dsid
    BY <1>4 DEF CallerEntry
  <2> QED BY <1>1, <1>2, <1>3, <2>1 DEF DataFits
<1>5. CASE Arrives(n, e)
  <2>1. Up(n, e.src.link) /\ ~Down(n, e.src.link)
    BY <1>1, <1>5, WayFacts DEF Arrives
  <2>2. <<Peer(n, e.src.link), e.ssid>> \in DOMAIN H /\ H[<<Peer(n, e.src.link), e.ssid>>].call = e.call
    BY <1>2, <1>5 DEF Follows
  <2> QED BY <1>1, <1>3, <2>1, <2>2 DEF DataFits
<1> QED BY <1>1, <1>4, <1>5

LEMMA ForwardDataOwned ==
    ASSUME LinksAssumption, OneWay, TypeOK, NEW H, NEW Z, Owned(H, Z),
           NEW n \in Nodes, NEW c \in DOMAIN reader[n], ForwardData(n, c)
    PROVE  OwnedAfter(H, Z)
<1>n. n \in Nodes
  OBVIOUS
<1>o. /\ History(H) /\ RawsOwned(H, Z) /\ RawsMade(H) /\ ReadersOwned(H, Z) /\ WiresOwned(H, Z, wire)
      /\ wire \in Wires /\ Extends(H, H) /\ \A u : Keeps(Z, Z, u)
  BY KeptRefl DEF Owned, TypeOK
<1>1. PICK r, f : r = reader[n][c] /\ f = r.frame
  OBVIOUS
<1>2. /\ f \in Frames /\ f.cmd = "data"
      /\ \A e \in r.router : Recorded(H, n, e) /\ Matches(e, c, f.sid)
      /\ c.type = "channel" => c.link \in LinksOf(n) /\ DataOwned(H, n, c.link, f)
      /\ c.type = "raw" => RawFrameOwned(H, n, c, f)
  <2>1. Acting(n, c, "data")
    BY DEF ForwardData
  <2>2. PICK s : s = f.sid
    OBVIOUS
  <2> QED BY <1>1, <2>1, <2>2, DataFacts
<1>3. PICK e, hop :
        /\ e \in r.router /\ hop = NextHop(e, c)
        /\ IF hop.conn.type = "raw"
           THEN /\ raw' = Deliver(n, hop.conn.sid, f.payload)
                /\ Goto(n, c, Reading)
                /\ UNCHANGED wire
           ELSE \E ok \in BOOLEAN :
                /\ wire' = Sent(wire, n, hop.conn.link, WithSid(f, hop.sid))
                /\ Goto(n, c, IF ~ok /\ c.type = "raw" THEN Stopping ELSE Reading)
                /\ UNCHANGED raw
  BY <1>1 DEF ForwardData
<1>4. Recorded(H, n, e) /\ Matches(e, c, f.sid)
  BY <1>2, <1>3
<1>5. DataFits(H, n, e, hop, f)
  <2>0. c \in Conns
    BY DEF TypeOK, Readers, Maps
  <2>1. CASE c.type = "channel"
    <3>0. PICK l : l = c.link
      OBVIOUS
    <3>1. c = Channel(l) /\ l \in LinksOf(n) /\ DataOwned(H, n, l, f)
      BY <1>2, <2>0, <2>1, <3>0, ConnFacts DEF Conns, Raws
    <3>2. Matches(e, Channel(l), f.sid) /\ hop = NextHop(e, Channel(l))
      BY <1>3, <1>4, <3>1
    <3>3. CASE /\ Up(n, l) /\ <<Peer(n, l), f.sid>> \in DOMAIN H
               /\ f.payload.call = H[<<Peer(n, l), f.sid>>].call /\ f.payload.dialer
      BY <1>o, <1>4, <3>1, <3>2, <3>3, DialerHop
    <3>4. CASE /\ Down(n, l) /\ <<n, f.sid>> \in DOMAIN H
               /\ f.payload.call = H[<<n, f.sid>>].call /\ ~f.payload.dialer
      BY <1>o, <1>4, <3>1, <3>2, <3>4, DialledHop
    <3> QED BY <3>1, <3>3, <3>4 DEF DataOwned
  <2>2. CASE c.type # "channel"
    <3>1. c \notin Channels /\ c.type = "raw"
      BY <2>0, <2>2, ConnFacts DEF Conns, Raws
    <3> QED BY <1>o, <1>2, <1>3, <1>4, <3>1, RawHop
  <2> QED BY <2>1, <2>2
<1>6. OthersOwned(H, Z, n, c)
  BY <1>o, OthersKept
<1>7. ReadersOwned(H, Z)'
  <2>1. PICK x \in {Reading, Stopping} : Goto(n, c, x)
    BY <1>3
  <2>2. x.pc \notin {"found", "add", "send"}
    BY <2>1, PlainStates
  <2> QED BY <1>2, <1>6, <2>1, <2>2, GoesPlain
<1>8. CASE hop.conn.type = "raw"
  <2>1. raw' = Deliver(n, e.dsid, f.payload) /\ UNCHANGED wire
    BY <1>3, <1>5, <1>8 DEF DataFits
  <2>2. /\ e.dst = Raw(e.dsid) /\ f.payload.call = e.call /\ (f.payload.dialer <=> ~Down(n, e.src.link))
        /\ f.payload \in Payloads
    BY <1>2, <1>5, <1>8, WithSidFacts DEF DataFits
  <2>3. RawsOwned(H, Z)' /\ RawsMade(H)'
    BY ONLY TypeOK, <1>n, <1>o, <1>4, <2>1, <2>2, DeliverOwned
  <2> QED BY <1>7, <2>1, <2>3, StayOwned DEF ForwardData, OwnedAfter, Owned
<1>9. CASE hop.conn.type # "raw"
  <2>1. PICK d, g : d = hop.conn.link /\ g = WithSid(f, hop.sid)
    OBVIOUS
  <2>2. wire' = Sent(wire, n, d, g) /\ UNCHANGED raw
    BY <1>3, <1>9, <2>1
  <2>3. g.cmd = "data" /\ g.sid = hop.sid /\ g.payload = f.payload
    BY <1>2, <2>1, WithSidFacts
  <2>4. d \in LinksOf(n) /\ FrameOwned(H, Z, Peer(n, d), d, g)
    <3>1. d \in LinksOf(n)
      BY <1>5, <1>9, <2>1 DEF DataFits
    <3>2. CASE /\ Down(n, d) /\ <<n, hop.sid>> \in DOMAIN H
               /\ f.payload.call = H[<<n, hop.sid>>].call /\ f.payload.dialer
      BY <2>3, <3>1, <3>2, DataDown
    <3>3. CASE /\ Up(n, d) /\ <<Peer(n, d), hop.sid>> \in DOMAIN H
               /\ f.payload.call = H[<<Peer(n, d), hop.sid>>].call /\ ~f.payload.dialer
      BY <2>3, <3>1, <3>3, DataUp
    <3> QED BY <1>5, <1>9, <2>1, <3>1, <3>2, <3>3 DEF DataFits
  <2>5. WiresOwned(H, Z, wire')
    BY <1>o, <2>2, <2>3, <2>4, SentOwned
  <2> QED BY <1>7, <2>2, <2>5, StayOwned DEF ForwardData, OwnedAfter, Owned
<1> QED BY <1>8, <1>9

(***************************************************************************)
(* The end of a reader, and closing from outside.                          *)
(***************************************************************************)
LEMMA GoesOn ==
    ASSUME TypeOK, NEW H, NEW Z, Owned(H, Z), NEW n \in Nodes, NEW c \in DOMAIN reader[n],
           NEW x, x.pc \notin {"found", "add", "send"}, Goto(n, c, x)
    PROVE  ReadersOwned(H, Z)'
<1>1. OthersOwned(H, Z, n, c)
  BY OthersKept, KeptRefl DEF Owned
<1>2. c.type = "channel" => c.link \in LinksOf(n)
  BY DEF Owned, ReadersOwned, ReaderOwned
<1> QED BY <1>1, <1>2, GoesPlain

LEMMA PurgeOwned ==
    ASSUME LinksAssumption, OneWay, TypeOK, NEW H, NEW Z, Owned(H, Z),
           NEW n \in Nodes, NEW l \in LinksOf(n), PurgeEntry(n, l)
    PROVE  OwnedAfter(H, Z)
<1>o. /\ History(H) /\ TablesOwned(H) /\ WiresOwned(H, Z, wire)
      /\ wire \in Wires /\ Extends(H, H) /\ \A u : Keeps(Z, Z, u)
  BY KeptRefl DEF Owned, TypeOK
<1>1. PICK c, r : c = Channel(l) /\ r = reader[n][Channel(l)]
  OBVIOUS
<1>2. PICK k, hop :
        /\ k \in r.todo \cap DOMAIN table[n] /\ hop = NextHop(table[n][k], c)
        /\ wire' = IF hop.conn.type = "raw" THEN wire ELSE Sent(wire, n, hop.conn.link, Closed(hop.sid))
        /\ table' = [table EXCEPT ![n] = RemoveTable(n, hop.conn, hop.sid)]
        /\ Goto(n, c, [r EXCEPT !.todo = @ \ {k},
                                !.running = IF hop.conn.type = "raw" THEN @ \cup {hop.conn.sid} ELSE @])
  BY <1>1 DEF PurgeEntry
<1>3. TablesOwned(H)'
  BY <1>o, <1>2, RemoveOwned
<1>4. ReadersOwned(H, Z)'
  <2>1. PICK x : x = [r EXCEPT !.todo = @ \ {k},
                               !.running = IF hop.conn.type = "raw" THEN @ \cup {hop.conn.sid} ELSE @]
    OBVIOUS
  <2>2. r.pc = "purge" /\ c \in DOMAIN reader[n]
    BY <1>1 DEF PurgeEntry, TypeOK, Readers
  <2>3. r \in ReaderStates
    BY <1>1, <2>2 DEF TypeOK, Readers, Maps
  <2>4. x.pc = "purge"
    <3>1. r \in [pc : {"purge"}, todo : SUBSET Keys, running : SUBSET Nat]
      BY <2>2, <2>3 DEF ReaderStates
    <3> QED BY <2>1, <3>1
  <2> QED BY <1>2, <2>1, <2>2, <2>4, GoesOn
<1>5. WiresOwned(H, Z, wire')
  <2>1. CASE hop.conn.type = "raw"
    BY <1>2, <1>o, <2>1
  <2>2. CASE hop.conn.type # "raw"
    <3>1. PICK d, g, e : d = hop.conn.link /\ g = Closed(hop.sid) /\ e = table[n][k]
      OBVIOUS
    <3>2. Recorded(H, n, e)
      BY <1>2, <1>o, <3>1 DEF TablesOwned
    <3>3. Genuine(H, n, e) /\ hop.conn \in {e.src, e.dst}
      BY <1>2, <1>o, <3>1, <3>2, RecordedAt DEF NextHop
    <3>4. d \in LinksOf(n)
      BY <2>2, <3>1, <3>3, Kinds, ConnFacts DEF RelayEntry
    <3>5. g.cmd = "closed" /\ wire' = Sent(wire, n, d, g)
      BY <1>2, <2>2, <3>1, FrameForms
    <3>6. FrameOwned(H, Z, Peer(n, d), d, g)
      BY <3>4, <3>5, ClosedOwned
    <3> QED BY <1>o, <3>4, <3>5, <3>6, SentOwned
  <2> QED BY <2>1, <2>2
<1> QED BY <1>3, <1>4, <1>5, StayOwned DEF PurgeEntry, OwnedAfter, Owned

LEMMA ExitOwned ==
    ASSUME LinksAssumption, OneWay, TypeOK, NEW H, NEW Z, Owned(H, Z),
           NEW n \in Nodes, NEW l \in LinksOf(n), ExitSteps(n, l)
    PROVE  OwnedAfter(H, Z)
<1>0. Channel(l) \in DOMAIN reader[n]
  BY DEF TypeOK, Readers
<1>1. ASSUME ReadFail(n, l) PROVE OwnedAfter(H, Z)
  <2>1. ReadersOwned(H, Z)'
    BY <1>0, <1>1, GoesOn, PlainStates DEF ReadFail
  <2> QED BY <1>1, <2>1, StayOwned DEF ReadFail, OwnedAfter, Owned
<1>2. ASSUME CloseChannel(n, l) PROVE OwnedAfter(H, Z)
  <2>1. ReadersOwned(H, Z)'
    <3>1. PICK x : x = [pc |-> "unregister"]
      OBVIOUS
    <3>2. x.pc = "unregister" /\ Goto(n, Channel(l), x)
      BY <1>2, <3>1 DEF CloseChannel
    <3> QED BY <1>0, <3>2, GoesOn
  <2>2. WiresOwned(H, Z, wire')
    BY <1>2, DroppedOwned DEF CloseChannel, Owned
  <2> QED BY <1>2, <2>1, <2>2, StayOwned DEF CloseChannel, OwnedAfter, Owned
<1>3. ASSUME Unregister(n, l) PROVE OwnedAfter(H, Z)
  <2>1. ReadersOwned(H, Z)'
    <3>1. PICK x : x = [pc |-> "purge", running |-> {}, todo |-> Touched(n, Channel(l))]
      OBVIOUS
    <3>2. x.pc = "purge" /\ Goto(n, Channel(l), x)
      BY <1>3, <3>1 DEF Unregister
    <3> QED BY <1>0, <3>2, GoesOn
  <2>2. Joined'
    BY <1>3 DEF Unregister, Owned, Joined, TypeOK
  <2> QED BY <1>3, <2>1, <2>2, StayOwned DEF Unregister, OwnedAfter, Owned
<1>4. ASSUME PurgeDone(n, l) PROVE OwnedAfter(H, Z)
  <2>1. ReadersOwned(H, Z)'
    <3>1. PICK x : x = [pc |-> "running", running |-> reader[n][Channel(l)].running]
      OBVIOUS
    <3>2. x.pc = "running" /\ Goto(n, Channel(l), x)
      BY <1>4, <3>1 DEF PurgeDone
    <3> QED BY <1>0, <3>2, GoesOn
  <2> QED BY <1>4, <2>1, StayOwned DEF PurgeDone, OwnedAfter, Owned
<1>5. ASSUME CloseRunning(n, l) PROVE OwnedAfter(H, Z)
  <2>1. ReadersOwned(H, Z)'
    <3>1. PICK x : x = [pc |-> "done"]
      OBVIOUS
    <3>2. x.pc = "done" /\ Goto(n, Channel(l), x)
      BY <1>5, <3>1 DEF CloseRunning
    <3> QED BY <1>0, <3>2, GoesOn
  <2>2. RawsOwned(H, Z)' /\ RawsMade(H)'
    <3>1. raw' = CloseRaws(n, reader[n][Channel(l)].running)
      BY <1>5 DEF CloseRunning
    <3> QED BY <3>1, RawsClosed, KeptRefl DEF Owned
  <2> QED BY <1>5, <2>1, <2>2, StayOwned DEF CloseRunning, OwnedAfter, Owned
<1> QED BY <1>1, <1>2, <1>3, <1>4, <1>5, PurgeOwned DEF ExitSteps

LEMMA RawReadOwned ==
    ASSUME IdsAssumption, LinksAssumption, OneWay, TypeOK, HopInv, NEW H, NEW Z, Owned(H, Z),
           NEW n \in Nodes, NEW s \in DOMAIN raw[n], Raw(s) \in DOMAIN reader[n], RawRead(n, s)
    PROVE  OwnedAfter(H, Z)
<1>o. /\ History(H) /\ TablesOwned(H) /\ TablesSound /\ RawsOwned(H, Z) /\ RawsMade(H) /\ ReadersOwned(H, Z)
      /\ Extends(H, H) /\ \A u : Keeps(Z, Z, u)
  BY KeptRefl DEF Owned, HopInv
<1>1. PICK c, r, R, p : /\ c = Raw(s) /\ r = raw[n][s] /\ R = Lookup(n, c, s)
                        /\ p = [call |-> r.call, dialer |-> r.dialer, no |-> r.sent + 1]
  OBVIOUS
<1>2. /\ raw' = [raw EXCEPT ![n][s].sent = @ + 1]
      /\ Goto(n, c, IF R = {} THEN Stopping ELSE Found(Data(s, p), R))
  BY <1>1 DEF RawRead
<1>3. RawOwned(H, Z, n, s, r)
  BY <1>o, <1>1 DEF RawsOwned
<1>4. s > Sid0[n] /\ s \in Nat
  BY <1>o, <1>3, HistoryAt DEF RawOwned
<1>5. ReadersOwned(H, Z)'
  <2>0. c \in DOMAIN reader[n] /\ c.type = "raw" /\ c.sid = s
    BY <1>1, ConnFacts
  <2>1. CASE R = {}
    BY <1>2, <2>0, <2>1, GoesOn, PlainStates
  <2>2. CASE R # {}
    <3>1. PICK f, x : f = Data(s, p) /\ x = Found(f, R)
      OBVIOUS
    <3>2. Goto(n, c, x)
      BY <1>2, <2>2, <3>1 DEF Goto
    <3>3. /\ x.pc = "found" /\ x.frame = f /\ x.router = R
          /\ f.cmd = "data" /\ f.sid = s /\ f.payload = p /\ p.call = r.call /\ p.dialer = r.dialer
      BY <1>1, <3>1, PlainStates, FrameForms
    <3>4. ASSUME NEW e \in R PROVE Recorded(H, n, e) /\ Matches(e, c, s)
      <4>1. c \in Conns /\ Drawn(n, c)
        BY <1>1, <1>4, <2>0 DEF Conns, Raws, Raw, Drawn
      <4>2. e \in Lookup(n, c, s)
        BY <1>1, <3>4
      <4>3. n \in Nodes
        OBVIOUS
      <4> QED BY ONLY IdsAssumption, LinksAssumption, OneWay, <4>3, <1>o, <4>1, <4>2, LookupOwned
    <3>5. RawFrameOwned(H, n, c, f)
      BY <1>1, <1>3, <2>0, <3>3 DEF RawFrameOwned, RawOwned
    <3>6. FoundOwned(H, Z, n, c, x)
      BY <2>0, <3>3, <3>4, <3>5 DEF FoundOwned
    <3>7. ReaderOwned(H, Z, n, c, x)
      BY <2>0, <3>3, <3>6 DEF ReaderOwned
    <3>8. OthersOwned(H, Z, n, c)
      BY <1>o, OthersKept
    <3> QED BY <2>0, <3>2, <3>7, <3>8, GotoOwned
  <2> QED BY <2>1, <2>2
<1>6. RawsOwned(H, Z)' /\ RawsMade(H)'
  <2>1. /\ DOMAIN raw = Nodes /\ raw[n][s] \in RawStates
    BY DEF TypeOK, Maps
  <2>2. /\ DOMAIN raw' = Nodes
        /\ \A m \in Nodes : DOMAIN raw'[m] = DOMAIN raw[m]
    BY <1>2, <2>1
  <2>3. \A m \in Nodes : \A t \in DOMAIN raw[m] :
              /\ raw'[m][t].call = raw[m][t].call /\ raw'[m][t].dialer = raw[m][t].dialer
              /\ raw'[m][t].ready = raw[m][t].ready /\ raw'[m][t].got = raw[m][t].got
    BY <1>2, <2>1 DEF RawStates
  <2> QED BY <1>o, <2>2, <2>3, RawsKept
<1> QED BY <1>5, <1>6, StayOwned DEF RawRead, OwnedAfter, Owned

LEMMA RemoveRawOwned ==
    ASSUME IdsAssumption, LinksAssumption, OneWay, TypeOK, HopInv, NEW H, NEW Z, Owned(H, Z),
           NEW n \in Nodes, NEW s \in DOMAIN raw[n], Raw(s) \in DOMAIN reader[n], RemoveRaw(n, s)
    PROVE  OwnedAfter(H, Z)
<1>o. /\ History(H) /\ TablesOwned(H) /\ TablesSound /\ RawsOwned(H, Z) /\ WiresOwned(H, Z, wire)
      /\ wire \in Wires /\ Extends(H, H) /\ \A u : Keeps(Z, Z, u)
  BY KeptRefl DEF Owned, HopInv, TypeOK
<1>1. PICK c, R : c = Raw(s) /\ R = Lookup(n, c, s)
  OBVIOUS
<1>2. ReadersOwned(H, Z)'
  <2>1. PICK x : x = [pc |-> "done"]
    OBVIOUS
  <2>2. x.pc = "done" /\ Goto(n, Raw(s), x)
    BY <2>1 DEF RemoveRaw
  <2> QED BY <2>2, GoesOn
<1>3. TablesOwned(H)'
  <2>1. table' = [table EXCEPT ![n] = RemoveTable(n, c, s)]
    BY <1>1 DEF RemoveRaw
  <2> QED BY <1>o, <2>1, RemoveOwned
<1>4. WiresOwned(H, Z, wire')
  <2>1. CASE R = {}
    BY <1>o, <1>1, <2>1 DEF RemoveRaw
  <2>2. CASE R # {}
    <3>1. PICK e, hop : e = (CHOOSE x \in R : TRUE) /\ hop = NextHop(e, c)
      OBVIOUS
    <3>2. e \in R
      BY <2>2, <3>1
    <3>3. wire' = Sent(wire, n, hop.conn.link, Closed(hop.sid))
      BY <1>1, <2>2, <3>1 DEF RemoveRaw
    <3>4. Recorded(H, n, e) /\ Matches(e, c, s)
      <4>0. s > Sid0[n] /\ s \in Nat
        BY <1>o, HistoryAt DEF RawsOwned, RawOwned
      <4>1. c \in Conns /\ Drawn(n, c) /\ e \in Lookup(n, c, s) /\ n \in Nodes
        BY <1>1, <3>2, <4>0, ConnFacts DEF Conns, Raws, Raw, Drawn
      <4> QED BY ONLY IdsAssumption, LinksAssumption, OneWay, <1>o, <4>1, LookupOwned
    <3>5. hop = [conn |-> e.src, sid |-> e.ssid] /\ e.src.link \in LinksOf(n)
      <4>1. c \notin Channels
        BY <1>1, ConnFacts
      <4> QED BY <1>o, <3>1, <3>4, <4>1, HopRaw
    <3>6. PICK d, g : d = e.src.link /\ g = Closed(e.ssid)
      OBVIOUS
    <3>7. g.cmd = "closed" /\ wire' = Sent(wire, n, d, g) /\ d \in LinksOf(n)
      BY <3>3, <3>5, <3>6, FrameForms
    <3>8. FrameOwned(H, Z, Peer(n, d), d, g)
      BY <3>7, ClosedOwned
    <3> QED BY <1>o, <3>7, <3>8, SentOwned
  <2> QED BY <2>1, <2>2
<1> QED BY <1>2, <1>3, <1>4, StayOwned DEF RemoveRaw, OwnedAfter, Owned

LEMMA RawStepsOwned ==
    ASSUME IdsAssumption, LinksAssumption, OneWay, TypeOK, HopInv, NEW H, NEW Z, Owned(H, Z),
           NEW n \in Nodes, NEW s \in DOMAIN raw[n], RawSteps(n, s)
    PROVE  OwnedAfter(H, Z)
<1>0. Raw(s) \in DOMAIN reader[n]
  BY DEF RawSteps
<1>1. ASSUME RawReadFail(n, s) PROVE OwnedAfter(H, Z)
  <2>1. ReadersOwned(H, Z)'
    BY <1>0, <1>1, GoesOn, PlainStates DEF RawReadFail
  <2> QED BY <1>1, <2>1, StayOwned DEF RawReadFail, OwnedAfter, Owned
<1>2. ASSUME RawEnd(n, s) PROVE OwnedAfter(H, Z)
  <2>1. ReadersOwned(H, Z)'
    BY <1>0, <1>2, GoesOn, PlainStates DEF RawEnd
  <2> QED BY <1>2, <2>1, StayOwned DEF RawEnd, OwnedAfter, Owned
<1>3. ASSUME CloseRaw(n, s) PROVE OwnedAfter(H, Z)
  <2>1. ReadersOwned(H, Z)'
    <3>1. PICK x : x = [pc |-> "remove"]
      OBVIOUS
    <3>2. x.pc = "remove" /\ Goto(n, Raw(s), x)
      BY <1>3, <3>1 DEF CloseRaw
    <3> QED BY <1>0, <3>2, GoesOn
  <2>2. RawsOwned(H, Z)' /\ RawsMade(H)'
    <3>1. raw' = CloseRaws(n, {s})
      BY <1>3 DEF CloseRaw
    <3> QED BY <3>1, RawsClosed, KeptRefl DEF Owned
  <2> QED BY <1>3, <2>1, <2>2, StayOwned DEF CloseRaw, OwnedAfter, Owned
<1> QED BY <1>0, <1>1, <1>2, <1>3, RawReadOwned, RemoveRawOwned, ForwardDataOwned DEF RawSteps

LEMMA OutsideOwned ==
    ASSUME LinksAssumption, OneWay, TypeOK, NEW H, NEW Z, Owned(H, Z), NEW n \in Nodes,
           \/ \E l \in LinksOf(n) : Lose(n, l)
           \/ RouterClose(n) \/ RouterCloseOne(n)
    PROVE  OwnedAfter(H, Z)
<1>1. ASSUME NEW l, Lose(n, l) PROVE OwnedAfter(H, Z)
  BY <1>1, StayOwned DEF Lose, OwnedAfter, Owned
<1>2. ASSUME RouterClose(n) PROVE OwnedAfter(H, Z)
  BY <1>2, StayOwned DEF RouterClose, OwnedAfter, Owned
<1>3. ASSUME RouterCloseOne(n) PROVE OwnedAfter(H, Z)
  <2>1. PICK c : IF c.type = "raw" THEN raw' = CloseRaws(n, {c.sid}) ELSE UNCHANGED raw
    BY <1>3 DEF RouterCloseOne
  <2>2. RawsOwned(H, Z)' /\ RawsMade(H)'
    <3>1. CASE raw' = CloseRaws(n, {c.sid})
      BY <3>1, RawsClosed, KeptRefl DEF Owned
    <3>2. CASE UNCHANGED raw
      BY <3>2, StayOwned
    <3> QED BY <2>1, <3>1, <3>2
  <2> QED BY <1>3, <2>2, StayOwned DEF RouterCloseOne, OwnedAfter, Owned
<1> QED BY <1>1, <1>2, <1>3

(***************************************************************************)
(* The invariant, and what follows from it.                                *)
(***************************************************************************)
LEMMA OwnedInit ==
    ASSUME Init
    PROVE  Owned(Empty, Empty)
<1>1. DOMAIN Empty = {}
  BY DEF Empty
<1>2. \A l, s : Stage(Empty, l, s) = "none"
  BY <1>1 DEF Stage
<1>3. /\ History(Empty) /\ AllDrawn(Empty) /\ AllPlaced(Empty, Empty) /\ RawsMade(Empty)
      /\ Staged(Empty, Empty)
  BY <1>1, <1>2 DEF History, AllDrawn, AllPlaced, RawsMade, Staged
<1>4. Joined /\ TablesOwned(Empty) /\ AllDialingOwned(Empty, Empty) /\ RawsOwned(Empty, Empty)
  BY <1>1 DEF Init, Joined, TablesOwned, AllDialingOwned, RawsOwned
<1>5. CallsOwned(Empty, Empty)
  BY DEF Init, CallsOwned, CallOwned
<1>6. WiresOwned(Empty, Empty, wire)
  <2>1. ASSUME NEW n \in Nodes, NEW l \in Links PROVE WireOwned(Empty, Empty, n, l, wire[n][l])
    <3>1. wire[n][l] = << >> /\ DOMAIN << >> = {}
      BY DEF Init
    <3> QED BY <3>1 DEF WireOwned, Single
  <2> QED BY <2>1 DEF WiresOwned
<1>7. ReadersOwned(Empty, Empty)
  <2>1. ASSUME NEW n \in Nodes, NEW c \in DOMAIN reader[n]
        PROVE  ReaderOwned(Empty, Empty, n, c, reader[n][c])
    <3>1. reader[n] = [d \in {Channel(l) : l \in LinksOf(n)} |-> Reading]
      BY DEF Init
    <3>2. PICK l \in LinksOf(n) : c = Channel(l)
      BY <3>1
    <3>3. reader[n][c].pc = "read" /\ c.link \in LinksOf(n)
      BY <3>1, <3>2, PlainStates, ConnFacts
    <3> QED BY <3>3, PlainOwned
  <2> QED BY <2>1 DEF ReadersOwned
<1> QED BY <1>3, <1>4, <1>5, <1>6, <1>7 DEF Owned

LEMMA OwnedNext ==
    ASSUME IdsAssumption, LinksAssumption, CallsAssumption, OneWay, TypeOK, HopInv,
           NEW H, NEW Z, Owned(H, Z), [Next]_vars
    PROVE  OwnedAfter(H, Z)
<1>1. CASE UNCHANGED vars
  BY <1>1, StayOwned DEF vars, OwnedAfter, Owned
<1>2. ASSUME NEW k \in Calls, CallSteps(k) PROVE OwnedAfter(H, Z)
  BY <1>2, DialSelectOwned, DialAddOwned, DialSendOwned DEF CallSteps
<1>3. ASSUME NEW n \in Nodes, NEW l \in LinksOf(n), FrameSteps(n, l) PROVE OwnedAfter(H, Z)
  <2>0. Channel(l) \in DOMAIN reader[n]
    BY DEF TypeOK, Readers
  <2>1. ASSUME \/ ProcDialRefuse(n, l) \/ ProcDialLast(n, l) \/ ProcDialSelect(n, l)
               \/ ProcDialAdd(n, l) \/ ProcDialSend(n, l)
        PROVE  OwnedAfter(H, Z)
    BY <2>1, ProcDialRefuseOwned, ProcDialLastOwned, ProcDialSelectOwned, ProcDialAddOwned,
       ProcDialSendOwned
  <2>2. ASSUME \/ ProcDialBack(n, l) \/ DialBackUnknown(n, l) \/ DialBackReady(n, l)
               \/ DialBackFailed(n, l) \/ DialBackForward(n, l)
        PROVE  OwnedAfter(H, Z)
    BY <2>2, ProcDialBackOwned, DialBackUnknownOwned, DialBackReadyOwned, DialBackFailedOwned,
       DialBackForwardOwned
  <2>3. ASSUME \/ ProcData(n, l) \/ ForwardData(n, Channel(l))
               \/ ProcClosed(n, l) \/ ForwardClosed(n, l)
        PROVE  OwnedAfter(H, Z)
    BY <2>0, <2>3, ProcDataOwned, ForwardDataOwned, ProcClosedOwned, ForwardClosedOwned
  <2> QED BY <1>3, <2>1, <2>2, <2>3 DEF FrameSteps
<1>4. ASSUME NEW n \in Nodes, NEW l \in LinksOf(n), ExitSteps(n, l) PROVE OwnedAfter(H, Z)
  BY <1>4, ExitOwned
<1>5. ASSUME NEW n \in Nodes, NEW s \in DOMAIN raw[n], RawSteps(n, s) PROVE OwnedAfter(H, Z)
  BY <1>5, RawStepsOwned
<1>6. ASSUME NEW n \in Nodes, NEW d \in dialing[n], DialSteps(n, d) PROVE OwnedAfter(H, Z)
  BY <1>6, RawDialFailOwned, RawDialAddOwned, RawDialBackOwned DEF DialSteps
<1>7. ASSUME NEW n \in Nodes,
             (\E l \in LinksOf(n) : Lose(n, l)) \/ RouterClose(n) \/ RouterCloseOne(n)
      PROVE  OwnedAfter(H, Z)
  BY <1>7, OutsideOwned
<1> QED BY <1>1, <1>2, <1>3, <1>4, <1>5, <1>6, <1>7 DEF Next

\* A router's table changes by one call of addTable or removeTable, under tableLck.
Adds(n)    == \E e : table' = [table EXCEPT ![n] = AddTable(n, e)]
Removes(n) == \E c, s : table' = [table EXCEPT ![n] = RemoveTable(n, c, s)]
OneCall    == UNCHANGED table \/ \E n \in Nodes : Adds(n) \/ Removes(n)

LEMMA TableStep ==
    ASSUME CallsAssumption, TypeOK, [Next]_vars
    PROVE  OneCall
<1>1. CASE UNCHANGED vars
  BY <1>1 DEF vars, OneCall
<1>2. ASSUME NEW k \in Calls, CallSteps(k) PROVE OneCall
  <2>1. Caller[k] \in Nodes
    BY DEF CallsAssumption
  <2>2. ASSUME DialSelect(k) \/ DialAdd(k) PROVE OneCall
    BY <2>1, <2>2 DEF DialSelect, DialAdd, OneCall, Adds
  <2>3. ASSUME DialSend(k) PROVE OneCall
    BY <2>1, <2>3 DEF DialSend, OneCall, Removes
  <2> QED BY <1>2, <2>2, <2>3 DEF CallSteps
<1>3. ASSUME NEW n \in Nodes, NEW l \in LinksOf(n), FrameSteps(n, l) PROVE OneCall
  <2>1. ASSUME ProcDialAdd(n, l) PROVE OneCall
    BY <2>1 DEF ProcDialAdd, OneCall, Adds
  <2>2. ASSUME ProcDialSend(n, l) PROVE OneCall
    BY <2>2 DEF ProcDialSend, OneCall, Removes
  <2>3. ASSUME DialBackReady(n, l) PROVE OneCall
    <3>1. PICK e : table' = [table EXCEPT ![n] = AddTable(n, e)]
      BY <2>3 DEF DialBackReady
    <3> QED BY <3>1 DEF OneCall, Adds
  <2>4. ASSUME DialBackFailed(n, l) PROVE OneCall
    <3>1. PICK c, s : table' = [table EXCEPT ![n] = RemoveTable(n, c, s)]
      BY <2>4 DEF DialBackFailed
    <3> QED BY <3>1 DEF OneCall, Removes
  <2>5. ASSUME ProcClosed(n, l) PROVE OneCall
    BY <2>5 DEF ProcClosed, OneCall, Removes
  <2>6. ASSUME \/ ProcDialRefuse(n, l) \/ ProcDialLast(n, l) \/ ProcDialSelect(n, l)
               \/ ProcDialBack(n, l) \/ DialBackUnknown(n, l) \/ DialBackForward(n, l)
               \/ ProcData(n, l) \/ ForwardData(n, Channel(l)) \/ ForwardClosed(n, l)
        PROVE  OneCall
    <3>1. UNCHANGED table
      BY <2>6 DEF ProcDialRefuse, ProcDialLast, ProcDialSelect, ProcDialBack, DialBackUnknown,
                  DialBackForward, ProcData, ForwardData, ForwardClosed
    <3> QED BY <3>1 DEF OneCall
  <2> QED BY <1>3, <2>1, <2>2, <2>3, <2>4, <2>5, <2>6 DEF FrameSteps
<1>4. ASSUME NEW n \in Nodes, NEW l \in LinksOf(n), ExitSteps(n, l) PROVE OneCall
  <2>1. ASSUME PurgeEntry(n, l) PROVE OneCall
    <3>1. PICK c, s : table' = [table EXCEPT ![n] = RemoveTable(n, c, s)]
      BY <2>1 DEF PurgeEntry
    <3> QED BY <3>1 DEF OneCall, Removes
  <2> QED BY <1>4, <2>1 DEF ExitSteps, ReadFail, CloseChannel, Unregister, PurgeDone, CloseRunning, OneCall
<1>5. ASSUME NEW n \in Nodes, NEW s \in DOMAIN raw[n], RawSteps(n, s) PROVE OneCall
  <2>1. ASSUME RemoveRaw(n, s) PROVE OneCall
    BY <2>1 DEF RemoveRaw, OneCall, Removes
  <2> QED BY <1>5, <2>1 DEF RawSteps, RawRead, ForwardData, RawReadFail, RawEnd, CloseRaw, OneCall
<1>6. ASSUME NEW n \in Nodes, NEW d \in dialing[n], DialSteps(n, d) PROVE OneCall
  <2>1. ASSUME RawDialFail(n, d) \/ RawDialAdd(n, d) PROVE OneCall
    BY <2>1 DEF RawDialFail, RawDialAdd, OneCall, Adds
  <2>2. ASSUME RawDialBack(n, d) PROVE OneCall
    BY <2>2 DEF RawDialBack, OneCall, Removes
  <2> QED BY <1>6, <2>1, <2>2 DEF DialSteps
<1>7. ASSUME NEW n \in Nodes,
             (\E l \in LinksOf(n) : Lose(n, l)) \/ RouterClose(n) \/ RouterCloseOne(n)
      PROVE  OneCall
  BY <1>7 DEF Lose, RouterClose, RouterCloseOne, OneCall
<1> QED BY <1>1, <1>2, <1>3, <1>4, <1>5, <1>6, <1>7 DEF Next

\* An entry goes with all its keys.
LEMMA RemovePaired ==
    ASSUME TypeOK, TablesSound, EntriesPaired, NEW n \in Nodes, Removes(n)
    PROVE  EntriesPaired'
<1>1. PICK c, s : table' = [table EXCEPT ![n] = RemoveTable(n, c, s)]
  BY DEF Removes
<1>2. PICK gone : gone = UNION {KeysOf(n, e) : e \in Lookup(n, c, s)}
  OBVIOUS
<1>3. DOMAIN table = Nodes
  BY DEF TypeOK, Maps
<1>4. /\ DOMAIN table'[n] = DOMAIN table[n] \ gone
      /\ \A k \in DOMAIN table'[n] : table'[n][k] = table[n][k]
      /\ \A m \in Nodes : m # n => table'[m] = table[m]
  BY <1>1, <1>2, <1>3 DEF RemoveTable, Drop
<1>5. ASSUME NEW m \in Nodes, NEW k \in DOMAIN table'[m], NEW k2 \in KeysOf(m, table'[m][k])
      PROVE  k2 \in DOMAIN table'[m] /\ table'[m][k2] = table'[m][k]
  <2>1. CASE m # n
    BY <1>4, <1>5, <2>1 DEF EntriesPaired
  <2>2. CASE m = n
    <3>1. PICK e : e = table[n][k]
      OBVIOUS
    <3>2. k \in DOMAIN table[n] /\ k \notin gone /\ table'[n][k] = e /\ k2 \in KeysOf(n, e)
      BY <1>4, <1>5, <2>2, <3>1
    <3>3. k2 \in DOMAIN table[n] /\ table[n][k2] = e /\ k \in KeysOf(n, e)
      BY <3>1, <3>2 DEF EntriesPaired, TablesSound
    <3>4. k2 \notin gone
      <4>1. SUFFICES ASSUME k2 \in gone PROVE FALSE
        OBVIOUS
      <4>2. PICK g \in Lookup(n, c, s) : k2 \in KeysOf(n, g)
        BY <1>2, <4>1
      <4>3. PICK k3 \in DOMAIN table[n] : g = table[n][k3]
        BY <4>2 DEF Lookup
      <4>4. table[n][k2] = g
        BY <4>2, <4>3 DEF EntriesPaired
      <4> QED BY <1>2, <3>2, <3>3, <4>2, <4>4
    <3> QED BY <1>4, <2>2, <3>2, <3>3, <3>4
  <2> QED BY <2>1, <2>2
<1> QED BY <1>5 DEF EntriesPaired

\* An entry comes with all its keys, and takes none of another entry's.
LEMMA AddPaired ==
    ASSUME IdsAssumption, LinksAssumption, OneWay, TypeOK, EntriesPaired,
           NEW H, NEW H2, TablesOwned(H), Extends(H, H2), History(H2), TablesOwned(H2)',
           NEW n \in Nodes, Adds(n)
    PROVE  EntriesPaired'
<1>1. PICK e : table' = [table EXCEPT ![n] = AddTable(n, e)]
  BY DEF Adds
<1>2. DOMAIN table = Nodes
  BY DEF TypeOK, Maps
<1>3. PICK new : new = KeysOf(n, e)
  OBVIOUS
<1>4. /\ DOMAIN table'[n] = DOMAIN table[n] \cup new
      /\ \A k \in new : table'[n][k] = e
      /\ \A k \in DOMAIN table[n] : k \notin new => table'[n][k] = table[n][k]
      /\ \A m \in Nodes : m # n => table'[m] = table[m]
  BY <1>1, <1>2, <1>3 DEF AddTable, Put
<1>5. Recorded(H2, n, e)
  <2>1. PICK k : k \in new
    BY <1>3 DEF KeysOf
  <2>2. k \in DOMAIN table'[n] /\ table'[n][k] = e
    BY <1>4, <2>1
  <2> QED BY <2>2 DEF TablesOwned
<1>6. ASSUME NEW m \in Nodes, NEW k \in DOMAIN table'[m], NEW k2 \in KeysOf(m, table'[m][k])
      PROVE  k2 \in DOMAIN table'[m] /\ table'[m][k2] = table'[m][k]
  <2>1. CASE m # n
    BY <1>4, <1>6, <2>1 DEF EntriesPaired
  <2>2. CASE m = n /\ k \in new
    BY <1>3, <1>4, <1>6, <2>2
  <2>3. CASE m = n /\ k \notin new
    <3>1. PICK f : f = table[n][k]
      OBVIOUS
    <3>2. k \in DOMAIN table[n] /\ table'[n][k] = f /\ k2 \in KeysOf(n, f)
      BY <1>4, <1>6, <2>3, <3>1
    <3>3. k2 \in DOMAIN table[n] /\ table[n][k2] = f
      BY <3>1, <3>2 DEF EntriesPaired
    <3>4. k2 \in new => e = f
      <4>1. Recorded(H2, n, f)
        BY <3>1, <3>2, StillRecorded DEF TablesOwned
      <4> QED BY <1>3, <1>5, <3>2, <4>1, KeyOwner
    <3> QED BY <1>4, <2>3, <3>2, <3>3, <3>4
  <2> QED BY <2>1, <2>2, <2>3
<1> QED BY <1>6 DEF EntriesPaired

\* Only the one answer of a dial reaches the raw connection that waits for it.
LEMMA OneAnswer ==
    ASSUME LinksAssumption, OneWay, TypeOK, NEW H, NEW Z, Owned(H, Z)
    PROVE  ReadyOnce
<1>1. SUFFICES ASSUME NEW n \in Nodes, NEW l \in LinksOf(n), Acting(n, Channel(l), "dialback"),
                      NEW e \in reader[n][Channel(l)].router, NextHop(e, Channel(l)).conn.type = "raw"
               PROVE  ~raw[n][NextHop(e, Channel(l)).conn.sid].ready
  BY DEF ReadyOnce
<1>o. History(H) /\ RawsOwned(H, Z) /\ RawsMade(H)
  BY DEF Owned
<1>2. PICK c, r, s : c = Channel(l) /\ r = reader[n][Channel(l)] /\ s = r.frame.sid
  OBVIOUS
<1>3. /\ c \in DOMAIN reader[n] /\ Down(n, l) /\ Stage(Z, l, s) = "found"
      /\ \A x \in r.router : Recorded(H, n, x) /\ Matches(x, c, s)
  <2>1. Acting(n, Channel(l), "dialback")
    BY <1>1
  <2>2. AnswerHere(H, Z, n, l, c, r, s)
    BY <1>2, <2>1, AnswerFacts
  <2> QED BY <2>2 DEF AnswerHere
<1>4. Recorded(H, n, e) /\ Matches(e, Channel(l), s)
  BY <1>1, <1>2, <1>3
<1>5. /\ NextHop(e, Channel(l)).conn = Raw(s) /\ Raw(s).sid = s
      /\ e.src.link = l /\ e.dst = Raw(s) /\ e.dsid = s
  BY <1>1, <1>3, <1>4, <1>o, CallerHop
<1>6. <<n, s>> \in DOMAIN H /\ H[<<n, s>>] = e
  BY <1>4, <1>5 DEF Recorded
<1>7. s \in DOMAIN raw[n]
  <2>1. <<n, s>>[1] = n /\ <<n, s>>[2] = s
    OBVIOUS
  <2> QED BY <1>5, <1>6, <1>o, <2>1 DEF RawsMade
<1>8. raw[n][s].ready => Stage(Z, l, s) = "done"
  BY <1>5, <1>6, <1>7, <1>o DEF RawsOwned, RawOwned
<1> QED BY <1>3, <1>5, <1>8

LEMMA OwnedAlways == ASSUME OneWay PROVE Spec => [](TypeOK /\ HopInv /\ OwnedInv)
<1>1. Init => HopInv /\ OwnedInv
  BY IdsAssumption, InitSound, OwnedInit DEF OwnedInv
<1>2. TypeOK /\ HopInv /\ [Next]_vars => HopInv'
  BY IdsAssumption, CallsAssumption, NextSound
<1>3. TypeOK /\ HopInv /\ OwnedInv /\ [Next]_vars => OwnedInv'
  <2>1. SUFFICES ASSUME TypeOK, HopInv, OwnedInv, [Next]_vars PROVE OwnedInv'
    OBVIOUS
  <2>2. PICK H, Z : Owned(H, Z)
    BY <2>1 DEF OwnedInv
  <2>3. OwnedAfter(H, Z)
    BY <2>1, <2>2, OwnedNext, IdsAssumption, LinksAssumption, CallsAssumption
  <2>4. PICK H2, Z2 : Owned(H2, Z2)'
    BY <2>3 DEF OwnedAfter
  <2> QED BY <2>4 DEF OwnedInv
<1> QED BY <1>1, <1>2, <1>3, TypeCorrect, PTL DEF Spec

\* Where no two routers dial to each other, both ends of every entry lead to it, so that
\* removeTable, from either end, leaves nothing of a session and takes nothing of another.
THEOREM EntriesStayPaired == ASSUME OneWay PROVE Spec => []EntriesPaired
<1>1. Init => EntriesPaired
  BY DEF Init, EntriesPaired, Empty
<1>2. TypeOK /\ HopInv /\ OwnedInv /\ EntriesPaired /\ [Next]_vars => EntriesPaired'
  <2>1. SUFFICES ASSUME TypeOK, HopInv, OwnedInv, EntriesPaired, [Next]_vars PROVE EntriesPaired'
    OBVIOUS
  <2>2. PICK H, Z : Owned(H, Z)
    BY <2>1 DEF OwnedInv
  <2>3. OwnedAfter(H, Z)
    BY <2>1, <2>2, OwnedNext, IdsAssumption, LinksAssumption, CallsAssumption
  <2>4. PICK H2 : Extends(H, H2) /\ History(H2) /\ TablesOwned(H2)'
    BY <2>3 DEF OwnedAfter, Owned
  <2>5. TablesOwned(H) /\ TablesSound
    BY <2>1, <2>2 DEF Owned, HopInv
  <2>6. OneCall
    BY <2>1, TableStep, CallsAssumption
  <2>7. CASE UNCHANGED table
    BY <2>1, <2>7 DEF EntriesPaired
  <2>8. ASSUME NEW n \in Nodes, Adds(n) PROVE EntriesPaired'
    BY <2>1, <2>4, <2>5, <2>8, AddPaired, IdsAssumption, LinksAssumption
  <2>9. ASSUME NEW n \in Nodes, Removes(n) PROVE EntriesPaired'
    BY <2>1, <2>5, <2>9, RemovePaired
  <2> QED BY <2>6, <2>7, <2>8, <2>9 DEF OneCall
<1> QED BY <1>1, <1>2, OwnedAlways, PTL DEF Spec

\* Where no two routers dial to each other, a session id of a channel belongs to one
\* call as long as the table holds it.
THEOREM SidsStayApart == ASSUME OneWay PROVE Spec => SidNotReused
<1> DEFINE Same == \A n \in Nodes : \A k \in DOMAIN table[n] \cap DOMAIN table'[n] :
                      table'[n][k].call = table[n][k].call
<1>1. TypeOK /\ HopInv /\ HopInv' /\ OwnedInv /\ [Next]_vars => [Same]_vars
  <2>1. SUFFICES ASSUME TypeOK, HopInv, HopInv', OwnedInv, [Next]_vars PROVE Same
    OBVIOUS
  <2>2. PICK H, Z : Owned(H, Z)
    BY <2>1 DEF OwnedInv
  <2>3. OwnedAfter(H, Z)
    BY <2>1, <2>2, OwnedNext, IdsAssumption, LinksAssumption, CallsAssumption
  <2>4. PICK H2 : Extends(H, H2) /\ History(H2) /\ TablesOwned(H2)'
    BY <2>3 DEF OwnedAfter, Owned
  <2>5. ASSUME NEW n \in Nodes, NEW k \in DOMAIN table[n], k \in DOMAIN table'[n]
        PROVE  table'[n][k].call = table[n][k].call
    <3>1. PICK e, f : e = table[n][k] /\ f = table'[n][k]
      OBVIOUS
    <3>2. k \in KeysOf(n, e)
      BY <2>1, <3>1 DEF HopInv, TablesSound
    <3>3. k \in KeysOf(n, f)
      BY <2>1, <2>5, <3>1 DEF HopInv, TablesSound
    <3>4. Recorded(H2, n, e)
      BY <2>2, <2>4, <3>1, StillRecorded DEF Owned, TablesOwned
    <3>5. Recorded(H2, n, f)
      BY <2>4, <2>5, <3>1 DEF TablesOwned
    <3>6. e = f
      BY <2>4, <3>2, <3>3, <3>4, <3>5, KeyOwner, IdsAssumption, LinksAssumption
    <3> QED BY <3>1, <3>6
  <2> QED BY <2>5
<1> QED BY <1>1, OwnedAlways, PTL DEF Spec, SidNotReused

\* Where no two routers dial to each other, procDialBack calls Ready on a raw connection
\* that is not ready yet, and so unlocks a locked readyLocker.
THEOREM AnsweredOnce == ASSUME OneWay PROVE Spec => []ReadyOnce
<1>1. TypeOK /\ OwnedInv => ReadyOnce
  BY OneAnswer, LinksAssumption DEF OwnedInv
<1> QED BY <1>1, OwnedAlways, PTL

\* What a raw connection has received was given to the other end of the same call.
DeliveredToItsCall ==
    \A n \in Nodes : \A s \in DOMAIN raw[n] : \A i \in DOMAIN raw[n][s].got :
        /\ raw[n][s].got[i].call = raw[n][s].call
        /\ raw[n][s].got[i].dialer = ~raw[n][s].dialer

\* Where no two routers dial to each other, no payload reaches another call's raw
\* connection, nor the end of its own call that sent it.
THEOREM DeliveredApart == ASSUME OneWay PROVE Spec => []DeliveredToItsCall
<1>1. OwnedInv => DeliveredToItsCall
  <2>1. SUFFICES ASSUME NEW H, NEW Z, RawsOwned(H, Z) PROVE DeliveredToItsCall
    BY DEF OwnedInv, Owned
  <2>2. ASSUME NEW n \in Nodes, NEW s \in DOMAIN raw[n], NEW i \in DOMAIN raw[n][s].got
        PROVE  /\ raw[n][s].got[i].call = raw[n][s].call
               /\ raw[n][s].got[i].dialer = ~raw[n][s].dialer
    <3>1. RawOwned(H, Z, n, s, raw[n][s])
      BY <2>1 DEF RawsOwned
    <3> QED BY <3>1 DEF RawOwned
  <2> QED BY <2>2 DEF DeliveredToItsCall
<1> QED BY <1>1, OwnedAlways, PTL
=============================================================================
