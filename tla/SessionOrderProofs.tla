------------------------- MODULE SessionOrderProofs -------------------------
(***************************************************************************)
(* Proofs about Session: what a raw connection receives is what the other  *)
(* end of its call was given to send, in order and without gap.            *)
(*                                                                         *)
(* Two counts are kept for each router, channel and session id: the        *)
(* payloads the router has put on the channel (V) and those its reader has *)
(* taken from it (W).  The invariant says that what is on a wire are the   *)
(* payloads between the two counts of its ends, and that a router that     *)
(* still has the entry of a session has passed on all it has taken, but    *)
(* for one payload its reader may hold.  A payload is lost only where      *)
(* nothing follows it: where the entry is gone, which does not come back,  *)
(* or where a channel end or a raw connection is closed, which stays so.   *)
(* Like H and Z, the counts are bound variables of the invariant.          *)
(***************************************************************************)
EXTENDS SessionApartProofs

Counts == [Nodes -> [Links -> [Nat -> Nat]]]

\* V2 counts one more at n for session s of l.
Bumped(V, V2, n, l, s) ==
    /\ V2 \in Counts /\ V2[n][l][s] = V[n][l][s] + 1
    /\ \A m \in Nodes : \A j \in Links : \A t \in Nat :
         m # n \/ j # l \/ t # s => V2[m][j][t] = V[m][j][t]

LEMMA CountType ==
    ASSUME NEW V \in Counts
    PROVE  \A n \in Nodes : \A l \in Links : \A s \in Nat : V[n][l][s] \in Nat
BY DEF Counts

LEMMA CountOn ==
    ASSUME NEW V \in Counts, NEW n \in Nodes, NEW l \in Links, NEW s \in Nat
    PROVE  \E V2 : Bumped(V, V2, n, l, s)
<1> DEFINE V2 == [m \in Nodes |-> [j \in Links |-> [t \in Nat |->
                    IF m = n /\ j = l /\ t = s THEN V[m][j][t] + 1 ELSE V[m][j][t]]]]
<1>1. \A m \in Nodes : \A j \in Links : \A t \in Nat : V[m][j][t] \in Nat
  BY DEF Counts
<1>2. V2 \in Counts
  BY <1>1 DEF Counts
<1>3. \A m \in Nodes : \A j \in Links : \A t \in Nat :
        V2[m][j][t] = IF m = n /\ j = l /\ t = s THEN V[m][j][t] + 1 ELSE V[m][j][t]
  OBVIOUS
<1>4. V2[n][l][s] = V[n][l][s] + 1
  BY <1>3
<1> HIDE DEF V2
<1>5. Bumped(V, V2, n, l, s)
  BY <1>2, <1>3, <1>4 DEF Bumped
<1> QED BY <1>5

(***************************************************************************)
(* The payloads of one session among the frames on a wire.                 *)
(***************************************************************************)
IsData(f, s) == f.cmd = "data" /\ f.sid = s

\* The payload with number m is on w.
Bears(w, s, m) == \E j \in DOMAIN w : IsData(w[j], s) /\ w[j].payload.no = m

\* The payloads of s on w follow number lo, are in order and without gap, and go as
\* far as hi if nothing was lost at the end.
Flows(w, s, lo, hi, whole) ==
    /\ \A i \in DOMAIN w : IsData(w[i], s) =>
         /\ lo < w[i].payload.no /\ w[i].payload.no <= hi
         /\ \A m \in Nat : lo < m /\ m < w[i].payload.no => Bears(w, s, m)
    /\ \A i, j \in DOMAIN w :
         IsData(w[i], s) /\ IsData(w[j], s) /\ i < j => w[i].payload.no < w[j].payload.no
    /\ whole => \A m \in Nat : lo < m /\ m <= hi => Bears(w, s, m)

LEMMA DataNumber ==
    ASSUME NEW f \in Frames, f.cmd = "data"
    PROVE  f.payload \in Payloads /\ f.payload.no \in Nat /\ f.sid \in Nat
BY DEF Frames, DialFrames, Payloads

\* What comes after the last frame, and what is left when the first one is taken.
LEMMA AppendFacts ==
    ASSUME NEW w \in Seq(Frames), NEW f, NEW u, u = Append(w, f)
    PROVE  /\ \A i \in DOMAIN w : i \in DOMAIN u /\ u[i] = w[i] /\ i \in Nat /\ i < Len(w) + 1
           /\ Len(w) + 1 \in DOMAIN u /\ u[Len(w) + 1] = f
           /\ \A i \in DOMAIN u : i \in DOMAIN w \/ i = Len(w) + 1
           /\ \A i \in DOMAIN w : ~(Len(w) + 1 < i) /\ i # Len(w) + 1
           /\ Len(w) \in Nat
OBVIOUS

LEMMA TailFacts ==
    ASSUME NEW w \in Seq(Frames), w # <<>>, NEW u, u = Tail(w)
    PROVE  /\ u \in Seq(Frames) /\ Head(w) = w[1] /\ 1 \in DOMAIN w
           /\ \A i \in DOMAIN u : i \in Nat /\ i + 1 \in DOMAIN w /\ u[i] = w[i + 1] /\ i + 1 # 1
           /\ \A i \in DOMAIN w : i # 1 => i - 1 \in DOMAIN u /\ u[i - 1] = w[i] /\ 1 < i
           /\ \A i, j \in DOMAIN u : i < j => i + 1 < j + 1
OBVIOUS

\* Frames that are no payloads of s come and go without effect.
LEMMA OtherAppended ==
    ASSUME NEW w \in Seq(Frames), NEW f, NEW s, ~IsData(f, s),
           NEW lo, NEW hi, NEW whole, Flows(w, s, lo, hi, whole)
    PROVE  Flows(Append(w, f), s, lo, hi, whole)
<1>0. PICK u : u = Append(w, f)
  OBVIOUS
<1>1. /\ \A i \in DOMAIN w : i \in DOMAIN u /\ u[i] = w[i]
      /\ \A i \in DOMAIN u : IsData(u[i], s) => i \in DOMAIN w /\ u[i] = w[i]
  <2>1. /\ \A i \in DOMAIN w : i \in DOMAIN u /\ u[i] = w[i]
        /\ u[Len(w) + 1] = f /\ \A i \in DOMAIN u : i \in DOMAIN w \/ i = Len(w) + 1
    BY <1>0, AppendFacts
  <2> QED BY <2>1
<1>2. \A m : Bears(w, s, m) => Bears(u, s, m)
  BY <1>1 DEF Bears
<1>3. Flows(u, s, lo, hi, whole)
  BY ONLY <1>1, <1>2, Flows(w, s, lo, hi, whole) DEF Flows
<1> QED BY <1>0, <1>3

LEMMA OtherTaken ==
    ASSUME NEW w \in Seq(Frames), w # <<>>, NEW s, ~IsData(Head(w), s),
           NEW lo, NEW hi, NEW whole, Flows(w, s, lo, hi, whole)
    PROVE  Flows(Tail(w), s, lo, hi, whole)
<1>0. PICK u : u = Tail(w)
  OBVIOUS
<1>1. /\ Head(w) = w[1]
      /\ \A i \in DOMAIN u : i + 1 \in DOMAIN w /\ u[i] = w[i + 1]
      /\ \A i \in DOMAIN w : i # 1 => i - 1 \in DOMAIN u /\ u[i - 1] = w[i]
      /\ \A i, j \in DOMAIN u : i < j => i + 1 < j + 1
  BY <1>0, TailFacts
<1>2. ASSUME NEW m, Bears(w, s, m) PROVE Bears(u, s, m)
  <2>1. PICK j \in DOMAIN w : IsData(w[j], s) /\ w[j].payload.no = m
    BY <1>2 DEF Bears
  <2>2. j # 1
    BY <1>1, <2>1
  <2> QED BY <1>1, <2>1, <2>2 DEF Bears
<1>3. ASSUME NEW i \in DOMAIN u, IsData(u[i], s)
      PROVE  /\ lo < u[i].payload.no /\ u[i].payload.no <= hi
             /\ \A m \in Nat : lo < m /\ m < u[i].payload.no => Bears(u, s, m)
  <2>1. i + 1 \in DOMAIN w /\ u[i] = w[i + 1]
    BY <1>1
  <2> QED BY <1>2, <1>3, <2>1 DEF Flows
<1>4. ASSUME NEW i \in DOMAIN u, NEW j \in DOMAIN u, IsData(u[i], s), IsData(u[j], s), i < j
      PROVE  u[i].payload.no < u[j].payload.no
  <2>1. i + 1 \in DOMAIN w /\ u[i] = w[i + 1] /\ j + 1 \in DOMAIN w /\ u[j] = w[j + 1] /\ i + 1 < j + 1
    BY <1>1, <1>4
  <2> QED BY <1>4, <2>1 DEF Flows
<1>5. Flows(u, s, lo, hi, whole)
  <2>1. whole => \A m \in Nat : lo < m /\ m <= hi => Bears(w, s, m)
    BY DEF Flows
  <2> QED BY ONLY <1>2, <1>3, <1>4, <2>1 DEF Flows
<1> QED BY <1>0, <1>5

\* The next payload is put at the end of a wire that has all before it.
LEMMA DataAppended ==
    ASSUME NEW w \in Seq(Frames), NEW f \in Frames, NEW s, IsData(f, s),
           NEW lo \in Nat, NEW hi \in Nat, lo <= hi, f.payload.no = hi + 1, Flows(w, s, lo, hi, TRUE)
    PROVE  Flows(Append(w, f), s, lo, hi + 1, TRUE)
<1>0. PICK u : u = Append(w, f)
  OBVIOUS
<1>1. /\ \A i \in DOMAIN w : i \in DOMAIN u /\ u[i] = w[i] /\ i < Len(w) + 1 /\ w[i] \in Frames
      /\ Len(w) + 1 \in DOMAIN u /\ u[Len(w) + 1] = f
      /\ \A i \in DOMAIN u : i \in DOMAIN w \/ i = Len(w) + 1
      /\ \A i \in DOMAIN w : ~(Len(w) + 1 < i)
      /\ ~(Len(w) + 1 < Len(w) + 1)
  <2>1. \A i \in DOMAIN w : w[i] \in Frames
    OBVIOUS
  <2> QED BY <1>0, <2>1, AppendFacts
<1>2. \A m : Bears(w, s, m) => Bears(u, s, m)
  BY <1>1 DEF Bears
<1>3. \A m \in Nat : lo < m /\ m <= hi => Bears(u, s, m)
  BY <1>2 DEF Flows
<1>4. Bears(u, s, hi + 1)
  BY <1>1 DEF Bears
<1>5. \A m \in Nat : lo < m /\ m <= hi + 1 => Bears(u, s, m)
  BY <1>3, <1>4
<1>6. ASSUME NEW i \in DOMAIN u, IsData(u[i], s)
      PROVE  lo < u[i].payload.no /\ u[i].payload.no <= hi + 1
  <2>1. CASE i \in DOMAIN w
    <3>1. u[i] = w[i] /\ lo < w[i].payload.no /\ w[i].payload.no <= hi /\ w[i].payload.no \in Nat
      BY <1>1, <1>6, <2>1, DataNumber DEF Flows, IsData
    <3> QED BY <3>1
  <2>2. CASE i = Len(w) + 1
    BY <1>1, <2>2
  <2> QED BY <1>1, <2>1, <2>2
<1>7. \A i \in DOMAIN w : IsData(w[i], s) => w[i].payload.no < hi + 1
  <2>1. ASSUME NEW i \in DOMAIN w, IsData(w[i], s) PROVE w[i].payload.no < hi + 1
    <3>1. w[i].payload.no <= hi /\ w[i].payload.no \in Nat
      BY <1>1, <2>1, DataNumber DEF Flows, IsData
    <3> QED BY <3>1
  <2> QED BY <2>1
<1>8. ASSUME NEW i \in DOMAIN u, NEW j \in DOMAIN u, IsData(u[i], s), IsData(u[j], s), i < j
      PROVE  u[i].payload.no < u[j].payload.no
  <2>1. i \in DOMAIN w
    BY <1>1, <1>8
  <2>2. CASE j \in DOMAIN w
    BY <1>1, <1>8, <2>1, <2>2 DEF Flows
  <2>3. CASE j = Len(w) + 1
    BY <1>1, <1>7, <1>8, <2>1, <2>3
  <2> QED BY <1>1, <2>2, <2>3
<1>9. ASSUME NEW i \in DOMAIN u, IsData(u[i], s), NEW m \in Nat, lo < m, m < u[i].payload.no
      PROVE  Bears(u, s, m)
  <2>1. u[i].payload.no <= hi + 1 /\ u[i].payload.no \in Nat
    <3>1. u[i] \in Frames
      BY <1>1
    <3> QED BY <1>6, <1>9, <3>1, DataNumber DEF IsData
  <2> QED BY <1>5, <1>9, <2>1
<1>10. Flows(u, s, lo, hi + 1, TRUE)
  BY <1>5, <1>6, <1>8, <1>9 DEF Flows
<1> QED BY <1>0, <1>10

\* The first payload is the one after those that were taken.
LEMMA DataTaken ==
    ASSUME NEW w \in Seq(Frames), w # <<>>, NEW s, IsData(Head(w), s),
           NEW lo \in Nat, NEW hi \in Nat, NEW whole, Flows(w, s, lo, hi, whole)
    PROVE  /\ Head(w).payload.no = lo + 1 /\ lo + 1 <= hi
           /\ Flows(Tail(w), s, lo + 1, hi, whole)
<1>0. PICK u : u = Tail(w)
  OBVIOUS
<1>1. /\ Head(w) = w[1] /\ 1 \in DOMAIN w
      /\ \A i \in DOMAIN u : i + 1 \in DOMAIN w /\ u[i] = w[i + 1] /\ 1 < i + 1
      /\ \A i \in DOMAIN w : i # 1 => i - 1 \in DOMAIN u /\ u[i - 1] = w[i] /\ 1 < i
      /\ \A i, j \in DOMAIN u : i < j => i + 1 < j + 1
      /\ \A i \in DOMAIN w : w[i] \in Frames
  <2>1. /\ \A i \in DOMAIN w : w[i] \in Frames
        /\ \A i \in DOMAIN u : i \in Nat /\ i + 1 # 1 => 1 < i + 1
    BY <1>0
  <2> QED BY <1>0, <2>1, TailFacts
<1>2. \A i \in DOMAIN w : IsData(w[i], s) =>
        w[i].payload.no \in Nat /\ lo < w[i].payload.no /\ w[i].payload.no <= hi
  BY <1>1, DataNumber DEF Flows, IsData
<1>3. w[1].payload.no = lo + 1
  <2>1. SUFFICES ASSUME lo + 1 < w[1].payload.no PROVE FALSE
    BY <1>1, <1>2
  <2>2. Bears(w, s, lo + 1)
    BY <1>1, <1>2, <2>1 DEF Flows
  <2>3. PICK j \in DOMAIN w : IsData(w[j], s) /\ w[j].payload.no = lo + 1
    BY <2>2 DEF Bears
  <2>4. j # 1 /\ 1 < j
    BY <1>1, <2>1, <2>3
  <2>5. w[1].payload.no < w[j].payload.no
    BY <1>1, <2>3, <2>4 DEF Flows
  <2> QED BY <1>1, <1>2, <2>1, <2>3, <2>5
<1>4. ASSUME NEW m \in Nat, lo + 1 < m, Bears(w, s, m) PROVE Bears(u, s, m)
  <2>1. PICK j \in DOMAIN w : IsData(w[j], s) /\ w[j].payload.no = m
    BY <1>4 DEF Bears
  <2>2. j # 1
    BY <1>3, <1>4, <2>1
  <2> QED BY <1>1, <2>1, <2>2 DEF Bears
<1>5. ASSUME NEW i \in DOMAIN u, IsData(u[i], s)
      PROVE  /\ lo + 1 < u[i].payload.no /\ u[i].payload.no <= hi
             /\ \A m \in Nat : lo + 1 < m /\ m < u[i].payload.no => Bears(u, s, m)
  <2>1. i + 1 \in DOMAIN w /\ u[i] = w[i + 1] /\ 1 < i + 1
    BY <1>1
  <2>2. w[1].payload.no < w[i + 1].payload.no
    BY <1>1, <1>5, <2>1 DEF Flows
  <2>3. u[i].payload.no \in Nat /\ u[i].payload.no <= hi /\ lo + 1 < u[i].payload.no
    BY <1>2, <1>3, <1>5, <2>1, <2>2
  <2>4. ASSUME NEW m \in Nat, lo + 1 < m, m < u[i].payload.no PROVE Bears(u, s, m)
    <3>1. Bears(w, s, m)
      BY <1>5, <2>1, <2>4 DEF Flows
    <3> QED BY <1>4, <2>4, <3>1
  <2> QED BY <2>3, <2>4
<1>6. ASSUME NEW i \in DOMAIN u, NEW j \in DOMAIN u, IsData(u[i], s), IsData(u[j], s), i < j
      PROVE  u[i].payload.no < u[j].payload.no
  <2>1. i + 1 \in DOMAIN w /\ u[i] = w[i + 1] /\ j + 1 \in DOMAIN w /\ u[j] = w[j + 1] /\ i + 1 < j + 1
    BY <1>1, <1>6
  <2> QED BY <1>6, <2>1 DEF Flows
<1>7. whole => \A m \in Nat : lo + 1 < m /\ m <= hi => Bears(u, s, m)
  BY <1>4 DEF Flows
<1>8. Flows(u, s, lo + 1, hi, whole)
  BY ONLY <1>5, <1>6, <1>7 DEF Flows
<1> QED BY <1>0, <1>1, <1>2, <1>3, <1>8

\* A wire that lost its end needs not be whole any more.
LEMMA FlowsLess ==
    ASSUME NEW w \in Seq(Frames), NEW s, NEW lo \in Nat, NEW hi \in Nat, NEW whole,
           Flows(w, s, lo, hi, whole)
    PROVE  /\ Flows(w, s, lo, hi, FALSE) /\ Flows(w, s, lo, hi + 1, FALSE)
           /\ Flows(<<>>, s, lo, hi, FALSE)
<1>1. \A i \in DOMAIN w : IsData(w[i], s) => w[i].payload.no <= hi + 1
  <2>1. ASSUME NEW i \in DOMAIN w, IsData(w[i], s) PROVE w[i].payload.no <= hi + 1
    <3>1. w[i].payload.no <= hi /\ w[i].payload.no \in Nat
      BY <2>1, DataNumber DEF Flows, IsData
    <3> QED BY <3>1
  <2> QED BY <2>1
<1>2. Flows(w, s, lo, hi, FALSE) /\ Flows(w, s, lo, hi + 1, FALSE)
  BY <1>1 DEF Flows
<1>3. Flows(<<>>, s, lo, hi, FALSE)
  BY DEF Flows
<1> QED BY <1>2, <1>3

(***************************************************************************)
(* The invariant.                                                          *)
(***************************************************************************)

\* How much of a session has arrived at n from c, and how much has left n to c.
Arrived(W, n, c, s) == IF c.type = "raw" THEN raw[n][c.sid].sent ELSE W[n][c.link][s]
Left(V, n, c, s)    == IF c.type = "raw" THEN Len(raw[n][c.sid].got) ELSE V[n][c.link][s]

\* The session id of an entry at its end c.
SidAt(e, c) == IF e.src = c THEN e.ssid ELSE e.dsid

\* The reader of c has a payload of session s in hand.
Holding(n, c, s) ==
    /\ c \in DOMAIN reader[n]
    /\ Acting(n, c, "data") /\ reader[n][c].frame.sid = s

Shut(n, c) == c.type = "raw" /\ raw[n][c.sid].closed

\* What arrived from the end c of an entry was passed on to the other end, but for
\* what the reader holds; a raw connection that is closed takes nothing any more.
Through(W, V, n, e, c) ==
    LET hop == NextHop(e, c) IN
    \/ Shut(n, hop.conn)
    \/ Arrived(W, n, c, SidAt(e, c)) =
         Left(V, n, hop.conn, hop.sid) + (IF Holding(n, c, SidAt(e, c)) THEN 1 ELSE 0)

InTable(n, e) == \E k \in DOMAIN table[n] : table[n][k] = e

WireFlow(W, V, w) ==
    \A n \in Nodes : \A l \in LinksOf(n) : \A s \in Nat :
        /\ W[n][l][s] <= V[Peer(n, l)][l][s]
        /\ Flows(w[n][l], s, W[n][l][s], V[Peer(n, l)][l][s], BothOpen(n, l))

TableFlow(W, V) ==
    \A n \in Nodes : \A e : InTable(n, e) => Through(W, V, n, e, e.src) /\ Through(W, V, n, e, e.dst)

ReaderFlow(W, V) ==
    \A n \in Nodes : \A c \in DOMAIN reader[n] : reader[n][c].pc = "found" =>
        /\ \A e \in reader[n][c].router : Through(W, V, n, e, c)
        /\ reader[n][c].frame.cmd = "data" =>
             /\ reader[n][c].frame.payload.no > 0
             /\ reader[n][c].frame.payload.no = Arrived(W, n, c, reader[n][c].frame.sid)

GotInOrder == \A n \in Nodes : \A s \in DOMAIN raw[n] : \A i \in DOMAIN raw[n][s].got :
                  raw[n][s].got[i].no = i

\* The raw connection of a remote dial is read only after the answer.
Pending ==
    \A n \in Nodes : \A d \in dialing[n] : d.pc = "back" =>
        d.raw \in DOMAIN raw[n] /\ Raw(d.raw) \notin DOMAIN reader[n]

\* A raw connection is read once it exists and, at the caller, is ready.
RawsStarted ==
    \A n \in Nodes :
        /\ \A c \in DOMAIN reader[n] : c.type = "raw" =>
             /\ c.sid \in DOMAIN raw[n]
             /\ raw[n][c.sid].dialer => raw[n][c.sid].ready
        /\ \A s \in DOMAIN raw[n] : raw[n][s].sent > 0 => Raw(s) \in DOMAIN reader[n]

\* Payloads go over a channel from the end that dialed once the dial is done, and
\* from the other end once it has made its entry.
Started(H, Z, n, l, s) ==
    \/ Down(n, l) /\ <<n, s>> \in DOMAIN H /\ Stage(Z, l, s) = "done"
    \/ /\ Up(n, l)
       /\ \E t : <<n, t>> \in DOMAIN H /\ H[<<n, t>>].src = Channel(l) /\ H[<<n, t>>].ssid = s

Grounded(H, Z, V) ==
    \A n \in Nodes : \A l \in LinksOf(n) : \A s \in Nat : V[n][l][s] > 0 => Started(H, Z, n, l, s)

Flow(H, Z, W, V) ==
    /\ W \in Counts /\ V \in Counts /\ Grounded(H, Z, V)
    /\ WireFlow(W, V, wire) /\ TableFlow(W, V) /\ ReaderFlow(W, V)
    /\ GotInOrder /\ RawsStarted /\ Pending

FlowAfter(H, Z) == \E W2, V2 : Flow(H, Z, W2, V2)'

(***************************************************************************)
(* Steps that move no payload.                                             *)
(***************************************************************************)
RawCalm ==
    \A n \in Nodes :
        /\ \A s \in DOMAIN raw[n] :
             /\ s \in DOMAIN raw'[n]
             /\ raw'[n][s].got = raw[n][s].got /\ raw'[n][s].sent = raw[n][s].sent
             /\ raw'[n][s].dialer = raw[n][s].dialer
             /\ raw[n][s].closed => raw'[n][s].closed
             /\ raw[n][s].ready => raw'[n][s].ready
        /\ \A s \in DOMAIN raw'[n] :
             s \in DOMAIN raw[n] \/ (raw'[n][s].got = <<>> /\ raw'[n][s].sent = 0)

\* A reader that has a payload keeps it; another one finds what is in the table.
CalmAt(n, c) ==
    \/ c \in DOMAIN reader[n] /\ reader'[n][c] = reader[n][c]
    \/ ~(c \in DOMAIN reader[n] /\ Acting(n, c, "data")) /\ reader'[n][c].pc # "found"
    \/ /\ c \in DOMAIN reader[n] /\ ~Acting(n, c, "data")
       /\ reader'[n][c].pc = "found" /\ reader'[n][c].frame.cmd # "data"
       /\ \A e \in reader'[n][c].router : InTable(n, e) /\ c \in {e.src, e.dst}

ReaderCalm ==
    \A n \in Nodes :
        /\ DOMAIN reader[n] \subseteq DOMAIN reader'[n]
        /\ \A c \in DOMAIN reader'[n] :
             /\ CalmAt(n, c)
             /\ c \notin DOMAIN reader[n] /\ c.type = "raw" =>
                  /\ c.sid \in DOMAIN raw'[n]
                  /\ raw'[n][c.sid].dialer => raw'[n][c.sid].ready

TableCalm(W, V) ==
    \A n \in Nodes : \A e : InTable(n, e)' =>
        InTable(n, e) \/ (Through(W, V, n, e, e.src)' /\ Through(W, V, n, e, e.dst)')

LEMMA HoldingKept ==
    ASSUME ReaderCalm, NEW n \in Nodes, NEW c, NEW s
    PROVE  Holding(n, c, s)' <=> Holding(n, c, s)
<1>1. CASE c \in DOMAIN reader'[n]
  BY <1>1 DEF ReaderCalm, CalmAt, Holding, Acting
<1>2. CASE c \notin DOMAIN reader'[n]
  BY <1>2 DEF ReaderCalm, Holding
<1> QED BY <1>1, <1>2

\* The raw connections an entry leads to exist.
EndsMade(n, e) ==
    /\ e.src.type = "raw" => e.src.sid \in DOMAIN raw[n]
    /\ e.dst.type = "raw" => e.dst.sid \in DOMAIN raw[n]

LEMMA EndsAreMade ==
    ASSUME LinksAssumption, OneWay, NEW H, History(H), RawsMade(H),
           NEW n \in Nodes, NEW e, Recorded(H, n, e)
    PROVE  /\ EndsMade(n, e) /\ e.src # e.dst /\ e.ssid \in Nat /\ e.dsid \in Nat
           /\ e.src \in Channels /\ e.src.link \in LinksOf(n)
           /\ e.dst = Raw(e.dsid) \/ (e.dst \in Channels /\ e.dst.link \in LinksOf(n))
<1>1. e \in Entries /\ Genuine(H, n, e) /\ <<n, e.dsid>> \in DOMAIN H /\ H[<<n, e.dsid>>] = e
  BY RecordedAt
<1>2. e.src \in Channels /\ e.src.link \in LinksOf(n) /\ (e.dst = Raw(e.dsid) \/ RelayEntry(n, e))
  BY <1>1, Kinds
<1>3. e.src # e.dst
  BY <1>1, GenuineConns
<1>4. e.dst = Raw(e.dsid) => e.dsid \in DOMAIN raw[n]
  <2>1. PICK x : x = <<n, e.dsid>>
    OBVIOUS
  <2>2. x \in DOMAIN H /\ H[x] = e /\ x[1] = n /\ x[2] = e.dsid
    BY <1>1, <2>1
  <2> QED BY <2>2 DEF RawsMade
<1>5. EndsMade(n, e)
  <2>1. e.src.type = "channel"
    BY <1>2, ConnFacts
  <2>2. e.dst \in Channels => e.dst.type = "channel"
    BY ConnFacts
  <2> QED BY <1>2, <1>4, <2>1, <2>2, ConnFacts DEF EndsMade, RelayEntry
<1>6. e.ssid \in Nat /\ e.dsid \in Nat
  BY <1>1 DEF Entries
<1>7. e.dst = Raw(e.dsid) \/ (e.dst \in Channels /\ e.dst.link \in LinksOf(n))
  BY <1>2 DEF RelayEntry
<1> QED BY <1>2, <1>3, <1>5, <1>6, <1>7

LEMMA ThroughKept ==
    ASSUME RawCalm, ReaderCalm, NEW n \in Nodes, NEW e, EndsMade(n, e), NEW c \in {e.src, e.dst},
           NEW W, NEW V, Through(W, V, n, e, c)
    PROVE  Through(W, V, n, e, c)'
<1>0. PICK hop, s : hop = NextHop(e, c) /\ s = SidAt(e, c)
  OBVIOUS
<1>1. hop.conn \in {e.src, e.dst}
  BY <1>0 DEF NextHop
<1>2. Holding(n, c, s)' <=> Holding(n, c, s)
  BY HoldingKept
<1>3. Shut(n, hop.conn) => Shut(n, hop.conn)'
  BY <1>1 DEF Shut, EndsMade, RawCalm
<1>4. Arrived(W, n, c, s)' = Arrived(W, n, c, s)
  BY DEF Arrived, EndsMade, RawCalm
<1>5. Left(V, n, hop.conn, hop.sid)' = Left(V, n, hop.conn, hop.sid)
  BY <1>1 DEF Left, EndsMade, RawCalm
<1> QED BY <1>0, <1>2, <1>3, <1>4, <1>5 DEF Through

LEMMA CalmStep ==
    ASSUME LinksAssumption, OneWay, TypeOK, NEW H, NEW Z, Owned(H, Z), NEW W, NEW V, Flow(H, Z, W, V),
           RawCalm, ReaderCalm, TableCalm(W, V), WireFlow(W, V, wire)', Pending'
    PROVE  FlowAfter(H, Z)
<1>o. /\ History(H) /\ RawsMade(H) /\ TablesOwned(H) /\ ReadersOwned(H, Z)
      /\ TableFlow(W, V) /\ ReaderFlow(W, V) /\ GotInOrder /\ RawsStarted
  BY DEF Owned, Flow
<1>1. TableFlow(W, V)'
  <2>1. ASSUME NEW n \in Nodes, NEW e, InTable(n, e)
        PROVE  Through(W, V, n, e, e.src)' /\ Through(W, V, n, e, e.dst)'
    <3>1. Recorded(H, n, e)
      BY <1>o, <2>1 DEF InTable, TablesOwned
    <3>2. EndsMade(n, e)
      BY <1>o, <3>1, EndsAreMade
    <3> QED BY <1>o, <2>1, <3>2, ThroughKept DEF TableFlow
  <2> QED BY <2>1 DEF TableCalm, TableFlow
<1>2. ReaderFlow(W, V)'
  <2>1. SUFFICES ASSUME NEW n \in Nodes, NEW c \in DOMAIN reader'[n], reader'[n][c].pc = "found"
                 PROVE  /\ \A e \in reader'[n][c].router : Through(W, V, n, e, c)'
                        /\ reader'[n][c].frame.cmd = "data" =>
                             /\ reader'[n][c].frame.payload.no > 0
                             /\ (reader[n][c].frame.payload.no = Arrived(W, n, c, reader[n][c].frame.sid))'
    BY DEF ReaderFlow
  <2>2. CASE c \in DOMAIN reader[n] /\ reader'[n][c] = reader[n][c]
    <3>0. PICK x : x = reader[n][c]
      OBVIOUS
    <3>1. FoundOwned(H, Z, n, c, x)
      BY <1>o, <2>1, <2>2, <3>0 DEF ReadersOwned, ReaderOwned
    <3>2. ASSUME NEW e \in x.router PROVE Through(W, V, n, e, c)'
      <4>1. Recorded(H, n, e) /\ c \in {e.src, e.dst}
        BY <3>1, <3>2 DEF FoundOwned, Matches
      <4>2. EndsMade(n, e)
        BY <1>o, <4>1, EndsAreMade
      <4>3. Through(W, V, n, e, c)
        BY <1>o, <2>1, <2>2, <3>0, <3>2 DEF ReaderFlow
      <4> QED BY <4>1, <4>2, <4>3, ThroughKept
    <3>3. ASSUME x.frame.cmd = "data"
          PROVE  x.frame.payload.no > 0 /\ x.frame.payload.no = Arrived(W, n, c, x.frame.sid)'
      <4>1. x.frame.payload.no > 0 /\ x.frame.payload.no = Arrived(W, n, c, x.frame.sid)
        BY <1>o, <2>1, <2>2, <3>0, <3>3 DEF ReaderFlow
      <4>2. Arrived(W, n, c, x.frame.sid)' = Arrived(W, n, c, x.frame.sid)
        BY <1>o, <2>2 DEF Arrived, RawsStarted, RawCalm
      <4> QED BY <4>1, <4>2
    <3>4. Arrived(W, n, c, reader[n][c].frame.sid)' = Arrived(W, n, c, x.frame.sid)'
      BY <2>2, <3>0 DEF Arrived
    <3> QED BY <2>2, <3>0, <3>2, <3>3, <3>4
  <2>3. CASE /\ reader'[n][c].frame.cmd # "data"
             /\ \A e \in reader'[n][c].router : InTable(n, e) /\ c \in {e.src, e.dst}
    <3>1. ASSUME NEW e \in reader'[n][c].router PROVE Through(W, V, n, e, c)'
      <4>1. Recorded(H, n, e) /\ Through(W, V, n, e, c)
        BY <1>o, <2>3, <3>1 DEF InTable, TablesOwned, TableFlow
      <4>2. EndsMade(n, e)
        BY <1>o, <4>1, EndsAreMade
      <4> QED BY <2>3, <3>1, <4>1, <4>2, ThroughKept
    <3> QED BY <2>3, <3>1
  <2> QED BY <2>1, <2>2, <2>3 DEF ReaderCalm, CalmAt
<1>3. GotInOrder'
  BY <1>o DEF GotInOrder, RawCalm
<1>4. RawsStarted'
  <2>1. ASSUME NEW n \in Nodes, NEW c \in DOMAIN reader'[n], c.type = "raw"
        PROVE  /\ c.sid \in DOMAIN raw'[n]
               /\ raw'[n][c.sid].dialer => raw'[n][c.sid].ready
    BY <1>o, <2>1 DEF RawsStarted, ReaderCalm, RawCalm
  <2>2. ASSUME NEW n \in Nodes, NEW s \in DOMAIN raw'[n], raw'[n][s].sent > 0
        PROVE  Raw(s) \in DOMAIN reader'[n]
    <3>1. s \in DOMAIN raw[n] /\ raw[n][s].sent > 0
      BY <2>2 DEF RawCalm
    <3> QED BY <1>o, <3>1 DEF RawsStarted, ReaderCalm
  <2> QED BY <2>1, <2>2 DEF RawsStarted
<1>5. Flow(H, Z, W, V)'
  BY <1>1, <1>2, <1>3, <1>4 DEF Flow
<1> QED BY <1>5 DEF FlowAfter

(***************************************************************************)
(* What calm steps do to the wires, ...                                    *)
(***************************************************************************)
LEMMA FlowSent ==
    ASSUME LinksAssumption, NEW W, NEW V, NEW w \in Wires, WireFlow(W, V, w),
           NEW n \in Nodes, NEW l \in LinksOf(n), NEW f, f.cmd # "data"
    PROVE  WireFlow(W, V, Sent(w, n, l, f))
<1>0. PICK p, u : p = Peer(n, l) /\ u = Sent(w, n, l, f)
  OBVIOUS
<1>1. p \in Nodes /\ l \in Links
  BY <1>0, PeerFacts
<1>2. \A m \in Nodes : \A j \in Links : u[m][j] = w[m][j] \/ u[m][j] = Append(w[m][j], f)
  BY <1>0, <1>1 DEF Sent, Wires
<1>3. ASSUME NEW m \in Nodes, NEW j \in LinksOf(m), NEW s \in Nat
      PROVE  /\ W[m][j][s] <= V[Peer(m, j)][j][s]
             /\ Flows(u[m][j], s, W[m][j][s], V[Peer(m, j)][j][s], BothOpen(m, j))
  <2>1. /\ W[m][j][s] <= V[Peer(m, j)][j][s]
        /\ Flows(w[m][j], s, W[m][j][s], V[Peer(m, j)][j][s], BothOpen(m, j))
    BY DEF WireFlow
  <2>2. w[m][j] \in Seq(Frames) /\ ~IsData(f, s) /\ j \in Links
    BY PeerFacts DEF Wires, IsData
  <2>3. Flows(Append(w[m][j], f), s, W[m][j][s], V[Peer(m, j)][j][s], BothOpen(m, j))
    BY <2>1, <2>2, OtherAppended
  <2> QED BY <1>2, <2>1, <2>2, <2>3
<1>4. WireFlow(W, V, u)
  BY <1>3 DEF WireFlow
<1> QED BY <1>0, <1>4

LEMMA FlowTaken ==
    ASSUME LinksAssumption, TypeOK, NEW W, NEW V, WireFlow(W, V, wire),
           NEW n \in Nodes, NEW l \in LinksOf(n), NEW cmd, cmd # "data", HasFrame(n, l, cmd)
    PROVE  WireFlow(W, V, Taken(n, l))
<1>0. PICK u : u = Taken(n, l)
  OBVIOUS
<1>1. wire \in Wires /\ l \in Links /\ wire[n][l] # <<>> /\ Head(wire[n][l]).cmd # "data"
  BY PeerFacts DEF TypeOK, HasFrame
<1>2. \A m \in Nodes : \A j \in Links :
        u[m][j] = IF m = n /\ j = l THEN Tail(wire[m][j]) ELSE wire[m][j]
  BY <1>0, <1>1 DEF Taken, Wires
<1>3. ASSUME NEW m \in Nodes, NEW j \in LinksOf(m), NEW s \in Nat
      PROVE  /\ W[m][j][s] <= V[Peer(m, j)][j][s]
             /\ Flows(u[m][j], s, W[m][j][s], V[Peer(m, j)][j][s], BothOpen(m, j))
  <2>1. /\ W[m][j][s] <= V[Peer(m, j)][j][s]
        /\ Flows(wire[m][j], s, W[m][j][s], V[Peer(m, j)][j][s], BothOpen(m, j))
    BY DEF WireFlow
  <2>2. wire[m][j] \in Seq(Frames) /\ j \in Links
    BY <1>1, PeerFacts DEF Wires
  <2>3. CASE m = n /\ j = l
    <3>1. Flows(Tail(wire[m][j]), s, W[m][j][s], V[Peer(m, j)][j][s], BothOpen(m, j))
      BY <1>1, <2>1, <2>2, <2>3, OtherTaken DEF IsData
    <3> QED BY <1>2, <2>1, <2>2, <2>3, <3>1
  <2>4. CASE ~(m = n /\ j = l)
    BY <1>2, <2>1, <2>2, <2>4
  <2> QED BY <2>3, <2>4
<1>4. WireFlow(W, V, u)
  BY <1>3 DEF WireFlow
<1> QED BY <1>0, <1>4

LEMMA FlowNow ==
    ASSUME NEW W, NEW V, UNCHANGED open, NEW w, wire' = w, WireFlow(W, V, w)
    PROVE  WireFlow(W, V, wire)'
BY DEF WireFlow, BothOpen

\* Channel ends are closed, and what is on the way to a closed end may be dropped.
LEMMA FlowShut ==
    ASSUME LinksAssumption, TypeOK, NEW W \in Counts, NEW V \in Counts, WireFlow(W, V, wire),
           \A m \in Nodes : \A j \in LinksOf(m) :
              /\ BothOpen(m, j)' => BothOpen(m, j)
              /\ wire'[m][j] = wire[m][j] \/ (wire'[m][j] = <<>> /\ ~BothOpen(m, j)')
    PROVE  WireFlow(W, V, wire)'
<1>1. ASSUME NEW m \in Nodes, NEW j \in LinksOf(m), NEW s \in Nat
      PROVE  /\ W[m][j][s] <= V[Peer(m, j)][j][s]
             /\ Flows(wire'[m][j], s, W[m][j][s], V[Peer(m, j)][j][s], BothOpen(m, j)')
  <2>1. /\ W[m][j][s] <= V[Peer(m, j)][j][s]
        /\ Flows(wire[m][j], s, W[m][j][s], V[Peer(m, j)][j][s], BothOpen(m, j))
    BY DEF WireFlow
  <2>2. j \in Links /\ Peer(m, j) \in Nodes
    BY PeerFacts
  <2>3. wire[m][j] \in Seq(Frames) /\ W[m][j][s] \in Nat /\ V[Peer(m, j)][j][s] \in Nat
    <3>1. wire[m][j] \in Seq(Frames)
      BY <2>2 DEF TypeOK, Wires
    <3>2. \A q \in Nodes : W[q][j][s] \in Nat /\ V[q][j][s] \in Nat
      BY <2>2, CountType
    <3> QED BY <2>2, <3>1, <3>2
  <2>4. /\ Flows(wire[m][j], s, W[m][j][s], V[Peer(m, j)][j][s], FALSE)
        /\ Flows(<<>>, s, W[m][j][s], V[Peer(m, j)][j][s], FALSE)
    BY <2>1, <2>3, FlowsLess
  <2>5. CASE BothOpen(m, j)'
    <3>1. BothOpen(m, j) /\ wire'[m][j] = wire[m][j]
      BY <2>5
    <3>2. Flows(wire[m][j], s, W[m][j][s], V[Peer(m, j)][j][s], BothOpen(m, j)')
      BY ONLY <2>1, <2>5, <3>1 DEF Flows
    <3> QED BY <2>1, <3>1, <3>2
  <2>6. CASE ~BothOpen(m, j)'
    <3>1. \A w : Flows(w, s, W[m][j][s], V[Peer(m, j)][j][s], FALSE)
                  => Flows(w, s, W[m][j][s], V[Peer(m, j)][j][s], BothOpen(m, j)')
      BY ONLY <2>6 DEF Flows
    <3> QED BY <2>1, <2>4, <3>1
  <2> QED BY <2>5, <2>6
<1> QED BY <1>1 DEF WireFlow

(***************************************************************************)
(* ... to the raw connections, ...                                         *)
(***************************************************************************)
LEMMA RawSame ==
    ASSUME UNCHANGED raw
    PROVE  RawCalm
BY DEF RawCalm

LEMMA RawShut ==
    ASSUME TypeOK, NEW n \in Nodes, NEW ss, raw' = CloseRaws(n, ss)
    PROVE  RawCalm
<1>1. /\ DOMAIN raw = Nodes
      /\ \A m \in Nodes : \A s \in DOMAIN raw[m] : raw[m][s] \in RawStates
  BY DEF TypeOK, Maps
<1>2. ASSUME NEW m \in Nodes
      PROVE  /\ DOMAIN raw'[m] = DOMAIN raw[m]
             /\ \A s \in DOMAIN raw[m] : \/ raw'[m][s] = raw[m][s]
                                         \/ raw'[m][s] = [raw[m][s] EXCEPT !.closed = TRUE]
  BY <1>1 DEF CloseRaws
<1>3. \A r \in RawStates : LET r2 == [r EXCEPT !.closed = TRUE] IN
        /\ r2.got = r.got /\ r2.sent = r.sent /\ r2.dialer = r.dialer
        /\ r2.ready = r.ready /\ r2.closed
  BY DEF RawStates
<1>4. ASSUME NEW m \in Nodes, NEW s \in DOMAIN raw[m]
      PROVE  /\ raw'[m][s].got = raw[m][s].got /\ raw'[m][s].sent = raw[m][s].sent
             /\ raw'[m][s].dialer = raw[m][s].dialer
             /\ raw[m][s].closed => raw'[m][s].closed
             /\ raw[m][s].ready => raw'[m][s].ready
  <2>1. PICK r : r = raw[m][s]
    OBVIOUS
  <2>2. r \in RawStates /\ (raw'[m][s] = r \/ raw'[m][s] = [r EXCEPT !.closed = TRUE])
    BY <1>1, <1>2, <2>1
  <2>3. CASE raw'[m][s] = r
    BY <2>1, <2>3
  <2>4. CASE raw'[m][s] = [r EXCEPT !.closed = TRUE]
    BY <1>3, <2>1, <2>2, <2>4
  <2> QED BY <2>2, <2>3, <2>4
<1> QED BY <1>2, <1>4 DEF RawCalm

LEMMA RawTold ==
    ASSUME TypeOK, NEW n \in Nodes, NEW s,
           \/ raw' = [raw EXCEPT ![n][s].ready = TRUE]
           \/ raw' = [raw EXCEPT ![n][s].ready = TRUE, ![n][s].failed = TRUE, ![n][s].closed = TRUE]
    PROVE  RawCalm
<1>1. /\ DOMAIN raw = Nodes
      /\ \A m \in Nodes : \A t \in DOMAIN raw[m] : raw[m][t] \in RawStates
  BY DEF TypeOK, Maps
<1>2. ASSUME NEW m \in Nodes
      PROVE  DOMAIN raw'[m] = DOMAIN raw[m]
  BY <1>1
<1>4. ASSUME NEW m \in Nodes, NEW t \in DOMAIN raw[m]
      PROVE  /\ raw'[m][t].got = raw[m][t].got /\ raw'[m][t].sent = raw[m][t].sent
             /\ raw'[m][t].dialer = raw[m][t].dialer
             /\ raw[m][t].closed => raw'[m][t].closed
             /\ raw[m][t].ready => raw'[m][t].ready
  <2>1. raw[m][t] \in RawStates
    BY <1>1
  <2>2. CASE m = n /\ t = s
    <3>1. CASE raw' = [raw EXCEPT ![n][s].ready = TRUE]
      <4>1. raw'[m][t] = [raw[m][t] EXCEPT !.ready = TRUE]
        BY <1>1, <2>2, <3>1
      <4> QED BY <2>1, <4>1 DEF RawStates
    <3>2. CASE raw' = [raw EXCEPT ![n][s].ready = TRUE, ![n][s].failed = TRUE, ![n][s].closed = TRUE]
      <4>1. raw'[m][t] = [raw[m][t] EXCEPT !.ready = TRUE, !.failed = TRUE, !.closed = TRUE]
        BY <1>1, <2>2, <3>2
      <4> QED BY <2>1, <4>1 DEF RawStates
    <3> QED BY <3>1, <3>2
  <2>3. CASE ~(m = n /\ t = s)
    <3>1. raw'[m][t] = raw[m][t]
      BY <1>1, <2>3
    <3> QED BY <3>1
  <2> QED BY <2>2, <2>3
<1> QED BY <1>2, <1>4 DEF RawCalm

LEMMA RawNew ==
    ASSUME TypeOK, NEW n \in Nodes, NEW s, s \notin DOMAIN raw[n], NEW k, NEW dialer,
           raw' = [raw EXCEPT ![n] = Put(@, {s}, NewRaw(k, dialer))]
    PROVE  /\ RawCalm
           /\ s \in DOMAIN raw'[n] /\ raw'[n][s].got = <<>> /\ raw'[n][s].sent = 0
<1>1. DOMAIN raw = Nodes
  BY DEF TypeOK, Maps
<1>2. /\ DOMAIN raw'[n] = DOMAIN raw[n] \cup {s} /\ raw'[n][s] = NewRaw(k, dialer)
      /\ \A t \in DOMAIN raw[n] : raw'[n][t] = raw[n][t]
      /\ \A m \in Nodes : m # n => raw'[m] = raw[m]
  BY <1>1 DEF Put
<1>3. NewRaw(k, dialer).got = <<>> /\ NewRaw(k, dialer).sent = 0
  BY DEF NewRaw
<1> QED BY <1>2, <1>3 DEF RawCalm

(***************************************************************************)
(* ... to the readers, ...                                                 *)
(***************************************************************************)
LEMMA ReaderSame ==
    ASSUME UNCHANGED reader
    PROVE  ReaderCalm
BY DEF ReaderCalm, CalmAt

\* One reader takes a step that has nothing to do with a payload.
LEMMA ReaderGoes ==
    ASSUME TypeOK, NEW n \in Nodes, NEW c \in DOMAIN reader[n], ~Acting(n, c, "data"),
           NEW x, Goto(n, c, x),
           x.pc = "found" => /\ x.frame.cmd # "data"
                             /\ \A e \in x.router : InTable(n, e) /\ c \in {e.src, e.dst}
    PROVE  ReaderCalm /\ \A m \in Nodes : DOMAIN reader'[m] = DOMAIN reader[m]
<1>1. /\ \A m \in Nodes : DOMAIN reader'[m] = DOMAIN reader[m]
      /\ \A m \in Nodes : \A d \in DOMAIN reader'[m] :
           reader'[m][d] = IF m = n /\ d = c THEN x ELSE reader[m][d]
  BY DEF Goto, TypeOK, Readers, Maps
<1>2. ASSUME NEW m \in Nodes, NEW d \in DOMAIN reader'[m] PROVE CalmAt(m, d)
  <2>1. CASE m = n /\ d = c
    <3>1. reader'[n][c] = x
      BY <1>1, <1>2, <2>1
    <3> QED BY <2>1, <3>1 DEF CalmAt
  <2>2. CASE ~(m = n /\ d = c)
    BY <1>1, <1>2, <2>2 DEF CalmAt
  <2> QED BY <2>1, <2>2
<1> QED BY <1>1, <1>2 DEF ReaderCalm

\* Readers start to read.
LEMMA ReadersStart ==
    ASSUME TypeOK, NEW n \in Nodes, NEW cs, reader' = [reader EXCEPT ![n] = Put(@, cs, Reading)],
           \A c \in cs : ~(c \in DOMAIN reader[n] /\ Acting(n, c, "data")),
           \A c \in cs : c.type = "raw" =>
              c.sid \in DOMAIN raw'[n] /\ (raw'[n][c.sid].dialer => raw'[n][c.sid].ready)
    PROVE  /\ ReaderCalm /\ DOMAIN reader'[n] = DOMAIN reader[n] \cup cs
           /\ \A m \in Nodes : m # n => DOMAIN reader'[m] = DOMAIN reader[m]
<1>1. /\ DOMAIN reader'[n] = DOMAIN reader[n] \cup cs
      /\ \A d \in cs : reader'[n][d] = Reading
      /\ \A d \in DOMAIN reader[n] : d \notin cs => reader'[n][d] = reader[n][d]
      /\ \A m \in Nodes : m # n => reader'[m] = reader[m]
  BY DEF Put, TypeOK, Readers, Maps
<1>2. ASSUME NEW m \in Nodes, NEW d \in DOMAIN reader'[m]
      PROVE  /\ CalmAt(m, d)
             /\ d \notin DOMAIN reader[m] /\ d.type = "raw" =>
                  d.sid \in DOMAIN raw'[m] /\ (raw'[m][d.sid].dialer => raw'[m][d.sid].ready)
  <2>1. CASE m = n /\ d \in cs
    <3>1. reader'[m][d].pc = "read" /\ ~(d \in DOMAIN reader[m] /\ Acting(m, d, "data"))
      BY <1>1, <2>1, PlainStates
    <3> QED BY <2>1, <3>1 DEF CalmAt
  <2>2. CASE ~(m = n /\ d \in cs)
    BY <1>1, <1>2, <2>2 DEF CalmAt
  <2> QED BY <2>1, <2>2
<1> QED BY <1>1, <1>2 DEF ReaderCalm

LEMMA PendingKept ==
    ASSUME Pending, RawCalm, \A m \in Nodes : DOMAIN reader'[m] = DOMAIN reader[m],
           \A m \in Nodes : \A d \in dialing'[m] : d \in dialing[m] \/ d.pc # "back"
    PROVE  Pending'
BY DEF Pending, RawCalm

(***************************************************************************)
(* ... and to the tables.                                                  *)
(***************************************************************************)
LEMMA TableSame ==
    ASSUME UNCHANGED table, NEW W, NEW V
    PROVE  TableCalm(W, V)
BY DEF TableCalm, InTable

LEMMA TableLess ==
    ASSUME TypeOK, NEW W, NEW V, NEW n \in Nodes, NEW c, NEW s,
           table' = [table EXCEPT ![n] = RemoveTable(n, c, s)]
    PROVE  TableCalm(W, V)
<1>1. ASSUME NEW m \in Nodes, NEW k \in DOMAIN table'[m]
      PROVE  k \in DOMAIN table[m] /\ table'[m][k] = table[m][k]
  BY <1>1 DEF RemoveTable, Drop
<1> QED BY <1>1 DEF TableCalm, InTable

LEMMA TableMore ==
    ASSUME TypeOK, NEW W, NEW V, NEW n \in Nodes, NEW e,
           table' = [table EXCEPT ![n] = AddTable(n, e)],
           Through(W, V, n, e, e.src)', Through(W, V, n, e, e.dst)'
    PROVE  TableCalm(W, V)
<1>1. ASSUME NEW m \in Nodes, NEW k \in DOMAIN table'[m]
      PROVE  \/ k \in DOMAIN table[m] /\ table'[m][k] = table[m][k]
             \/ m = n /\ table'[m][k] = e
  BY <1>1 DEF AddTable, Put
<1>2. ASSUME NEW m \in Nodes, NEW x, InTable(m, x)'
      PROVE  InTable(m, x) \/ (m = n /\ x = e)
  BY <1>1, <1>2 DEF InTable
<1> QED BY <1>2 DEF TableCalm

(***************************************************************************)
(* The steps that move no payload.                                         *)
(***************************************************************************)
NoBacks == \A m \in Nodes : \A d \in dialing'[m] : d \in dialing[m] \/ d.pc # "back"

\* A step of a reader, ...
LEMMA CalmGoto ==
    ASSUME LinksAssumption, OneWay, TypeOK, NEW H, NEW Z, Owned(H, Z), NEW W, NEW V, Flow(H, Z, W, V),
           NEW n \in Nodes, NEW c \in DOMAIN reader[n], ~Acting(n, c, "data"), NEW x, Goto(n, c, x),
           x.pc = "found" => /\ x.frame.cmd # "data"
                             /\ \A e \in x.router : InTable(n, e) /\ c \in {e.src, e.dst},
           RawCalm, TableCalm(W, V), WireFlow(W, V, wire)', NoBacks
    PROVE  FlowAfter(H, Z)
<1>1. ReaderCalm /\ \A m \in Nodes : DOMAIN reader'[m] = DOMAIN reader[m]
  BY ReaderGoes
<1>2. Pending'
  BY <1>1, PendingKept DEF Flow, NoBacks
<1> QED BY <1>1, <1>2, CalmStep

\* ... one of another goroutine, ...
LEMMA CalmOther ==
    ASSUME LinksAssumption, OneWay, TypeOK, NEW H, NEW Z, Owned(H, Z), NEW W, NEW V, Flow(H, Z, W, V),
           UNCHANGED reader, RawCalm, TableCalm(W, V), WireFlow(W, V, wire)', NoBacks
    PROVE  FlowAfter(H, Z)
<1>1. ReaderCalm
  BY ReaderSame
<1>2. Pending'
  BY PendingKept DEF Flow, NoBacks
<1> QED BY <1>1, <1>2, CalmStep

\* ... and a reply.
LEMMA CalmReply ==
    ASSUME LinksAssumption, OneWay, TypeOK, NEW H, NEW Z, Owned(H, Z), NEW W, NEW V, Flow(H, Z, W, V),
           NEW n \in Nodes, NEW l \in LinksOf(n), ~Acting(n, Channel(l), "data"),
           NEW w \in Wires, WireFlow(W, V, w), NEW f, f.cmd # "data", Reply(n, l, w, f),
           RawCalm, TableCalm(W, V), UNCHANGED open, NoBacks
    PROVE  FlowAfter(H, Z)
<1>1. PICK x \in {Reading, Stopping} : wire' = Sent(w, n, l, f) /\ Goto(n, Channel(l), x)
  BY DEF Reply
<1>2. WireFlow(W, V, wire)'
  BY <1>1, FlowSent, FlowNow
<1>3. Channel(l) \in DOMAIN reader[n] /\ x.pc # "found"
  BY <1>1, PlainStates DEF TypeOK, Readers
<1> QED BY <1>1, <1>2, <1>3, CalmGoto

LEMMA NotActing ==
    ASSUME NEW n, NEW l, NEW cmd, HasFrame(n, l, cmd)
    PROVE  /\ ~Acting(n, Channel(l), "data") /\ ~Acting(n, Channel(l), "closed")
           /\ reader[n][Channel(l)].pc = "read"
BY DEF HasFrame, Acting

\* Nothing has gone over l for a dial that is not through, in either direction.
Unused(W, V, n, l, s) ==
    V[n][l][s] = 0 /\ W[n][l][s] = 0 /\ ~Holding(n, Channel(l), s)

LEMMA NotStarted ==
    ASSUME LinksAssumption, NEW H, NEW Z, NEW W, NEW V, Flow(H, Z, W, V),
           NEW n \in Nodes, NEW l \in LinksOf(n), NEW s \in Nat,
           ~Started(H, Z, n, l, s), ~Started(H, Z, Peer(n, l), l, s)
    PROVE  Unused(W, V, n, l, s)
<1>1. /\ W \in Counts /\ V \in Counts /\ Grounded(H, Z, V) /\ WireFlow(W, V, wire) /\ ReaderFlow(W, V)
  BY DEF Flow
<1>2. PICK p : p = Peer(n, l) /\ p \in Nodes /\ l \in LinksOf(p) /\ l \in Links
  BY PeerFacts
<1>3. V[n][l][s] \in Nat /\ W[n][l][s] \in Nat /\ V[p][l][s] \in Nat
  BY <1>1, <1>2, CountType
<1>4. V[n][l][s] = 0 /\ V[p][l][s] = 0
  BY <1>1, <1>2, <1>3 DEF Grounded
<1>5. W[n][l][s] <= V[p][l][s]
  BY <1>1, <1>2 DEF WireFlow
<1>6. W[n][l][s] = 0
  BY <1>3, <1>4, <1>5
<1>7. ~Holding(n, Channel(l), s)
  <2>1. SUFFICES ASSUME Holding(n, Channel(l), s) PROVE FALSE
    OBVIOUS
  <2>2. PICK r : r = reader[n][Channel(l)]
    OBVIOUS
  <2>3. /\ Channel(l) \in DOMAIN reader[n] /\ r.pc = "found" /\ r.frame.cmd = "data" /\ r.frame.sid = s
    BY <2>1, <2>2 DEF Holding, Acting
  <2>4. r.frame.payload.no > 0 /\ r.frame.payload.no = Arrived(W, n, Channel(l), s)
    BY <1>1, <2>2, <2>3 DEF ReaderFlow
  <2>5. Arrived(W, n, Channel(l), s) = W[n][l][s]
    BY ConnFacts DEF Arrived
  <2> QED BY <1>6, <2>4, <2>5
<1> QED BY <1>4, <1>6, <1>7 DEF Unused

\* An id that was just drawn, ...
LEMMA NewDown ==
    ASSUME LinksAssumption, OneWay, NEW H, History(H), NEW Z, NEW W, NEW V, Flow(H, Z, W, V),
           NEW n \in Nodes, NEW l \in LinksOf(n), Down(n, l), NEW s \in Nat, <<n, s>> \notin DOMAIN H
    PROVE  Unused(W, V, n, l, s)
<1>1. PICK p : /\ p = Peer(n, l) /\ p \in Nodes /\ l \in LinksOf(p) /\ Peer(p, l) = n
               /\ Up(p, l) /\ ~Down(p, l) /\ ~Up(n, l)
  BY PeerFacts, WayFacts
<1>2. ~Started(H, Z, n, l, s)
  BY <1>1 DEF Started
<1>3. ~Started(H, Z, p, l, s)
  <2>1. SUFFICES ASSUME NEW t, <<p, t>> \in DOMAIN H, H[<<p, t>>].src = Channel(l), H[<<p, t>>].ssid = s
                 PROVE  FALSE
    BY <1>1 DEF Started
  <2>2. Follows(H, p, H[<<p, t>>])
    BY <2>1, HistoryAt
  <2>3. Arrives(p, H[<<p, t>>]) /\ H[<<p, t>>].src.link = l
    BY <1>1, <2>1, PeerFacts, ConnFacts DEF Arrives
  <2> QED BY <1>1, <2>1, <2>2, <2>3 DEF Follows
<1> QED BY <1>1, <1>2, <1>3, NotStarted

\* ... and a dial that arrived and is not yet passed on.
LEMMA NewUp ==
    ASSUME LinksAssumption, OneWay, NEW H, History(H), NEW Z, AllPlaced(H, Z),
           NEW W, NEW V, Flow(H, Z, W, V),
           NEW n \in Nodes, NEW l \in LinksOf(n), Up(n, l), NEW s \in Nat, Stage(Z, l, s) \notin Made
    PROVE  Unused(W, V, n, l, s)
<1>1. PICK p : /\ p = Peer(n, l) /\ p \in Nodes /\ l \in LinksOf(p) /\ Peer(p, l) = n
               /\ Down(p, l) /\ ~Down(n, l) /\ ~Up(p, l)
  BY PeerFacts, WayFacts
<1>2. ~Started(H, Z, p, l, s)
  BY <1>1 DEF Started, Made
<1>3. ~Started(H, Z, n, l, s)
  <2>1. SUFFICES ASSUME NEW t, <<n, t>> \in DOMAIN H, H[<<n, t>>].src = Channel(l), H[<<n, t>>].ssid = s
                 PROVE  FALSE
    BY <1>1 DEF Started
  <2>2. Placed(Z, n, H[<<n, t>>])
    BY <2>1, HistoryAt, PlacedAt
  <2>3. Arrives(n, H[<<n, t>>]) /\ H[<<n, t>>].src.link = l
    BY <1>1, <2>1, PeerFacts, ConnFacts DEF Arrives
  <2> QED BY <2>1, <2>2, <2>3 DEF Placed
<1> QED BY <1>1, <1>2, <1>3, NotStarted

\* The next id has no raw connection yet, and so no reader.
LEMMA NewRawId ==
    ASSUME NEW H, NEW Z, Owned(H, Z), NEW W, NEW V, Flow(H, Z, W, V),
           NEW n \in Nodes, NEW s, <<n, s>> \notin DOMAIN H
    PROVE  s \notin DOMAIN raw[n] /\ Raw(s) \notin DOMAIN reader[n]
<1>1. s \notin DOMAIN raw[n]
  BY DEF Owned, RawsOwned, RawOwned
<1>2. Raw(s).type = "raw" /\ Raw(s).sid = s
  BY ConnFacts
<1> QED BY <1>1, <1>2 DEF Flow, RawsStarted

\* The entry of a dial that leads to a new raw connection, ...
LEMMA ThroughNewRaw ==
    ASSUME ReaderCalm, NEW W, NEW V, NEW n \in Nodes, NEW l, NEW a, NEW s, Unused(W, V, n, l, a),
           Raw(s) \notin DOMAIN reader[n], raw'[n][s].got = <<>>, raw'[n][s].sent = 0,
           NEW e, e.src = Channel(l), e.ssid = a, e.dst = Raw(s), e.dsid = s
    PROVE  Through(W, V, n, e, e.src)' /\ Through(W, V, n, e, e.dst)'
<1>1. /\ Channel(l) # Raw(s) /\ Channel(l).link = l /\ Channel(l).type = "channel"
      /\ Raw(s).type = "raw" /\ Raw(s).sid = s
  BY ConnFacts
<1>2. /\ NextHop(e, e.src) = [conn |-> Raw(s), sid |-> s] /\ SidAt(e, e.src) = a
      /\ NextHop(e, e.dst) = [conn |-> Channel(l), sid |-> a] /\ SidAt(e, e.dst) = s
  BY <1>1 DEF NextHop, SidAt
<1>3. ~Holding(n, Channel(l), a)' /\ ~Holding(n, Raw(s), s)'
  <2>1. ~Holding(n, Channel(l), a) /\ ~Holding(n, Raw(s), s)
    BY DEF Unused, Holding
  <2> QED BY <2>1, HoldingKept
<1>4. /\ Arrived(W, n, Channel(l), a)' = 0 /\ Left(V, n, Channel(l), a)' = 0
      /\ Arrived(W, n, Raw(s), s)' = 0 /\ Left(V, n, Raw(s), s)' = 0
  <2>1. Len(<<>>) = 0
    OBVIOUS
  <2> QED BY <1>1, <2>1 DEF Arrived, Left, Unused
<1>5. Through(W, V, n, e, e.src)'
  <2>1. Arrived(W, n, e.src, SidAt(e, e.src))' = 0
    BY <1>2, <1>4
  <2>2. Left(V, n, NextHop(e, e.src).conn, NextHop(e, e.src).sid)' = 0
    BY <1>2, <1>4
  <2>3. ~Holding(n, e.src, SidAt(e, e.src))'
    BY <1>2, <1>3
  <2> QED BY <2>1, <2>2, <2>3 DEF Through
<1>6. Through(W, V, n, e, e.dst)'
  <2>1. Arrived(W, n, e.dst, SidAt(e, e.dst))' = 0
    BY <1>2, <1>4
  <2>2. Left(V, n, NextHop(e, e.dst).conn, NextHop(e, e.dst).sid)' = 0
    BY <1>2, <1>4
  <2>3. ~Holding(n, e.dst, SidAt(e, e.dst))'
    BY <1>2, <1>3
  <2> QED BY <2>1, <2>2, <2>3 DEF Through
<1> QED BY <1>5, <1>6

\* ... and of one that is passed on.
LEMMA ThroughNewRelay ==
    ASSUME ReaderCalm, NEW W, NEW V, NEW n \in Nodes, NEW l, NEW a, Unused(W, V, n, l, a),
           NEW d, d # l, NEW s, Unused(W, V, n, d, s),
           NEW e, e.src = Channel(l), e.ssid = a, e.dst = Channel(d), e.dsid = s
    PROVE  Through(W, V, n, e, e.src)' /\ Through(W, V, n, e, e.dst)'
<1>1. /\ Channel(l) # Channel(d) /\ Channel(l).link = l /\ Channel(l).type = "channel"
      /\ Channel(d).link = d /\ Channel(d).type = "channel"
  BY ConnFacts
<1>2. /\ NextHop(e, e.src) = [conn |-> Channel(d), sid |-> s] /\ SidAt(e, e.src) = a
      /\ NextHop(e, e.dst) = [conn |-> Channel(l), sid |-> a] /\ SidAt(e, e.dst) = s
  BY <1>1 DEF NextHop, SidAt
<1>3. ~Holding(n, Channel(l), a)' /\ ~Holding(n, Channel(d), s)'
  BY HoldingKept DEF Unused
<1>4. /\ Arrived(W, n, Channel(l), a)' = 0 /\ Left(V, n, Channel(l), a)' = 0
      /\ Arrived(W, n, Channel(d), s)' = 0 /\ Left(V, n, Channel(d), s)' = 0
  BY <1>1 DEF Arrived, Left, Unused
<1>5. Through(W, V, n, e, e.src)'
  <2>1. Arrived(W, n, e.src, SidAt(e, e.src))' = 0
    BY <1>2, <1>4
  <2>2. Left(V, n, NextHop(e, e.src).conn, NextHop(e, e.src).sid)' = 0
    BY <1>2, <1>4
  <2>3. ~Holding(n, e.src, SidAt(e, e.src))'
    BY <1>2, <1>3
  <2> QED BY <2>1, <2>2, <2>3 DEF Through
<1>6. Through(W, V, n, e, e.dst)'
  <2>1. Arrived(W, n, e.dst, SidAt(e, e.dst))' = 0
    BY <1>2, <1>4
  <2>2. Left(V, n, NextHop(e, e.dst).conn, NextHop(e, e.dst).sid)' = 0
    BY <1>2, <1>4
  <2>3. ~Holding(n, e.dst, SidAt(e, e.dst))'
    BY <1>2, <1>3
  <2> QED BY <2>1, <2>2, <2>3 DEF Through
<1> QED BY <1>5, <1>6

LEMMA CallStepsFlow ==
    ASSUME IdsAssumption, LinksAssumption, CallsAssumption, OneWay, TypeOK, HopInv,
           NEW H, NEW Z, Owned(H, Z), NEW W, NEW V, Flow(H, Z, W, V), NEW k \in Calls, CallSteps(k)
    PROVE  FlowAfter(H, Z)
<1>o. /\ History(H) /\ AllDrawn(H) /\ Staged(H, Z) /\ CallsOwned(H, Z) /\ WireFlow(W, V, wire)
      /\ wire \in Wires
  BY DEF Owned, Flow, TypeOK
<1>1. ASSUME DialSelect(k) PROVE FlowAfter(H, Z)
  <2>1. /\ UNCHANGED <<wire, open, reader>> /\ RawCalm /\ TableCalm(W, V) /\ NoBacks
    BY <1>1, RawSame, TableSame DEF DialSelect, NoBacks
  <2> QED BY <1>o, <2>1, FlowNow, CalmOther
<1>2. ASSUME DialAdd(k) PROVE FlowAfter(H, Z)
  <2>1. PICK n, l, s, e : /\ n = Caller[k] /\ l = call[k].link /\ s = NextSid(n)
                          /\ e = Entry(Channel(l), s, Raw(s), s, k)
    OBVIOUS
  <2>2. /\ raw' = [raw EXCEPT ![n] = Put(@, {s}, NewRaw(k, TRUE))]
        /\ table' = [table EXCEPT ![n] = AddTable(n, e)]
        /\ UNCHANGED <<open, wire, reader, dialing>>
    BY <1>2, <2>1 DEF DialAdd
  <2>3. n \in Nodes /\ l \in LinksOf(n) /\ Down(n, l)
    <3>1. l \in LinksOf(n) /\ Peer(n, l) = Head(Route[k]) /\ n \in Nodes
      BY <1>2, <1>o, <2>1 DEF DialAdd, CallsOwned, CallOwned, CallsAssumption
    <3> QED BY <2>1, <3>1, RouteStart DEF Down
  <2>4. s \in Nat /\ <<n, s>> \notin DOMAIN H
    BY <1>o, <2>1, <2>3, Fresh
  <2>5. /\ Unused(W, V, n, l, s) /\ s \notin DOMAIN raw[n] /\ Raw(s) \notin DOMAIN reader[n]
    BY <1>o, <2>3, <2>4, NewDown, NewRawId
  <2>6. RawCalm /\ raw'[n][s].got = <<>> /\ raw'[n][s].sent = 0
    BY <2>2, <2>3, <2>5, RawNew
  <2>7. e.src = Channel(l) /\ e.ssid = s /\ e.dst = Raw(s) /\ e.dsid = s
    BY <2>1, EntryFields
  <2>8. Through(W, V, n, e, e.src)' /\ Through(W, V, n, e, e.dst)'
    <3>1. ReaderCalm
      BY <2>2, ReaderSame
    <3> QED BY ONLY <2>3, <2>5, <2>6, <2>7, <3>1, ThroughNewRaw
  <2>9. TableCalm(W, V)
    BY <2>2, <2>3, <2>8, TableMore
  <2> QED BY <1>o, <2>2, <2>6, <2>9, FlowNow, CalmOther DEF NoBacks
<1>3. ASSUME DialSend(k) PROVE FlowAfter(H, Z)
  <2>1. PICK n, l, s : n = Caller[k] /\ l = call[k].link /\ s = call[k].sid
    OBVIOUS
  <2>2. n \in Nodes /\ l \in LinksOf(n)
    BY <1>3, <1>o, <2>1 DEF DialSend, CallsOwned, CallOwned, CallsAssumption
  <2>3. UNCHANGED <<open, reader>> /\ RawCalm /\ NoBacks
    BY <1>3, RawSame DEF DialSend, NoBacks
  <2>4. CASE wire' = Sent(wire, n, l, Dial(s, k, Tail(Route[k]))) /\ UNCHANGED table
    <3>1. WireFlow(W, V, wire)'
      BY <1>o, <2>2, <2>3, <2>4, FrameForms, FlowSent, FlowNow
    <3> QED BY <2>3, <2>4, <3>1, TableSame, CalmOther
  <2>5. CASE table' = [table EXCEPT ![n] = RemoveTable(n, Channel(l), s)] /\ UNCHANGED wire
    BY <1>o, <2>2, <2>3, <2>5, TableLess, FlowNow, CalmOther
  <2> QED BY <1>3, <2>1, <2>4, <2>5 DEF DialSend
<1> QED BY <1>1, <1>2, <1>3 DEF CallSteps

\* procDial.
LEMMA DialFramesFlow ==
    ASSUME IdsAssumption, LinksAssumption, CallsAssumption, OneWay, TypeOK, HopInv,
           NEW H, NEW Z, Owned(H, Z), NEW W, NEW V, Flow(H, Z, W, V),
           NEW n \in Nodes, NEW l \in LinksOf(n),
           \/ ProcDialRefuse(n, l) \/ ProcDialLast(n, l) \/ ProcDialSelect(n, l)
           \/ ProcDialAdd(n, l) \/ ProcDialSend(n, l)
    PROVE  FlowAfter(H, Z)
<1>o. /\ History(H) /\ AllDrawn(H) /\ AllPlaced(H, Z) /\ Staged(H, Z) /\ ReadersOwned(H, Z)
      /\ WireFlow(W, V, wire) /\ wire \in Wires
  BY DEF Owned, Flow, TypeOK
<1>l. l \in Links /\ Channel(l) \in DOMAIN reader[n]
  BY PeerFacts DEF TypeOK, Readers
<1>t. HasFrame(n, l, "dial") => /\ Taken(n, l) \in Wires /\ WireFlow(W, V, Taken(n, l))
                                /\ ~Acting(n, Channel(l), "data")
  BY <1>l, <1>o, TakenType, FlowTaken, NotActing
<1>1. ASSUME ProcDialRefuse(n, l) PROVE FlowAfter(H, Z)
  <2>1. /\ Reply(n, l, Taken(n, l), DialBack(Head(wire[n][l]).sid, FALSE))
        /\ UNCHANGED open /\ RawCalm /\ TableCalm(W, V) /\ NoBacks /\ HasFrame(n, l, "dial")
    BY <1>1, RawSame, TableSame DEF ProcDialRefuse, NoBacks
  <2>2. DialBack(Head(wire[n][l]).sid, FALSE).cmd # "data"
    BY FrameForms
  <2> QED BY <1>t, <2>1, <2>2, CalmReply
<1>2. ASSUME ProcDialLast(n, l) PROVE FlowAfter(H, Z)
  <2>1. /\ wire' = Taken(n, l) /\ UNCHANGED <<open, reader>> /\ RawCalm /\ TableCalm(W, V)
        /\ HasFrame(n, l, "dial")
    BY <1>2, RawSame, TableSame DEF ProcDialLast
  <2>2. NoBacks
    <3>1. PICK f, d : /\ f = Head(wire[n][l])
                      /\ d = [pc |-> "dial", link |-> l, sid |-> f.sid, call |-> f.call]
      OBVIOUS
    <3>2. dialing' = [dialing EXCEPT ![n] = @ \cup {d}] /\ d.pc = "dial"
      BY <1>2, <3>1 DEF ProcDialLast
    <3> QED BY <3>2 DEF NoBacks, TypeOK
  <2> QED BY <1>t, <2>1, <2>2, FlowNow, CalmOther
<1>3. ASSUME ProcDialSelect(n, l) PROVE FlowAfter(H, Z)
  <2>1. /\ wire' = Taken(n, l) /\ UNCHANGED open /\ RawCalm /\ TableCalm(W, V)
        /\ HasFrame(n, l, "dial") /\ NoBacks
    BY <1>3, RawSame, TableSame DEF ProcDialSelect, NoBacks
  <2>2. PICK x : Goto(n, Channel(l), x) /\ x.pc = "add"
    BY <1>3 DEF ProcDialSelect
  <2> QED BY <1>l, <1>t, <2>1, <2>2, FlowNow, CalmGoto
<1>4. ASSUME ProcDialAdd(n, l) PROVE FlowAfter(H, Z)
  <2>1. PICK r, f, d, s, e : /\ r = reader[n][Channel(l)] /\ f = r.frame /\ d = r.dst
                             /\ s = NextSid(n)
                             /\ e = Entry(Channel(l), f.sid, Channel(d), s, f.call)
    OBVIOUS
  <2>2. r.pc = "add" /\ ~Acting(n, Channel(l), "data")
    BY <1>4, <2>1 DEF ProcDialAdd, Acting
  <2>3. /\ f.sid \in Nat /\ Up(n, l) /\ d \in LinksOf(n) /\ Down(n, d) /\ d # l
        /\ Stage(Z, l, f.sid) = "add"
    BY ONLY LinksAssumption, CallsAssumption, OneWay, TypeOK, n \in Nodes, l \in LinksOf(n),
            <2>1, <1>o, <2>2, RelayFacts
  <2>4. s \in Nat /\ <<n, s>> \notin DOMAIN H
    BY <1>o, <2>1, Fresh
  <2>5. Unused(W, V, n, d, s)
    BY <1>o, <2>3, <2>4, NewDown
  <2>6. Unused(W, V, n, l, f.sid)
    BY <1>o, <2>3, NewUp DEF Made
  <2>7. PICK x : Goto(n, Channel(l), x) /\ x.pc = "send"
    BY <1>4 DEF ProcDialAdd
  <2>8. /\ UNCHANGED <<open, wire>> /\ RawCalm /\ NoBacks
        /\ table' = [table EXCEPT ![n] = AddTable(n, e)]
    BY <1>4, <2>1, RawSame DEF ProcDialAdd, NoBacks
  <2>9. ReaderCalm
    BY <1>l, <2>2, <2>7, ReaderGoes
  <2>10. e.src = Channel(l) /\ e.ssid = f.sid /\ e.dst = Channel(d) /\ e.dsid = s
    BY <2>1, EntryFields
  <2>11. Through(W, V, n, e, e.src)' /\ Through(W, V, n, e, e.dst)'
    BY ONLY n \in Nodes, <2>3, <2>5, <2>6, <2>9, <2>10, ThroughNewRelay
  <2>12. TableCalm(W, V)
    BY <2>8, <2>11, TableMore
  <2> QED BY <1>l, <1>o, <2>2, <2>7, <2>8, <2>12, FlowNow, CalmGoto
<1>5. ASSUME ProcDialSend(n, l) PROVE FlowAfter(H, Z)
  <2>1. PICK r, f, d : r = reader[n][Channel(l)] /\ f = r.frame /\ d = r.dst
    OBVIOUS
  <2>2. r.pc = "send" /\ ~Acting(n, Channel(l), "data")
    BY <1>5, <2>1 DEF ProcDialSend, Acting
  <2>3. d \in LinksOf(n)
    BY ONLY LinksAssumption, CallsAssumption, OneWay, TypeOK, n \in Nodes, l \in LinksOf(n),
            <2>1, <1>o, <2>2, RelayFacts
  <2>4. UNCHANGED open /\ RawCalm /\ NoBacks
    BY <1>5, RawSame DEF ProcDialSend, NoBacks
  <2>5. CASE /\ wire' = Sent(wire, n, d, Dial(r.sid, f.call, Tail(f.route)))
             /\ Goto(n, Channel(l), Reading) /\ UNCHANGED table
    <3>1. WireFlow(W, V, wire)'
      BY <1>o, <2>3, <2>4, <2>5, FrameForms, FlowSent, FlowNow
    <3> QED BY <1>l, <2>2, <2>4, <2>5, <3>1, PlainStates, TableSame, CalmGoto
  <2>6. CASE /\ Reply(n, l, wire, DialBack(f.sid, FALSE))
             /\ table' = [table EXCEPT ![n] = RemoveTable(n, Channel(l), f.sid)]
    <3>1. DialBack(f.sid, FALSE).cmd # "data"
      BY FrameForms
    <3> QED BY <1>o, <2>2, <2>4, <2>6, <3>1, TableLess, CalmReply
  <2> QED BY <1>5, <2>1, <2>5, <2>6 DEF ProcDialSend
<1> QED BY <1>1, <1>2, <1>3, <1>4, <1>5

\* What a channel reader looks up is in the table.
LEMMA LookedUp ==
    ASSUME IdsAssumption, LinksAssumption, OneWay, HopInv, NEW H, NEW Z, Owned(H, Z),
           NEW n \in Nodes, NEW c \in Conns, Drawn(n, c), NEW s, NEW e \in Lookup(n, c, s)
    PROVE  InTable(n, e) /\ c \in {e.src, e.dst} /\ Recorded(H, n, e) /\ Matches(e, c, s)
<1>1. Recorded(H, n, e) /\ Matches(e, c, s)
  BY LookupOwned DEF Owned, HopInv
<1>2. InTable(n, e)
  BY DEF Lookup, InTable
<1> QED BY <1>1, <1>2 DEF Matches

\* procDialBack.
LEMMA DialBackFramesFlow ==
    ASSUME IdsAssumption, LinksAssumption, CallsAssumption, OneWay, TypeOK, HopInv,
           NEW H, NEW Z, Owned(H, Z), NEW W, NEW V, Flow(H, Z, W, V),
           NEW n \in Nodes, NEW l \in LinksOf(n),
           \/ ProcDialBack(n, l) \/ DialBackUnknown(n, l)
           \/ DialBackFailed(n, l) \/ DialBackForward(n, l)
    PROVE  FlowAfter(H, Z)
<1>o. History(H) /\ WireFlow(W, V, wire) /\ wire \in Wires
  BY DEF Owned, Flow, TypeOK
<1>l. /\ l \in Links /\ Channel(l) \in DOMAIN reader[n] /\ Channel(l) \in Conns
      /\ Drawn(n, Channel(l)) /\ Channel(l).link = l
  BY PeerFacts, ConnFacts DEF TypeOK, Readers, Conns, Drawn
<1>a. PICK c, r : c = Channel(l) /\ r = reader[n][Channel(l)]
  OBVIOUS
<1>d. Acting(n, Channel(l), "dialback") =>
        /\ ~Acting(n, c, "data") /\ r.frame \in Frames /\ r.frame.cmd = "dialback"
        /\ \A e \in r.router : Recorded(H, n, e) /\ Matches(e, c, r.frame.sid)
  BY <1>a, <1>l, AnswerFacts, FoundType DEF Acting, AnswerHere
<1>1. ASSUME ProcDialBack(n, l) PROVE FlowAfter(H, Z)
  <2>1. PICK f, x : f = Head(wire[n][l]) /\ x = Found(f, Lookup(n, Channel(l), f.sid))
    OBVIOUS
  <2>2. /\ HasFrame(n, l, "dialback") /\ Goto(n, c, x) /\ wire' = Taken(n, l)
        /\ UNCHANGED open /\ RawCalm /\ TableCalm(W, V) /\ NoBacks
    BY <1>1, <1>a, <2>1, RawSame, TableSame DEF ProcDialBack, NoBacks
  <2>3. x.frame.cmd = "dialback" /\ x.router = Lookup(n, c, f.sid)
    BY <1>a, <2>1, <2>2, PlainStates DEF HasFrame
  <2>4. \A e \in x.router : InTable(n, e) /\ c \in {e.src, e.dst}
    BY <1>a, <1>l, <2>3, LookedUp
  <2>5. WireFlow(W, V, wire)'
    BY <1>o, <2>2, FlowTaken, FlowNow
  <2>6. ~Acting(n, c, "data")
    BY <1>a, <2>2, NotActing
  <2> QED BY <1>a, <1>l, <2>2, <2>3, <2>4, <2>5, <2>6, CalmGoto
<1>2. ASSUME DialBackUnknown(n, l) PROVE FlowAfter(H, Z)
  <2>1. /\ Reply(n, l, wire, Closed(r.frame.sid)) /\ Acting(n, Channel(l), "dialback")
        /\ UNCHANGED open /\ RawCalm /\ TableCalm(W, V) /\ NoBacks
    BY <1>2, <1>a, RawSame, TableSame DEF DialBackUnknown, NoBacks
  <2>2. Closed(r.frame.sid).cmd # "data"
    BY FrameForms
  <2> QED BY <1>a, <1>d, <1>o, <2>1, <2>2, CalmReply
<1>3. ASSUME DialBackFailed(n, l) PROVE FlowAfter(H, Z)
  <2>1. PICK t : /\ table' = [table EXCEPT ![n] = RemoveTable(n, c, r.frame.sid)]
                 /\ raw' = IF raw[n][t.sid].closed THEN raw
                           ELSE [raw EXCEPT ![n][t.sid].ready = TRUE, ![n][t.sid].failed = TRUE,
                                            ![n][t.sid].closed = TRUE]
    BY <1>3, <1>a DEF DialBackFailed
  <2>2. /\ Acting(n, Channel(l), "dialback") /\ Goto(n, c, Reading) /\ UNCHANGED <<open, wire>> /\ NoBacks
    BY <1>3, <1>a DEF DialBackFailed, NoBacks
  <2>3. RawCalm
    BY <2>1, RawSame, RawTold
  <2>4. TableCalm(W, V)
    BY <2>1, TableLess
  <2> QED BY <1>a, <1>d, <1>l, <1>o, <2>2, <2>3, <2>4, PlainStates, FlowNow, CalmGoto
<1>4. ASSUME DialBackForward(n, l) PROVE FlowAfter(H, Z)
  <2>1. PICK e, hop :
                 /\ e \in r.router /\ hop = NextHop(e, c) /\ hop.conn.type = "channel"
                 /\ \/ /\ wire' = Sent(wire, n, hop.conn.link, WithSid(r.frame, hop.sid))
                       /\ Goto(n, c, Reading)
                    \/ Reply(n, l, wire, Closed(r.frame.sid))
    BY <1>4, <1>a DEF DialBackForward
  <2>2. /\ Acting(n, Channel(l), "dialback") /\ UNCHANGED open /\ RawCalm /\ TableCalm(W, V) /\ NoBacks
    BY <1>4, RawSame, TableSame DEF DialBackForward, NoBacks
  <2>3. CASE /\ wire' = Sent(wire, n, hop.conn.link, WithSid(r.frame, hop.sid))
             /\ Goto(n, c, Reading)
    <3>1. WithSid(r.frame, hop.sid).cmd # "data"
      BY <1>d, <2>2, WithSidFacts
    <3>2. hop.conn.link \in LinksOf(n)
      <4>1. Recorded(H, n, e)
        BY <1>d, <2>1, <2>2
      <4>2. hop.conn \in {e.src, e.dst}
        BY <2>1 DEF NextHop
      <4>3. Genuine(H, n, e)
        BY <1>o, <4>1, RecordedAt
      <4> QED BY <2>1, <4>2, <4>3, Kinds, ConnFacts DEF RelayEntry
    <3>3. WireFlow(W, V, wire)'
      BY <1>o, <2>2, <2>3, <3>1, <3>2, FlowSent, FlowNow
    <3> QED BY <1>a, <1>d, <1>l, <2>2, <2>3, <3>3, PlainStates, CalmGoto
  <2>4. CASE Reply(n, l, wire, Closed(r.frame.sid))
    <3>1. Closed(r.frame.sid).cmd # "data"
      BY FrameForms
    <3> QED BY <1>a, <1>d, <1>o, <2>2, <2>4, <3>1, CalmReply
  <2> QED BY <2>1, <2>3, <2>4
<1> QED BY <1>1, <1>2, <1>3, <1>4

\* RawConn.Ready starts the reader of a raw connection that has sent nothing yet.
LEMMA DialBackReadyFlow ==
    ASSUME LinksAssumption, OneWay, TypeOK, NEW H, NEW Z, Owned(H, Z), NEW W, NEW V, Flow(H, Z, W, V),
           NEW n \in Nodes, NEW l \in LinksOf(n), DialBackReady(n, l)
    PROVE  FlowAfter(H, Z)
<1>n. n \in Nodes
  OBVIOUS
<1>1. PICK c, r, s : c = Channel(l) /\ r = reader[n][Channel(l)] /\ s = r.frame.sid
  OBVIOUS
<1>o. /\ History(H) /\ RawsOwned(H, Z) /\ RawsMade(H) /\ AllDialingOwned(H, Z)
      /\ V \in Counts /\ Grounded(H, Z, V)
      /\ WireFlow(W, V, wire) /\ ReaderFlow(W, V) /\ RawsStarted /\ Pending
  BY DEF Owned, Flow
<1>a. Acting(n, c, "dialback") /\ r.pc = "found" /\ r.frame.cmd = "dialback" /\ ~Acting(n, c, "data")
  BY <1>1 DEF DialBackReady, Acting
<1>2. /\ c \in DOMAIN reader[n] /\ Down(n, l) /\ Stage(Z, l, s) = "found"
      /\ \A e \in r.router : Recorded(H, n, e) /\ Matches(e, c, s)
  <2>2. AnswerHere(H, Z, n, l, c, r, s)
    BY <1>1, <1>a, AnswerFacts
  <2> QED BY <2>2 DEF AnswerHere
<1>3. PICK e \in r.router :
        /\ NextHop(e, c).conn.type = "raw"
        /\ table' = [table EXCEPT ![n] = AddTable(n, Entry(c, s, NextHop(e, c).conn,
                                                           NextHop(e, c).conn.sid, e.call))]
        /\ IF raw[n][NextHop(e, c).conn.sid].closed
           THEN Goto(n, c, Reading) /\ UNCHANGED raw
           ELSE /\ raw' = [raw EXCEPT ![n][NextHop(e, c).conn.sid].ready = TRUE]
                /\ reader' = [reader EXCEPT ![n] = Put(@, {c, NextHop(e, c).conn}, Reading)]
  BY <1>1 DEF DialBackReady
<1>4. /\ NextHop(e, c).conn = Raw(s) /\ NextHop(e, c).conn.sid = s
      /\ e.src = c /\ e.src.link = l /\ e.dst = Raw(s) /\ e.dsid = s /\ Recorded(H, n, e)
      /\ Entry(c, s, Raw(s), s, e.call) = e /\ e.ssid = s
  <2>1. Recorded(H, n, e) /\ Matches(e, Channel(l), s) /\ NextHop(e, Channel(l)).conn.type = "raw"
    BY <1>1, <1>2, <1>3
  <2>2. /\ NextHop(e, c).conn = Raw(s) /\ Raw(s).sid = s
        /\ e.src = c /\ e.src.link = l /\ e.dst = Raw(s) /\ e.dsid = s
        /\ Entry(c, s, Raw(s), s, e.call) = e
    BY <1>1, <1>2, <1>o, <2>1, CallerHop
  <2>3. e.ssid = s
    BY <2>2, EntryFields
  <2> QED BY <2>1, <2>2, <2>3
<1>5. /\ table' = [table EXCEPT ![n] = AddTable(n, e)]
      /\ IF raw[n][s].closed
         THEN Goto(n, c, Reading) /\ UNCHANGED raw
         ELSE /\ raw' = [raw EXCEPT ![n][s].ready = TRUE]
              /\ reader' = [reader EXCEPT ![n] = Put(@, {c, Raw(s)}, Reading)]
  BY <1>3, <1>4
<1>6. /\ UNCHANGED <<open, wire, dialing>> /\ NoBacks
  BY DEF DialBackReady, NoBacks
<1>7. EndsMade(n, e) /\ s \in Nat /\ s \in DOMAIN raw[n]
  <2>1. EndsMade(n, e) /\ e.dsid \in Nat
    BY <1>4, <1>o, EndsAreMade
  <2> QED BY <1>4, <2>1, ConnFacts DEF EndsMade
<1>8. raw[n][s].dialer /\ ~raw[n][s].ready /\ raw[n][s].sent = 0 /\ Raw(s) \notin DOMAIN reader[n]
  <2>1. RawOwned(H, Z, n, s, raw[n][s])
    BY <1>7, <1>o DEF RawsOwned
  <2>2. H[<<n, s>>] = e
    BY <1>4 DEF Recorded
  <2>3. raw[n][s].dialer /\ ~raw[n][s].ready
    BY <1>2, <1>4, <2>1, <2>2 DEF RawOwned
  <2>4. Raw(s) \notin DOMAIN reader[n]
    BY <1>o, <2>3, ConnFacts DEF RawsStarted
  <2>5. raw[n][s].sent \in Nat
    BY <1>7 DEF TypeOK, Maps, RawStates
  <2>6. ~(raw[n][s].sent > 0)
    BY <1>7, <1>o, <2>4 DEF RawsStarted
  <2> QED BY <2>3, <2>4, <2>5, <2>6
<1>9. V[n][l][s] = 0
  <2>1. V[n][l][s] \in Nat
    BY <1>7, <1>o, PeerFacts, CountType
  <2>2. ~Started(H, Z, n, l, s)
    BY <1>2, WayFacts DEF Started
  <2> QED BY <1>7, <1>o, <2>1, <2>2 DEF Grounded
<1>10. Through(W, V, n, e, e.src) /\ Through(W, V, n, e, e.dst)
  <2>1. Through(W, V, n, e, e.src)
    BY <1>1, <1>2, <1>3, <1>4, <1>a, <1>o DEF ReaderFlow
  <2>2. NextHop(e, e.dst) = [conn |-> c, sid |-> s] /\ SidAt(e, e.dst) = s
    <3>1. e.src # e.dst
      BY <1>4, <1>1, ConnFacts
    <3> QED BY <1>4, <3>1 DEF NextHop, SidAt
  <2>3. Arrived(W, n, e.dst, s) = 0 /\ Left(V, n, c, s) = 0 /\ ~Holding(n, e.dst, s)
    <3>1. e.dst = Raw(s) /\ Raw(s).type = "raw" /\ Raw(s).sid = s /\ c.type = "channel" /\ c.link = l
      BY <1>1, <1>4, ConnFacts
    <3>2. Arrived(W, n, e.dst, s) = 0
      BY <1>8, <3>1 DEF Arrived
    <3>3. Left(V, n, c, s) = 0
      BY <1>9, <3>1 DEF Left
    <3>4. ~Holding(n, e.dst, s)
      BY <1>8, <3>1 DEF Holding
    <3> QED BY <3>2, <3>3, <3>4
  <2>4. Through(W, V, n, e, e.dst)
    BY <2>2, <2>3 DEF Through
  <2> QED BY <2>1, <2>4
<1>11. WireFlow(W, V, wire)'
  BY <1>6, <1>o, FlowNow
<1>12. CASE raw[n][s].closed
  <2>1. RawCalm
    BY <1>5, <1>12, RawSame
  <2>2. ReaderCalm
    BY <1>2, <1>5, <1>12, <1>a, PlainStates, ReaderGoes
  <2>3. Through(W, V, n, e, e.src)' /\ Through(W, V, n, e, e.dst)'
    BY <1>7, <1>10, <2>1, <2>2, ThroughKept
  <2>4. TableCalm(W, V)
    BY <1>5, <2>3, TableMore
  <2> QED BY <1>2, <1>5, <1>6, <1>11, <1>12, <1>a, <2>1, <2>4, PlainStates, CalmGoto
<1>13. CASE ~raw[n][s].closed
  <2>1. RawCalm
    BY <1>5, <1>13, RawTold
  <2>2. s \in DOMAIN raw'[n] /\ raw'[n][s].ready
    BY <1>5, <1>7, <1>13 DEF TypeOK, Maps, RawStates
  <2>3. PICK cs : cs = {c, Raw(s)}
    OBVIOUS
  <2>4. reader' = [reader EXCEPT ![n] = Put(@, cs, Reading)]
    BY <1>5, <1>13, <2>3
  <2>5. \A x \in cs : ~(x \in DOMAIN reader[n] /\ Acting(n, x, "data"))
    BY <1>8, <1>a, <2>3
  <2>6. \A x \in cs : x.type = "raw" =>
          x.sid \in DOMAIN raw'[n] /\ (raw'[n][x.sid].dialer => raw'[n][x.sid].ready)
    BY <1>1, <2>2, <2>3, ConnFacts
  <2>7. /\ ReaderCalm /\ DOMAIN reader'[n] = DOMAIN reader[n] \cup cs
        /\ \A m \in Nodes : m # n => DOMAIN reader'[m] = DOMAIN reader[m]
    BY ONLY TypeOK, <1>n, <2>4, <2>5, <2>6, ReadersStart
  <2>8. Pending'
    <3>1. SUFFICES ASSUME NEW m \in Nodes, NEW d \in dialing'[m], d.pc = "back"
                   PROVE  d.raw \in DOMAIN raw'[m] /\ Raw(d.raw) \notin DOMAIN reader'[m]
      BY DEF Pending
    <3>2. d \in dialing[m] /\ d.raw \in DOMAIN raw[m] /\ Raw(d.raw) \notin DOMAIN reader[m]
      BY <1>6, <1>o, <3>1 DEF Pending
    <3>3. d.raw \in DOMAIN raw'[m]
      BY <2>1, <3>2 DEF RawCalm
    <3>4. ~(m = n /\ d.raw = s)
      <4>1. SUFFICES ASSUME m = n, d.raw = s PROVE FALSE
        OBVIOUS
      <4>2. Up(n, d.link) /\ H[<<n, s>>].src = Channel(d.link)
        BY <1>o, <3>1, <3>2, <4>1 DEF AllDialingOwned, DialingOwned
      <4>3. H[<<n, s>>] = e
        BY <1>4 DEF Recorded
      <4>4. d.link = l
        BY <1>1, <1>4, <4>2, <4>3, ConnFacts
      <4> QED BY <1>2, <4>2, <4>4, WayFacts
    <3>5. Raw(d.raw) # c /\ (m = n => Raw(d.raw) # Raw(s))
      BY <1>1, <3>4, ConnFacts
    <3> QED BY <2>3, <2>7, <3>2, <3>3, <3>5
  <2>9. Through(W, V, n, e, e.src)' /\ Through(W, V, n, e, e.dst)'
    BY <1>7, <1>10, <2>1, <2>7, ThroughKept
  <2>10. TableCalm(W, V)
    BY <1>5, <2>9, TableMore
  <2> QED BY <1>11, <2>1, <2>7, <2>8, <2>10, CalmStep
<1> QED BY <1>12, <1>13

\* A goroutine that dialed leaves.
LEMMA DialerGone ==
    ASSUME TypeOK, NEW n \in Nodes, NEW d, NEW D, dialing' = [dialing EXCEPT ![n] = (@ \ {d}) \cup D]
    PROVE  \A m \in Nodes : \A x \in dialing'[m] : (x \in dialing[m] /\ (m # n \/ x # d)) \/ (m = n /\ x \in D)
BY DEF TypeOK

\* procRawDial.
LEMMA DialStepsFlow ==
    ASSUME IdsAssumption, LinksAssumption, CallsAssumption, OneWay, TypeOK, HopInv,
           NEW H, NEW Z, Owned(H, Z), NEW W, NEW V, Flow(H, Z, W, V),
           NEW n \in Nodes, NEW d \in dialing[n], DialSteps(n, d)
    PROVE  FlowAfter(H, Z)
<1>n. n \in Nodes
  OBVIOUS
<1>o. /\ History(H) /\ AllDrawn(H) /\ AllPlaced(H, Z) /\ Staged(H, Z) /\ AllDialingOwned(H, Z)
      /\ RawsOwned(H, Z) /\ WireFlow(W, V, wire) /\ wire \in Wires /\ Pending
  BY DEF Owned, Flow, TypeOK
<1>1. PICK l, a : l = d.link /\ a = d.sid
  OBVIOUS
<1>2. /\ l \in LinksOf(n) /\ a \in Nat /\ Up(n, l)
      /\ d.pc = "dial" => Stage(Z, l, a) = "dial"
      /\ d.pc = "back" => Stage(Z, l, a) = "back"
  <2>1. DialingOwned(H, Z, n, d) /\ d \in Dialing
    BY <1>o DEF AllDialingOwned, TypeOK
  <2>2. d.sid \in Nat
    BY <2>1 DEF Dialing
  <2> QED BY <1>1, <2>1, <2>2 DEF DialingOwned
<1>3. ASSUME RawDialFail(n, d) PROVE FlowAfter(H, Z)
  <2>1. /\ wire' = Sent(wire, n, l, DialBack(a, FALSE)) /\ UNCHANGED <<open, reader>>
        /\ RawCalm /\ TableCalm(W, V)
    BY <1>1, <1>3, RawSame, TableSame DEF RawDialFail
  <2>2. WireFlow(W, V, wire)'
    BY <1>2, <1>o, <2>1, FrameForms, FlowSent, FlowNow
  <2>3. NoBacks
    <3>1. dialing' = [dialing EXCEPT ![n] = (@ \ {d}) \cup {}]
      BY <1>3 DEF RawDialFail
    <3> QED BY <3>1, DialerGone DEF NoBacks
  <2> QED BY <2>1, <2>2, <2>3, CalmOther
<1>4. ASSUME RawDialAdd(n, d) PROVE FlowAfter(H, Z)
  <2>1. PICK s, e, x : /\ s = NextSid(n) /\ e = Entry(Channel(l), a, Raw(s), s, d.call)
                       /\ x = [pc |-> "back", link |-> l, sid |-> a, raw |-> s]
    OBVIOUS
  <2>2. /\ raw' = [raw EXCEPT ![n] = Put(@, {s}, NewRaw(d.call, FALSE))]
        /\ table' = [table EXCEPT ![n] = AddTable(n, e)] /\ d.pc = "dial"
        /\ dialing' = [dialing EXCEPT ![n] = (@ \ {d}) \cup {x}]
        /\ UNCHANGED <<open, wire, reader>>
    BY <1>1, <1>4, <2>1 DEF RawDialAdd
  <2>3. s \in Nat /\ <<n, s>> \notin DOMAIN H
    BY <1>o, <2>1, Fresh
  <2>4. s \notin DOMAIN raw[n] /\ Raw(s) \notin DOMAIN reader[n]
    BY <2>3, NewRawId
  <2>5. Unused(W, V, n, l, a)
    BY <1>2, <1>o, <2>2, NewUp DEF Made
  <2>6. RawCalm /\ s \in DOMAIN raw'[n] /\ raw'[n][s].got = <<>> /\ raw'[n][s].sent = 0
    BY <2>2, <2>4, RawNew
  <2>7. e.src = Channel(l) /\ e.ssid = a /\ e.dst = Raw(s) /\ e.dsid = s
    BY <2>1, EntryFields
  <2>8. Through(W, V, n, e, e.src)' /\ Through(W, V, n, e, e.dst)'
    <3>1. ReaderCalm
      BY <2>2, ReaderSame
    <3> QED BY ONLY <1>n, <2>4, <2>5, <2>6, <2>7, <3>1, ThroughNewRaw
  <2>9. TableCalm(W, V)
    BY <2>2, <2>8, TableMore
  <2>10. Pending'
    <3>1. ASSUME NEW m \in Nodes, NEW y \in dialing'[m], y.pc = "back"
          PROVE  y.raw \in DOMAIN raw'[m] /\ Raw(y.raw) \notin DOMAIN reader'[m]
      <4>1. y \in dialing[m] \/ (m = n /\ y = x)
        BY <2>2, <3>1, DialerGone
      <4>2. CASE y \in dialing[m]
        <5>1. y.raw \in DOMAIN raw[m] /\ Raw(y.raw) \notin DOMAIN reader[m]
          BY <1>o, <3>1, <4>2 DEF Pending
        <5> QED BY <2>2, <2>6, <5>1 DEF RawCalm
      <4>3. CASE m = n /\ y = x
        <5>1. y.raw = s
          BY <2>1, <4>3
        <5> QED BY <2>2, <2>4, <2>6, <4>3, <5>1
      <4> QED BY <4>1, <4>2, <4>3
    <3> QED BY <3>1 DEF Pending
  <2>11. WireFlow(W, V, wire)' /\ ReaderCalm
    BY <1>o, <2>2, FlowNow, ReaderSame
  <2> QED BY <2>6, <2>9, <2>10, <2>11, CalmStep
<1>5. ASSUME RawDialBack(n, d) PROVE FlowAfter(H, Z)
  <2>1. /\ d.pc = "back" /\ UNCHANGED open
        /\ dialing' = [dialing EXCEPT ![n] = (@ \ {d}) \cup {}]
    BY <1>5 DEF RawDialBack
  <2>2. \A m \in Nodes : \A x \in dialing'[m] : x \in dialing[m] /\ (m # n \/ x # d)
    <3>1. PICK D : (\A x : x \notin D) /\ dialing' = [dialing EXCEPT ![n] = (@ \ {d}) \cup D]
      BY <2>1
    <3>2. \A m \in Nodes : \A x \in dialing'[m] :
            (x \in dialing[m] /\ (m # n \/ x # d)) \/ (m = n /\ x \in D)
      BY ONLY TypeOK, <1>n, <3>1, DialerGone
    <3> QED BY ONLY <3>1, <3>2
  <2>3. NoBacks
    BY <2>2 DEF NoBacks
  <2>4. CASE /\ wire' = Sent(wire, n, l, DialBack(a, TRUE))
             /\ reader' = [reader EXCEPT ![n] = Put(@, {Raw(d.raw)}, Reading)]
             /\ UNCHANGED <<raw, table>>
    <3>1. RawCalm /\ TableCalm(W, V)
      BY <2>4, RawSame, TableSame
    <3>2. WireFlow(W, V, wire)'
      BY <1>2, <1>o, <2>1, <2>4, FrameForms, FlowSent, FlowNow
    <3>3. PICK s, cs : s = d.raw /\ cs = {Raw(s)}
      OBVIOUS
    <3>4. s \in DOMAIN raw[n] /\ Raw(s) \notin DOMAIN reader[n]
      BY <1>o, <2>1, <3>3 DEF Pending
    <3>5. <<n, s>> \in DOMAIN H /\ H[<<n, s>>].src = Channel(l) /\ H[<<n, s>>].ssid = a
      BY <1>1, <1>o, <2>1, <3>3 DEF AllDialingOwned, DialingOwned
    <3>6. ~raw[n][s].dialer
      <4>1. RawOwned(H, Z, n, s, raw[n][s])
        BY <1>o, <3>4 DEF RawsOwned
      <4>2. ~Down(n, l)
        BY <1>2, WayFacts
      <4> QED BY <3>5, <4>1, <4>2, ConnFacts DEF RawOwned
    <3>7. reader' = [reader EXCEPT ![n] = Put(@, cs, Reading)]
      BY <2>4, <3>3
    <3>8. \A x \in cs : ~(x \in DOMAIN reader[n] /\ Acting(n, x, "data"))
      BY <3>3, <3>4
    <3>9. \A x \in cs : x.type = "raw" =>
            x.sid \in DOMAIN raw'[n] /\ (raw'[n][x.sid].dialer => raw'[n][x.sid].ready)
      BY <2>4, <3>3, <3>4, <3>6, ConnFacts
    <3>10. /\ ReaderCalm /\ DOMAIN reader'[n] = DOMAIN reader[n] \cup cs
           /\ \A m \in Nodes : m # n => DOMAIN reader'[m] = DOMAIN reader[m]
      BY ONLY TypeOK, <1>n, <3>7, <3>8, <3>9, ReadersStart
    <3>11. Pending'
      <4>1. SUFFICES ASSUME NEW m \in Nodes, NEW y \in dialing'[m], y.pc = "back"
                     PROVE  y.raw \in DOMAIN raw'[m] /\ Raw(y.raw) \notin DOMAIN reader'[m]
        BY DEF Pending
      <4>2. y \in dialing[m] /\ y.raw \in DOMAIN raw[m] /\ Raw(y.raw) \notin DOMAIN reader[m]
        BY <1>o, <2>2, <4>1 DEF Pending
      <4>3. ~(m = n /\ y.raw = s)
        <5>1. SUFFICES ASSUME m = n, y.raw = s PROVE FALSE
          OBVIOUS
        <5>2. H[<<n, s>>].src = Channel(y.link) /\ H[<<n, s>>].ssid = y.sid
          BY <1>o, <4>1, <4>2, <5>1 DEF AllDialingOwned, DialingOwned
        <5>3. y.link = d.link /\ y.sid = d.sid
          BY <1>1, <3>5, <5>2, ConnFacts
        <5>4. y \in Dialing /\ d \in Dialing /\ y # d
          BY <2>2, <4>2, <5>1 DEF TypeOK
        <5>5. y \in [pc : {"back"}, link : Links, sid : Nat, raw : Nat]
          BY <4>1, <5>4 DEF Dialing
        <5>6. d \in [pc : {"back"}, link : Links, sid : Nat, raw : Nat]
          BY <2>1, <5>4 DEF Dialing
        <5>7. y.raw = d.raw /\ y.pc = d.pc
          BY <2>1, <3>3, <4>1, <5>1
        <5> QED BY ONLY <5>3, <5>4, <5>5, <5>6, <5>7
      <4>4. m = n => Raw(y.raw) # Raw(s)
        BY <4>3, ConnFacts
      <4> QED BY <2>4, <3>3, <3>10, <4>2, <4>4
    <3> QED BY <3>1, <3>2, <3>10, <3>11, CalmStep
  <2>5. CASE /\ raw' = CloseRaws(n, {d.raw})
             /\ table' = [table EXCEPT ![n] = RemoveTable(n, Channel(l), a)]
             /\ UNCHANGED <<wire, reader>>
    BY <1>o, <2>1, <2>3, <2>5, RawShut, TableLess, FlowNow, CalmOther
  <2> QED BY <1>1, <1>5, <2>4, <2>5 DEF RawDialBack
<1> QED BY <1>3, <1>4, <1>5 DEF DialSteps

\* procClosed.
LEMMA ClosedFramesFlow ==
    ASSUME IdsAssumption, LinksAssumption, CallsAssumption, OneWay, TypeOK, HopInv,
           NEW H, NEW Z, Owned(H, Z), NEW W, NEW V, Flow(H, Z, W, V),
           NEW n \in Nodes, NEW l \in LinksOf(n), ProcClosed(n, l) \/ ForwardClosed(n, l)
    PROVE  FlowAfter(H, Z)
<1>o. History(H) /\ WireFlow(W, V, wire) /\ wire \in Wires
  BY DEF Owned, Flow, TypeOK
<1>l. /\ l \in Links /\ Channel(l) \in DOMAIN reader[n] /\ Channel(l) \in Conns
      /\ Drawn(n, Channel(l)) /\ Channel(l).link = l
  BY PeerFacts, ConnFacts DEF TypeOK, Readers, Conns, Drawn
<1>a. PICK c, r : c = Channel(l) /\ r = reader[n][Channel(l)]
  OBVIOUS
<1>1. ASSUME ProcClosed(n, l) PROVE FlowAfter(H, Z)
  <2>1. PICK f, R, x : /\ f = Head(wire[n][l]) /\ R = Lookup(n, Channel(l), f.sid)
                       /\ x = IF R = {} THEN Reading ELSE Found(f, R)
    OBVIOUS
  <2>2. /\ HasFrame(n, l, "closed") /\ Goto(n, c, x) /\ wire' = Taken(n, l)
        /\ UNCHANGED open /\ RawCalm /\ NoBacks
        /\ table' = [table EXCEPT ![n] = RemoveTable(n, c, f.sid)]
    BY <1>1, <1>a, <2>1, RawSame DEF ProcClosed, NoBacks, Goto
  <2>3. TableCalm(W, V)
    BY <2>2, TableLess
  <2>4. f.cmd = "closed" /\ (x.pc = "found" => x.frame = f /\ x.router = Lookup(n, c, f.sid))
    BY <1>a, <2>1, <2>2, PlainStates DEF HasFrame
  <2>5. \A e \in Lookup(n, c, f.sid) : InTable(n, e) /\ c \in {e.src, e.dst}
    BY <1>a, <1>l, LookedUp
  <2>6. WireFlow(W, V, wire)'
    BY <1>o, <2>2, FlowTaken, FlowNow
  <2>7. ~Acting(n, c, "data")
    BY <1>a, <2>2, NotActing
  <2> QED BY <1>a, <1>l, <2>2, <2>3, <2>4, <2>5, <2>6, <2>7, CalmGoto
<1>2. ASSUME ForwardClosed(n, l) PROVE FlowAfter(H, Z)
  <2>1. Acting(n, c, "closed") /\ ~Acting(n, c, "data")
    BY <1>2, <1>a DEF ForwardClosed, Acting
  <2>2. /\ r.frame \in Frames /\ r.frame.cmd = "closed"
        /\ \A e \in r.router : Recorded(H, n, e) /\ Matches(e, c, r.frame.sid)
    <3>1. Acting(n, Channel(l), "closed") /\ r = reader[n][c]
      BY <1>a, <2>1
    <3> QED BY ONLY TypeOK, Owned(H, Z), n \in Nodes, l \in LinksOf(n), <1>a, <3>1, ClosingFacts
  <2>3. PICK e, hop :
          /\ e \in r.router /\ hop = NextHop(e, c)
          /\ IF hop.conn.type = "raw"
             THEN raw' = CloseRaws(n, {hop.conn.sid}) /\ UNCHANGED wire
             ELSE /\ wire' = Sent(wire, n, hop.conn.link, WithSid(r.frame, hop.sid))
                  /\ UNCHANGED raw
    BY <1>2, <1>a DEF ForwardClosed
  <2>4. Goto(n, c, Reading) /\ UNCHANGED open /\ TableCalm(W, V) /\ NoBacks
    BY <1>2, <1>a, TableSame DEF ForwardClosed, NoBacks
  <2>5. CASE hop.conn.type = "raw"
    <3>1. RawCalm
      BY <2>3, <2>5, RawShut
    <3>2. WireFlow(W, V, wire)'
      BY <1>o, <2>3, <2>4, <2>5, FlowNow
    <3> QED BY <1>a, <1>l, <2>1, <2>4, <3>1, <3>2, PlainStates, CalmGoto
  <2>6. CASE hop.conn.type # "raw"
    <3>1. WithSid(r.frame, hop.sid).cmd # "data"
      BY <2>2, WithSidFacts
    <3>2. hop.conn.link \in LinksOf(n)
      <4>1. Recorded(H, n, e)
        BY <2>2, <2>3
      <4>2. hop.conn \in {e.src, e.dst}
        BY <2>3 DEF NextHop
      <4>3. Genuine(H, n, e)
        BY <1>o, <4>1, RecordedAt
      <4> QED BY <2>6, <4>2, <4>3, Kinds, ConnFacts DEF RelayEntry
    <3>3. WireFlow(W, V, wire)' /\ RawCalm
      BY <1>o, <2>3, <2>4, <2>6, <3>1, <3>2, FlowSent, FlowNow, RawSame
    <3> QED BY <1>a, <1>l, <2>1, <2>4, <3>3, PlainStates, CalmGoto
  <2> QED BY <2>5, <2>6
<1> QED BY <1>1, <1>2

\* A channel end is closed; what is on its way to it may be dropped.
LEMMA EndShut ==
    ASSUME LinksAssumption, TypeOK, NEW W \in Counts, NEW V \in Counts, WireFlow(W, V, wire),
           NEW n \in Nodes, NEW l, open' = [open EXCEPT ![n][l] = FALSE],
           wire' = wire \/ wire' = [wire EXCEPT ![n][l] = <<>>]
    PROVE  WireFlow(W, V, wire)'
<1>1. \A m \in Nodes : \A j \in Links : /\ open'[m][j] => open[m][j]
                                        /\ m = n /\ j = l => ~open'[m][j]
  BY DEF TypeOK
<1>2. \A m \in Nodes : \A j \in Links :
        wire'[m][j] = wire[m][j] \/ (m = n /\ j = l /\ wire'[m][j] = <<>>)
  <2>1. wire \in Wires
    BY DEF TypeOK
  <2>2. CASE wire' = wire
    BY <2>2
  <2>3. CASE wire' = [wire EXCEPT ![n][l] = <<>>]
    BY <2>1, <2>3 DEF Wires
  <2> QED BY <2>2, <2>3
<1>3. ASSUME NEW m \in Nodes, NEW j \in LinksOf(m)
      PROVE  /\ BothOpen(m, j)' => BothOpen(m, j)
             /\ wire'[m][j] = wire[m][j] \/ (wire'[m][j] = <<>> /\ ~BothOpen(m, j)')
  <2>1. j \in Links /\ Peer(m, j) \in Nodes
    BY PeerFacts
  <2>2. open'[Peer(m, j)][j] => open[Peer(m, j)][j]
    BY <1>1, <2>1
  <2> QED BY <1>1, <1>2, <2>1, <2>2 DEF BothOpen
<1> QED BY <1>3, FlowShut

\* The end of a reader of a channel.
LEMMA ExitFlow ==
    ASSUME LinksAssumption, OneWay, TypeOK, NEW H, NEW Z, Owned(H, Z), NEW W, NEW V, Flow(H, Z, W, V),
           NEW n \in Nodes, NEW l \in LinksOf(n), ExitSteps(n, l)
    PROVE  FlowAfter(H, Z)
<1>o. /\ History(H) /\ TablesOwned(H) /\ W \in Counts /\ V \in Counts /\ WireFlow(W, V, wire) /\ wire \in Wires
  BY DEF Owned, Flow, TypeOK
<1>1. PICK c, r : c = Channel(l) /\ r = reader[n][Channel(l)]
  OBVIOUS
<1>0. c \in DOMAIN reader[n]
  BY <1>1 DEF TypeOK, Readers
<1>a. r.pc # "found" => ~Acting(n, c, "data")
  BY <1>1 DEF Acting
<1>2. ASSUME ReadFail(n, l) PROVE FlowAfter(H, Z)
  <2>1. /\ r.pc = "read" /\ Goto(n, c, Stopping) /\ UNCHANGED <<open, wire>>
        /\ RawCalm /\ TableCalm(W, V) /\ NoBacks
    BY <1>1, <1>2, RawSame, TableSame DEF ReadFail, NoBacks
  <2> QED BY <1>0, <1>a, <1>o, <2>1, PlainStates, FlowNow, CalmGoto
<1>3. ASSUME CloseChannel(n, l) PROVE FlowAfter(H, Z)
  <2>1. PICK x : x.pc = "unregister" /\ Goto(n, c, x)
    <3>1. PICK x : x = [pc |-> "unregister"]
      OBVIOUS
    <3> QED BY <1>1, <1>3, <3>1 DEF CloseChannel
  <2>2. /\ r.pc = "stop" /\ open' = [open EXCEPT ![n][l] = FALSE] /\ wire' = [wire EXCEPT ![n][l] = <<>>]
        /\ RawCalm /\ TableCalm(W, V) /\ NoBacks
    BY <1>1, <1>3, RawSame, TableSame DEF CloseChannel, NoBacks
  <2>3. WireFlow(W, V, wire)'
    BY <1>o, <2>2, EndShut
  <2> QED BY <1>0, <1>a, <2>1, <2>2, <2>3, CalmGoto
<1>4. ASSUME Unregister(n, l) PROVE FlowAfter(H, Z)
  <2>1. PICK x : x.pc = "purge" /\ Goto(n, c, x)
    <3>1. PICK x : x = [pc |-> "purge", running |-> {}, todo |-> Touched(n, c)]
      OBVIOUS
    <3> QED BY <1>1, <1>4, <3>1 DEF Unregister
  <2>2. /\ r.pc = "unregister" /\ UNCHANGED <<open, wire>>
        /\ RawCalm /\ TableCalm(W, V) /\ NoBacks
    BY <1>1, <1>4, RawSame, TableSame DEF Unregister, NoBacks
  <2> QED BY <1>0, <1>a, <1>o, <2>1, <2>2, FlowNow, CalmGoto
<1>5. ASSUME PurgeEntry(n, l) PROVE FlowAfter(H, Z)
  <2>1. PICK k, hop :
          /\ k \in r.todo \cap DOMAIN table[n] /\ hop = NextHop(table[n][k], c)
          /\ wire' = IF hop.conn.type = "raw" THEN wire ELSE Sent(wire, n, hop.conn.link, Closed(hop.sid))
          /\ table' = [table EXCEPT ![n] = RemoveTable(n, hop.conn, hop.sid)]
          /\ Goto(n, c, [r EXCEPT !.todo = @ \ {k},
                                  !.running = IF hop.conn.type = "raw" THEN @ \cup {hop.conn.sid} ELSE @])
    BY <1>1, <1>5 DEF PurgeEntry
  <2>2. PICK x : x = [r EXCEPT !.todo = @ \ {k},
                               !.running = IF hop.conn.type = "raw" THEN @ \cup {hop.conn.sid} ELSE @]
    OBVIOUS
  <2>3. r.pc = "purge" /\ UNCHANGED open /\ RawCalm /\ NoBacks
    BY <1>1, <1>5, RawSame DEF PurgeEntry, NoBacks
  <2>4. x.pc = "purge"
    <3>1. r \in ReaderStates
      BY <1>0, <1>1 DEF TypeOK, Readers, Maps
    <3>2. r \in [pc : {"purge"}, todo : SUBSET Keys, running : SUBSET Nat]
      BY <2>3, <3>1 DEF ReaderStates
    <3> QED BY <2>2, <3>2
  <2>5. Goto(n, c, x) /\ TableCalm(W, V)
    BY <2>1, <2>2, TableLess
  <2>6. WireFlow(W, V, wire)'
    <3>1. CASE hop.conn.type = "raw"
      BY <1>o, <2>1, <2>3, <3>1, FlowNow
    <3>2. CASE hop.conn.type # "raw"
      <4>1. PICK d, e : d = hop.conn.link /\ e = table[n][k]
        OBVIOUS
      <4>2. Recorded(H, n, e)
        BY <2>1, <1>o, <4>1 DEF TablesOwned
      <4>3. Genuine(H, n, e) /\ hop.conn \in {e.src, e.dst}
        BY <2>1, <1>o, <4>1, <4>2, RecordedAt DEF NextHop
      <4>4. d \in LinksOf(n)
        BY <3>2, <4>1, <4>3, Kinds, ConnFacts DEF RelayEntry
      <4>5. Closed(hop.sid).cmd # "data" /\ wire' = Sent(wire, n, d, Closed(hop.sid))
        BY <2>1, <3>2, <4>1, FrameForms
      <4> QED BY <1>o, <2>3, <4>4, <4>5, FlowSent, FlowNow
    <3> QED BY <3>1, <3>2
  <2> QED BY <1>0, <1>a, <2>3, <2>4, <2>5, <2>6, CalmGoto
<1>6. ASSUME PurgeDone(n, l) PROVE FlowAfter(H, Z)
  <2>1. PICK x : x.pc = "running" /\ Goto(n, c, x)
    <3>1. PICK x : x = [pc |-> "running", running |-> r.running]
      OBVIOUS
    <3> QED BY <1>1, <1>6, <3>1 DEF PurgeDone
  <2>2. /\ r.pc = "purge" /\ UNCHANGED <<open, wire>>
        /\ RawCalm /\ TableCalm(W, V) /\ NoBacks
    BY <1>1, <1>6, RawSame, TableSame DEF PurgeDone, NoBacks
  <2> QED BY <1>0, <1>a, <1>o, <2>1, <2>2, FlowNow, CalmGoto
<1>7. ASSUME CloseRunning(n, l) PROVE FlowAfter(H, Z)
  <2>1. PICK x : x.pc = "done" /\ Goto(n, c, x)
    <3>1. PICK x : x = [pc |-> "done"]
      OBVIOUS
    <3> QED BY <1>1, <1>7, <3>1 DEF CloseRunning
  <2>2. /\ r.pc = "running" /\ UNCHANGED <<open, wire>>
        /\ RawCalm /\ TableCalm(W, V) /\ NoBacks
    BY <1>1, <1>7, RawShut, TableSame DEF CloseRunning, NoBacks
  <2> QED BY <1>0, <1>a, <1>o, <2>1, <2>2, FlowNow, CalmGoto
<1> QED BY <1>2, <1>3, <1>4, <1>5, <1>6, <1>7 DEF ExitSteps

\* The end of a reader of a raw connection.
LEMMA RawExitFlow ==
    ASSUME IdsAssumption, LinksAssumption, OneWay, TypeOK, HopInv,
           NEW H, NEW Z, Owned(H, Z), NEW W, NEW V, Flow(H, Z, W, V),
           NEW n \in Nodes, NEW s \in DOMAIN raw[n], Raw(s) \in DOMAIN reader[n],
           RawReadFail(n, s) \/ RawEnd(n, s) \/ CloseRaw(n, s) \/ RemoveRaw(n, s)
    PROVE  FlowAfter(H, Z)
<1>o. /\ History(H) /\ RawsOwned(H, Z) /\ WireFlow(W, V, wire) /\ wire \in Wires
  BY DEF Owned, Flow, TypeOK
<1>1. PICK c, r : c = Raw(s) /\ r = reader[n][Raw(s)]
  OBVIOUS
<1>a. r.pc # "found" => ~Acting(n, c, "data")
  BY <1>1 DEF Acting
<1>2. ASSUME RawReadFail(n, s) \/ RawEnd(n, s) PROVE FlowAfter(H, Z)
  <2>1. /\ r.pc = "read" /\ Goto(n, c, Stopping) /\ UNCHANGED <<open, wire>>
        /\ RawCalm /\ TableCalm(W, V) /\ NoBacks
    BY <1>1, <1>2, RawSame, TableSame DEF RawReadFail, RawEnd, NoBacks
  <2> QED BY <1>1, <1>a, <1>o, <2>1, PlainStates, FlowNow, CalmGoto
<1>3. ASSUME CloseRaw(n, s) PROVE FlowAfter(H, Z)
  <2>1. PICK x : x.pc = "remove" /\ Goto(n, c, x)
    <3>1. PICK x : x = [pc |-> "remove"]
      OBVIOUS
    <3> QED BY <1>1, <1>3, <3>1 DEF CloseRaw
  <2>2. /\ r.pc = "stop" /\ UNCHANGED <<open, wire>>
        /\ RawCalm /\ TableCalm(W, V) /\ NoBacks
    BY <1>1, <1>3, RawShut, TableSame DEF CloseRaw, NoBacks
  <2> QED BY <1>1, <1>a, <1>o, <2>1, <2>2, FlowNow, CalmGoto
<1>4. ASSUME RemoveRaw(n, s) PROVE FlowAfter(H, Z)
  <2>1. PICK x : x.pc = "done" /\ Goto(n, c, x)
    <3>1. PICK x : x = [pc |-> "done"]
      OBVIOUS
    <3> QED BY <1>1, <1>4, <3>1 DEF RemoveRaw
  <2>2. /\ r.pc = "remove" /\ UNCHANGED open /\ RawCalm /\ NoBacks
        /\ table' = [table EXCEPT ![n] = RemoveTable(n, c, s)]
    BY <1>1, <1>4, RawSame DEF RemoveRaw, NoBacks
  <2>3. TableCalm(W, V)
    BY <2>2, TableLess
  <2>4. PICK R : R = Lookup(n, c, s)
    OBVIOUS
  <2>5. WireFlow(W, V, wire)'
    <3>1. CASE R = {}
      <4>1. UNCHANGED wire
        BY <1>1, <1>4, <2>4, <3>1 DEF RemoveRaw
      <4> QED BY <1>o, <2>2, <4>1, FlowNow
    <3>2. CASE R # {}
      <4>1. PICK e, hop : e = (CHOOSE g \in R : TRUE) /\ hop = NextHop(e, c)
        OBVIOUS
      <4>2. e \in R
        BY <3>2, <4>1
      <4>3. wire' = Sent(wire, n, hop.conn.link, Closed(hop.sid))
        BY <1>1, <1>4, <2>4, <3>2, <4>1 DEF RemoveRaw
      <4>4. Recorded(H, n, e) /\ Matches(e, c, s)
        <5>0. s > Sid0[n] /\ s \in Nat
          BY <1>o, HistoryAt DEF RawsOwned, RawOwned
        <5>1. c \in Conns /\ Drawn(n, c) /\ e \in Lookup(n, c, s)
          BY <1>1, <2>4, <4>2, <5>0, ConnFacts DEF Conns, Raws, Raw, Drawn
        <5> QED BY <5>1, LookedUp
      <4>5. hop.conn = e.src /\ e.src.link \in LinksOf(n)
        <5>1. c \notin Channels
          BY <1>1, ConnFacts
        <5>2. hop = [conn |-> e.src, sid |-> e.ssid] /\ e.src.link \in LinksOf(n)
          BY <1>o, <4>1, <4>4, <5>1, HopRaw
        <5> QED BY <5>2
      <4>6. Closed(hop.sid).cmd # "data"
        BY FrameForms
      <4> QED BY <1>o, <2>2, <4>3, <4>5, <4>6, FlowSent, FlowNow
    <3> QED BY <3>1, <3>2
  <2> QED BY <1>1, <1>a, <2>1, <2>2, <2>3, <2>5, CalmGoto
<1> QED BY <1>2, <1>3, <1>4

\* Closing from outside.
LEMMA OutsideFlow ==
    ASSUME LinksAssumption, OneWay, TypeOK, NEW H, NEW Z, Owned(H, Z), NEW W, NEW V, Flow(H, Z, W, V),
           NEW n \in Nodes,
           \/ \E l \in LinksOf(n) : Lose(n, l)
           \/ RouterClose(n) \/ RouterCloseOne(n)
    PROVE  FlowAfter(H, Z)
<1>o. W \in Counts /\ V \in Counts /\ WireFlow(W, V, wire)
  BY DEF Flow
<1>1. ASSUME NEW l \in LinksOf(n), Lose(n, l) PROVE FlowAfter(H, Z)
  <2>1. /\ open' = [open EXCEPT ![n][l] = FALSE] /\ UNCHANGED <<wire, reader>>
        /\ RawCalm /\ TableCalm(W, V) /\ NoBacks
    BY <1>1, RawSame, TableSame DEF Lose, NoBacks
  <2> QED BY <1>o, <2>1, EndShut, CalmOther
<1>2. ASSUME RouterClose(n) PROVE FlowAfter(H, Z)
  <2>1. UNCHANGED <<open, wire, reader>> /\ RawCalm /\ TableCalm(W, V) /\ NoBacks
    BY <1>2, RawSame, TableSame DEF RouterClose, NoBacks
  <2> QED BY <1>o, <2>1, FlowNow, CalmOther
<1>3. ASSUME RouterCloseOne(n) PROVE FlowAfter(H, Z)
  <2>1. PICK c : IF c.type = "raw" THEN raw' = CloseRaws(n, {c.sid}) /\ UNCHANGED open
                 ELSE open' = [open EXCEPT ![n][c.link] = FALSE] /\ UNCHANGED raw
    BY <1>3 DEF RouterCloseOne
  <2>2. UNCHANGED <<wire, reader>> /\ TableCalm(W, V) /\ NoBacks
    BY <1>3, TableSame DEF RouterCloseOne, NoBacks
  <2>3. CASE raw' = CloseRaws(n, {c.sid}) /\ UNCHANGED open
    BY <1>o, <2>2, <2>3, RawShut, FlowNow, CalmOther
  <2>4. CASE open' = [open EXCEPT ![n][c.link] = FALSE] /\ UNCHANGED raw
    BY <1>o, <2>2, <2>4, RawSame, EndShut, CalmOther
  <2> QED BY <2>1, <2>3, <2>4
<1> QED BY <1>1, <1>2, <1>3

(***************************************************************************)
(* The ends of the entries of a router are all different.                  *)
(***************************************************************************)
EndAt(n, d, t) == \/ d \in Channels /\ t \in Nat
                  \/ d = Raw(t) /\ t \in DOMAIN raw[n]

LEMMA EndsOf ==
    ASSUME LinksAssumption, OneWay, NEW H, History(H), RawsMade(H),
           NEW n \in Nodes, NEW e, Recorded(H, n, e), NEW c \in {e.src, e.dst}
    PROVE  /\ EndAt(n, c, SidAt(e, c)) /\ EndAt(n, NextHop(e, c).conn, NextHop(e, c).sid)
           /\ c \in Conns /\ NextHop(e, c).conn # c
           /\ Key(n, c, SidAt(e, c)) \in KeysOf(n, e)
           /\ Key(n, NextHop(e, c).conn, NextHop(e, c).sid) \in KeysOf(n, e)
<1>1. /\ EndsMade(n, e) /\ e.src # e.dst /\ e.ssid \in Nat /\ e.dsid \in Nat /\ e.src \in Channels
      /\ e.dst = Raw(e.dsid) \/ e.dst \in Channels
  BY EndsAreMade
<1>2. /\ EndAt(n, e.src, e.ssid) /\ EndAt(n, e.dst, e.dsid)
  BY <1>1, ConnFacts DEF EndAt, EndsMade
<1>3. e.src \in Conns /\ e.dst \in Conns
  <2>1. \A t \in Nat : Raw(t) \in Raws
    BY DEF Raw, Raws
  <2> QED BY <1>1, <2>1 DEF Conns
<1>4. CASE c = e.src
  <2>1. NextHop(e, c) = [conn |-> e.dst, sid |-> e.dsid] /\ SidAt(e, c) = e.ssid
    BY <1>4 DEF NextHop, SidAt
  <2> QED BY <1>1, <1>2, <1>3, <1>4, <2>1 DEF KeysOf
<1>5. CASE c = e.dst
  <2>1. NextHop(e, c) = [conn |-> e.src, sid |-> e.ssid] /\ SidAt(e, c) = e.dsid
    BY <1>1, <1>5 DEF NextHop, SidAt
  <2> QED BY <1>1, <1>2, <1>3, <1>5, <2>1 DEF KeysOf
<1> QED BY <1>4, <1>5

\* Two entries with the same end are one, and so are two ways to the same end.
LEMMA OneEnd ==
    ASSUME IdsAssumption, LinksAssumption, OneWay, NEW H, History(H), RawsMade(H), NEW n \in Nodes,
           NEW e, Recorded(H, n, e), NEW c \in {e.src, e.dst},
           NEW g, Recorded(H, n, g), NEW d \in {g.src, g.dst}
    PROVE  /\ d = c /\ SidAt(g, d) = SidAt(e, c) => g = e
           /\ NextHop(g, d).conn = NextHop(e, c).conn /\ NextHop(g, d).sid = NextHop(e, c).sid
                => g = e /\ d = c
<1>1. /\ Key(n, c, SidAt(e, c)) \in KeysOf(n, e)
      /\ Key(n, NextHop(e, c).conn, NextHop(e, c).sid) \in KeysOf(n, e)
      /\ Key(n, d, SidAt(g, d)) \in KeysOf(n, g)
      /\ Key(n, NextHop(g, d).conn, NextHop(g, d).sid) \in KeysOf(n, g)
      /\ NextHop(e, c).conn # c /\ NextHop(g, d).conn # d
  BY EndsOf
<1>2. ASSUME NEW k, k \in KeysOf(n, e), k \in KeysOf(n, g) PROVE g = e
  BY <1>2, KeyOwner
<1>3. d = c /\ SidAt(g, d) = SidAt(e, c) => g = e
  BY <1>1, <1>2
<1>4. ASSUME NextHop(g, d).conn = NextHop(e, c).conn, NextHop(g, d).sid = NextHop(e, c).sid
      PROVE  g = e /\ d = c
  <2>1. g = e
    BY <1>1, <1>2, <1>4
  <2>2. c \in {e.src, e.dst} /\ d \in {e.src, e.dst} /\ NextHop(e, c).conn \in {e.src, e.dst}
    BY <2>1 DEF NextHop
  <2> QED BY <1>1, <1>4, <2>1, <2>2
<1> QED BY <1>3, <1>4

\* What a reader found it under.
LEMMA MatchedEnd ==
    ASSUME LinksAssumption, OneWay, NEW H, History(H), NEW n \in Nodes, NEW e, Recorded(H, n, e),
           NEW c, NEW s, Matches(e, c, s)
    PROVE  c \in {e.src, e.dst} /\ SidAt(e, c) = s
<1>1. e.src # e.dst
  BY RecordedAt, GenuineConns
<1> QED BY <1>1 DEF Matches, SidAt

\* What of the raw connections the counts do not depend on stays.
RawSteady ==
    \A n \in Nodes :
        /\ DOMAIN raw'[n] = DOMAIN raw[n]
        /\ \A s \in DOMAIN raw[n] :
             /\ raw'[n][s].closed = raw[n][s].closed
             /\ raw'[n][s].dialer = raw[n][s].dialer /\ raw'[n][s].ready = raw[n][s].ready
             /\ raw'[n][s].sent > 0 => raw[n][s].sent > 0 \/ Raw(s) \in DOMAIN reader[n]

\* No reader but that of c goes on.
OnlyGoes(n, c, x) ==
    /\ \A m \in Nodes : DOMAIN reader'[m] = DOMAIN reader[m]
    /\ \A m \in Nodes : \A d \in DOMAIN reader[m] :
         reader'[m][d] = IF m = n /\ d = c THEN x ELSE reader[m][d]

\* One reader takes a payload in hand, or passes it on.
LEMMA StartedKept ==
    ASSUME TypeOK, RawsStarted, Pending, RawSteady, UNCHANGED dialing,
           NEW n \in Nodes, NEW c, NEW x, Goto(n, c, x)
    PROVE  RawsStarted' /\ Pending' /\ OnlyGoes(n, c, x)
<1>1. OnlyGoes(n, c, x)
  BY DEF Goto, OnlyGoes, TypeOK, Readers, Maps
<1>2. RawsStarted'
  BY <1>1 DEF RawsStarted, RawSteady, OnlyGoes
<1>3. Pending'
  BY <1>1 DEF Pending, RawSteady, OnlyGoes
<1> QED BY <1>1, <1>2, <1>3

\* The numbers and entries of the other readers stay right.
LEMMA FrameEnd ==
    ASSUME TypeOK, NEW H, NEW Z, Owned(H, Z), RawsStarted, NEW n \in Nodes, NEW c \in DOMAIN reader[n],
           Acting(n, c, "data")
    PROVE  EndAt(n, c, reader[n][c].frame.sid)
<1>1. PICK r, s : r = reader[n][c] /\ s = r.frame.sid
  OBVIOUS
<1>2. /\ r.frame \in Frames /\ r.frame.cmd = "data"
      /\ c.type = "raw" => RawFrameOwned(H, n, c, r.frame)
  BY <1>1, DataFacts
<1>3. s \in Nat /\ c \in Conns
  BY <1>1, <1>2, DataNumber DEF TypeOK, Readers, Maps
<1>4. CASE c \in Channels
  BY <1>1, <1>3, <1>4 DEF EndAt
<1>5. CASE c \in Raws
  <2>1. c = Raw(c.sid) /\ c.type = "raw"
    BY <1>5 DEF Raws, Raw
  <2>2. s = c.sid
    BY <1>1, <1>2, <2>1 DEF RawFrameOwned
  <2> QED BY <1>1, <2>1, <2>2 DEF EndAt, RawsStarted
<1> QED BY <1>3, <1>4, <1>5 DEF Conns

(***************************************************************************)
(* A reader takes a payload.                                               *)
(***************************************************************************)
\* One more has arrived at n from c for session s, and nothing else has changed.
OneArrived(W, W2, V, n, c, s) ==
    /\ Arrived(W2, n, c, s)' = Arrived(W, n, c, s) + 1
    /\ \A m \in Nodes : \A d, t : EndAt(m, d, t) =>
         /\ m # n \/ d # c \/ t # s => Arrived(W2, m, d, t)' = Arrived(W, m, d, t)
         /\ Left(V, m, d, t)' = Left(V, m, d, t)
         /\ Shut(m, d)' <=> Shut(m, d)

\* The reader takes the payload f of session s, and goes on as x.
Takes(W, n, c, s, f, x) ==
    /\ c \in DOMAIN reader[n] /\ Drawn(n, c) /\ EndAt(n, c, s) /\ reader[n][c].pc = "read"
    /\ f.cmd = "data" /\ f.sid = s /\ f.payload.no = Arrived(W, n, c, s) + 1
    /\ Arrived(W, n, c, s) \in Nat
    /\ x.pc = "found" => x = Found(f, Lookup(n, c, s))
    /\ x.pc # "found" => Lookup(n, c, s) = {}
    /\ Goto(n, c, x)

\* What the reader has in hand is found under its own key.
LEMMA OnlyItsEntry ==
    ASSUME NEW n \in Nodes, NEW c, NEW s, EntriesPaired, NEW e, InTable(n, e),
           Key(n, c, s) \in KeysOf(n, e)
    PROVE  e \in Lookup(n, c, s)
<1>1. PICK k \in DOMAIN table[n] : table[n][k] = e
  BY DEF InTable
<1>2. Key(n, c, s) \in DOMAIN table[n] /\ table[n][Key(n, c, s)] = e
  BY <1>1 DEF EntriesPaired
<1> QED BY <1>2 DEF Lookup

\* Who holds a payload after the step.
LEMMA HoldsTaken ==
    ASSUME TypeOK, NEW n \in Nodes, NEW c, NEW s, NEW f, NEW x, NEW W, Takes(W, n, c, s, f, x),
           OnlyGoes(n, c, x)
    PROVE  /\ ~Holding(n, c, s) /\ (x.pc = "found" => Holding(n, c, s)')
           /\ \A m \in Nodes : \A d, t : m # n \/ d # c \/ t # s =>
                (Holding(m, d, t)' <=> Holding(m, d, t))
<1>1. /\ c \in DOMAIN reader[n] /\ reader[n][c].pc = "read" /\ reader'[n][c] = x
      /\ c \in DOMAIN reader'[n]
      /\ x.pc = "found" => x.frame.cmd = "data" /\ x.frame.sid = s
  BY PlainStates DEF Takes, OnlyGoes
<1>2. ~Holding(n, c, s) /\ \A t : t # s => ~Holding(n, c, t) /\ ~Holding(n, c, t)'
  BY <1>1 DEF Holding, Acting
<1>3. x.pc = "found" => Holding(n, c, s)'
  BY <1>1 DEF Holding, Acting
<1>4. ASSUME NEW m \in Nodes, NEW d, NEW t, m # n \/ d # c
      PROVE  Holding(m, d, t)' <=> Holding(m, d, t)
  BY <1>4 DEF Holding, Acting, OnlyGoes
<1> QED BY <1>2, <1>3, <1>4

\* What arrives and leaves at an end is counted.
LEMMA LeftNumber ==
    ASSUME TypeOK, NEW W \in Counts, NEW V \in Counts, NEW n \in Nodes, NEW c, NEW s, EndAt(n, c, s)
    PROVE  Arrived(W, n, c, s) \in Nat /\ Left(V, n, c, s) \in Nat
<1>1. CASE c \in Channels /\ s \in Nat
  <2>1. c.link \in Links /\ c.type = "channel"
    BY <1>1 DEF Channels
  <2> QED BY <1>1, <2>1 DEF Arrived, Left, Counts
<1>2. CASE c = Raw(s) /\ s \in DOMAIN raw[n]
  <2>1. c.type = "raw" /\ c.sid = s
    BY <1>2 DEF Raw
  <2>2. PICK r : r = raw[n][s]
    OBVIOUS
  <2>3. r \in RawStates
    BY <1>2, <2>2 DEF TypeOK, Maps
  <2>4. r.sent \in Nat /\ r.got \in Seq(Payloads)
    BY <2>3 DEF RawStates
  <2> QED BY <2>1, <2>2, <2>4 DEF Arrived, Left
<1> QED BY <1>1, <1>2 DEF EndAt

\* What one reader takes, and the counts of it.
Intake(W, W2, V, n, c, s, f, x) ==
    /\ V \in Counts /\ W2 \in Counts
    /\ Takes(W, n, c, s, f, x) /\ OneArrived(W, W2, V, n, c, s) /\ OnlyGoes(n, c, x)

LEMMA IntakeThrough ==
    ASSUME LinksAssumption, OneWay, TypeOK, NEW H, History(H), RawsMade(H),
           NEW W, NEW V, NEW W2, NEW n \in Nodes, NEW c, NEW s, NEW f, NEW x,
           Intake(W, W2, V, n, c, s, f, x),
           NEW m \in Nodes, NEW e, Recorded(H, m, e), NEW d \in {e.src, e.dst},
           m = n /\ d = c /\ SidAt(e, d) = s => x.pc = "found",
           Through(W, V, m, e, d)
    PROVE  Through(W2, V, m, e, d)'
<1>o. /\ V \in Counts /\ W2 \in Counts
      /\ Takes(W, n, c, s, f, x) /\ OneArrived(W, W2, V, n, c, s) /\ OnlyGoes(n, c, x)
  BY DEF Intake
<1>1. PICK hop, t : hop = NextHop(e, d) /\ t = SidAt(e, d)
  OBVIOUS
<1>2. EndAt(m, d, t) /\ EndAt(m, hop.conn, hop.sid)
  BY <1>1, <1>o, EndsOf
<1>3. Left(V, m, hop.conn, hop.sid)' = Left(V, m, hop.conn, hop.sid) /\ (Shut(m, hop.conn)' <=> Shut(m, hop.conn))
  BY <1>o, <1>2 DEF OneArrived
<1>4. /\ ~Holding(n, c, s) /\ (x.pc = "found" => Holding(n, c, s)')
      /\ m # n \/ d # c \/ t # s => (Holding(m, d, t)' <=> Holding(m, d, t))
  BY <1>o, HoldsTaken
<1>5. \/ Shut(m, hop.conn)
      \/ Arrived(W, m, d, t) = Left(V, m, hop.conn, hop.sid) + (IF Holding(m, d, t) THEN 1 ELSE 0)
  BY <1>1 DEF Through
<1>6. CASE Shut(m, hop.conn)
  <2>1. Shut(m, hop.conn)'
    BY <1>3, <1>6
  <2> QED BY <1>1, <2>1 DEF Through
<1>7. CASE m = n /\ d = c /\ t = s /\ ~Shut(m, hop.conn)
  <2>1. PICK p, q : p = Left(V, n, hop.conn, hop.sid) /\ q = Arrived(W, n, c, s)
    OBVIOUS
  <2>2. q = p + 0
    BY <1>4, <1>5, <1>7, <2>1
  <2>3. Arrived(W2, n, c, s)' = q + 1 /\ Holding(n, c, s)' /\ q \in Nat
    BY <1>o, <1>1, <1>4, <1>7, <2>1 DEF OneArrived, Takes
  <2>4. p \in Nat
    BY <1>o, <1>2, <1>7, <2>1, LeftNumber
  <2>5. Left(V, m, hop.conn, hop.sid)' = p /\ q + 1 = p + 1
    BY <1>3, <1>7, <2>1, <2>2, <2>3, <2>4
  <2>6. Arrived(W2, m, d, t)' = Left(V, m, hop.conn, hop.sid)' + 1 /\ Holding(m, d, t)'
    BY <1>7, <2>3, <2>5
  <2> QED BY <1>1, <2>6 DEF Through
<1>8. CASE m # n \/ d # c \/ t # s
  <2>1. Arrived(W2, m, d, t)' = Arrived(W, m, d, t) /\ (Holding(m, d, t)' <=> Holding(m, d, t))
    BY <1>o, <1>2, <1>4, <1>8 DEF OneArrived
  <2>2. \/ Shut(m, hop.conn)'
        \/ Arrived(W2, m, d, t)' = Left(V, m, hop.conn, hop.sid)' + (IF Holding(m, d, t)' THEN 1 ELSE 0)
    BY <1>3, <1>5, <2>1
  <2> QED BY <1>1, <2>2 DEF Through
<1> QED BY <1>6, <1>7, <1>8

LEMMA IntakeFlow ==
    ASSUME IdsAssumption, LinksAssumption, OneWay, TypeOK, HopInv, EntriesPaired,
           NEW H, NEW Z, Owned(H, Z), NEW W, NEW V, Flow(H, Z, W, V), NEW W2 \in Counts,
           NEW n \in Nodes, NEW c, NEW s, NEW f, NEW x,
           Takes(W, n, c, s, f, x), OneArrived(W, W2, V, n, c, s),
           RawSteady, UNCHANGED <<table, dialing>>, GotInOrder', WireFlow(W2, V, wire)'
    PROVE  FlowAfter(H, Z)
<1>h. LinksAssumption /\ OneWay /\ TypeOK /\ History(H) /\ RawsMade(H) /\ n \in Nodes
  BY DEF Owned
<1>o. /\ History(H) /\ RawsMade(H) /\ TablesOwned(H) /\ ReadersOwned(H, Z)
      /\ W \in Counts /\ V \in Counts /\ Grounded(H, Z, V)
      /\ TableFlow(W, V) /\ ReaderFlow(W, V) /\ RawsStarted /\ Pending
  BY DEF Owned, Flow
<1>1. RawsStarted' /\ Pending' /\ OnlyGoes(n, c, x)
  <2>1. Goto(n, c, x)
    BY DEF Takes
  <2> QED BY <1>o, <2>1, StartedKept
<1>i. Intake(W, W2, V, n, c, s, f, x)
  BY <1>o, <1>1 DEF Intake
<1>2. ASSUME NEW m \in Nodes, NEW e, InTable(m, e), NEW d \in {e.src, e.dst}
      PROVE  Through(W2, V, m, e, d)'
  <2>0. Recorded(H, m, e)
    BY <1>o, <1>2 DEF InTable, TablesOwned
  <2>1. Recorded(H, m, e) /\ Through(W, V, m, e, d)
    BY <1>o, <1>2, <2>0 DEF TableFlow
  <2>2. ASSUME m = n, d = c, SidAt(e, d) = s PROVE x.pc = "found"
    <3>1. Key(n, c, s) \in KeysOf(n, e)
      BY <1>o, <2>1, <2>2, EndsOf
    <3>2. e \in Lookup(n, c, s)
      BY <1>2, <2>2, <3>1, OnlyItsEntry
    <3> QED BY <3>2 DEF Takes
  <2>3. m \in Nodes /\ d \in {e.src, e.dst}
    BY <1>2
  <2> QED BY ONLY <1>h, <1>i, <2>1, <2>2, <2>3, IntakeThrough
<1>3. TableFlow(W2, V)'
  <2>1. \A m \in Nodes : \A e : InTable(m, e)' => InTable(m, e)
    BY DEF InTable
  <2> QED BY <1>2, <2>1 DEF TableFlow
<1>4. ASSUME NEW m \in Nodes, NEW d \in DOMAIN reader[m], m # n \/ d # c,
             NEW y, y = reader[m][d], y.pc = "found"
      PROVE  /\ \A e \in y.router : Through(W2, V, m, e, d)'
             /\ y.frame.cmd = "data" =>
                  y.frame.payload.no > 0 /\ y.frame.payload.no = Arrived(W2, m, d, y.frame.sid)'
  <2>0. y = reader[m][d]
    BY <1>4
  <2>1. FoundOwned(H, Z, m, d, y)
    BY <1>o, <1>4, <2>0 DEF ReadersOwned, ReaderOwned
  <2>2. ASSUME NEW e \in y.router PROVE Through(W2, V, m, e, d)'
    <3>1. Recorded(H, m, e) /\ d \in {e.src, e.dst} /\ Through(W, V, m, e, d)
      BY <1>o, <1>4, <2>0, <2>1, <2>2 DEF FoundOwned, Matches, ReaderFlow
    <3>2. m \in Nodes /\ ~(m = n /\ d = c)
      BY <1>4
    <3> QED BY ONLY <1>h, <1>i, <3>1, <3>2, IntakeThrough
  <2>3. ASSUME y.frame.cmd = "data"
        PROVE  y.frame.payload.no > 0 /\ y.frame.payload.no = Arrived(W2, m, d, y.frame.sid)'
    <3>1. y.frame.payload.no > 0 /\ y.frame.payload.no = Arrived(W, m, d, y.frame.sid)
      BY <1>o, <1>4, <2>0, <2>3 DEF ReaderFlow
    <3>2. EndAt(m, d, y.frame.sid)
      <4>1. Acting(m, d, "data")
        BY <1>4, <2>0, <2>3 DEF Acting
      <4> QED BY <1>o, <2>0, <4>1, FrameEnd
    <3>3. Arrived(W2, m, d, y.frame.sid)' = Arrived(W, m, d, y.frame.sid)
      BY <1>4, <3>2 DEF OneArrived
    <3> QED BY <3>1, <3>3
  <2> QED BY <2>2, <2>3
<1>5. ASSUME x.pc = "found"
      PROVE  /\ \A e \in x.router : Through(W2, V, n, e, c)'
             /\ x.frame.payload.no > 0 /\ x.frame.payload.no = Arrived(W2, n, c, x.frame.sid)'
  <2>1. x.frame = f /\ x.router = Lookup(n, c, s) /\ f.sid = s
    BY <1>5 DEF Takes, Found
  <2>2. ASSUME NEW e \in x.router PROVE Through(W2, V, n, e, c)'
    <3>1. c \in Conns /\ Drawn(n, c) /\ e \in Lookup(n, c, s)
      BY <2>1, <2>2 DEF Takes, TypeOK, Readers, Maps
    <3>2. InTable(n, e) /\ c \in {e.src, e.dst}
      BY <3>1, LookedUp
    <3> QED BY <1>2, <3>2
  <2>3. f.payload.no = Arrived(W2, n, c, s)' /\ f.payload.no > 0
    <3>1. PICK q : q = Arrived(W, n, c, s)
      OBVIOUS
    <3>2. q \in Nat /\ f.payload.no = q + 1 /\ Arrived(W2, n, c, s)' = q + 1
      BY <3>1 DEF Takes, OneArrived
    <3> QED BY <3>2
  <2>4. f.payload.no = Arrived(W2, n, c, x.frame.sid)'
    <3>1. Arrived(W2, n, c, x.frame.sid)' = Arrived(W2, n, c, s)'
      BY <2>1 DEF Arrived
    <3> QED BY <2>3, <3>1
  <2> QED BY <2>1, <2>2, <2>3, <2>4
<1>6. ReaderFlow(W2, V)'
  <2>1. SUFFICES ASSUME NEW m \in Nodes, NEW d \in DOMAIN reader'[m], reader'[m][d].pc = "found"
                 PROVE  /\ \A e \in reader'[m][d].router : Through(W2, V, m, e, d)'
                        /\ reader'[m][d].frame.cmd = "data" =>
                             /\ reader'[m][d].frame.payload.no > 0
                             /\ (reader[m][d].frame.payload.no = Arrived(W2, m, d, reader[m][d].frame.sid))'
    BY DEF ReaderFlow
  <2>2. d \in DOMAIN reader[m]
    BY <1>1, <2>1 DEF OnlyGoes
  <2>3. CASE m = n /\ d = c
    <3>1. reader'[m][d] = x
      BY <1>1, <2>2, <2>3 DEF OnlyGoes
    <3>2. Arrived(W2, n, c, reader[m][d].frame.sid)' = Arrived(W2, n, c, x.frame.sid)'
      BY <3>1 DEF Arrived
    <3> QED BY <1>5, <2>1, <2>3, <3>1, <3>2
  <2>4. CASE m # n \/ d # c
    <3>1. reader'[m][d] = reader[m][d]
      BY <1>1, <2>2, <2>4 DEF OnlyGoes
    <3>2. PICK y : y = reader[m][d]
      OBVIOUS
    <3>3. Arrived(W2, m, d, reader[m][d].frame.sid)' = Arrived(W2, m, d, y.frame.sid)'
      BY <3>1, <3>2 DEF Arrived
    <3>4. /\ \A e \in y.router : Through(W2, V, m, e, d)'
          /\ y.frame.cmd = "data" =>
               y.frame.payload.no > 0 /\ y.frame.payload.no = Arrived(W2, m, d, y.frame.sid)'
      <4>1. y.pc = "found"
        BY <2>1, <3>1, <3>2
      <4> QED BY <1>4, <2>2, <2>4, <3>2, <4>1
    <3> QED BY <3>1, <3>2, <3>3, <3>4
  <2> QED BY <2>3, <2>4
<1>7. Grounded(H, Z, V)'
  BY <1>o DEF Grounded, Started
<1> QED BY <1>o, <1>1, <1>3, <1>6, <1>7 DEF FlowAfter, Flow

\* The payload at the head of a wire is the next one.
LEMMA FlowPayload ==
    ASSUME LinksAssumption, TypeOK, NEW W \in Counts, NEW V \in Counts, WireFlow(W, V, wire),
           NEW n \in Nodes, NEW l \in LinksOf(n), HasFrame(n, l, "data"),
           NEW f, f = Head(wire[n][l]), NEW s, s = f.sid
    PROVE  /\ f.cmd = "data" /\ s \in Nat /\ f.payload.no = W[n][l][s] + 1
           /\ \A W2 : Bumped(W, W2, n, l, s) => WireFlow(W2, V, Taken(n, l))
<1>0. PICK u : u = Taken(n, l)
  OBVIOUS
<1>1. wire \in Wires /\ l \in Links /\ wire[n][l] # <<>> /\ wire[n][l] \in Seq(Frames) /\ f.cmd = "data"
  BY PeerFacts DEF TypeOK, HasFrame, Wires
<1>2. s \in Nat /\ IsData(f, s)
  <2>1. f \in Frames
    BY <1>1
  <2> QED BY <1>1, <2>1, DataNumber DEF IsData
<1>3. \A m \in Nodes : \A j \in LinksOf(m) : \A t \in Nat :
        /\ W[m][j][t] \in Nat /\ V[Peer(m, j)][j][t] \in Nat
        /\ W[m][j][t] <= V[Peer(m, j)][j][t]
        /\ Flows(wire[m][j], t, W[m][j][t], V[Peer(m, j)][j][t], BothOpen(m, j))
        /\ wire[m][j] \in Seq(Frames) /\ j \in Links
  <2>1. ASSUME NEW m \in Nodes, NEW j \in LinksOf(m)
        PROVE  Peer(m, j) \in Nodes /\ j \in Links /\ wire[m][j] \in Seq(Frames)
    BY <1>1, PeerFacts DEF Wires
  <2>2. \A m \in Nodes : \A j \in Links : \A t \in Nat : W[m][j][t] \in Nat /\ V[m][j][t] \in Nat
    BY CountType
  <2> QED BY <2>1, <2>2 DEF WireFlow
<1>4. /\ f.payload.no = W[n][l][s] + 1 /\ W[n][l][s] + 1 <= V[Peer(n, l)][l][s]
      /\ Flows(Tail(wire[n][l]), s, W[n][l][s] + 1, V[Peer(n, l)][l][s], BothOpen(n, l))
  <2>1. PICK w, lo, hi, b : /\ w = wire[n][l] /\ lo = W[n][l][s] /\ hi = V[Peer(n, l)][l][s]
                            /\ b = BothOpen(n, l)
    OBVIOUS
  <2>2. /\ w \in Seq(Frames) /\ w # <<>> /\ lo \in Nat /\ hi \in Nat /\ Flows(w, s, lo, hi, b)
        /\ IsData(Head(w), s)
    BY <1>1, <1>2, <1>3, <2>1
  <2>3. Head(w).payload.no = lo + 1 /\ lo + 1 <= hi /\ Flows(Tail(w), s, lo + 1, hi, b)
    BY ONLY <2>2, DataTaken
  <2> QED BY <2>1, <2>3
<1>5. \A m \in Nodes : \A j \in Links :
        u[m][j] = IF m = n /\ j = l THEN Tail(wire[m][j]) ELSE wire[m][j]
  BY <1>0, <1>1 DEF Taken, Wires
<1>6. ASSUME NEW W2, Bumped(W, W2, n, l, s) PROVE WireFlow(W2, V, u)
  <2>1. ASSUME NEW m \in Nodes, NEW j \in LinksOf(m), NEW t \in Nat
        PROVE  /\ W2[m][j][t] <= V[Peer(m, j)][j][t]
               /\ Flows(u[m][j], t, W2[m][j][t], V[Peer(m, j)][j][t], BothOpen(m, j))
    <3>1. CASE m = n /\ j = l /\ t = s
      <4>1. W2[m][j][t] = W[n][l][s] + 1 /\ u[m][j] = Tail(wire[n][l])
        BY <1>1, <1>5, <1>6, <3>1 DEF Bumped
      <4> QED BY <1>4, <3>1, <4>1
    <3>2. CASE m # n \/ j # l \/ t # s
      <4>1. W2[m][j][t] = W[m][j][t]
        BY <1>3, <1>6, <3>2 DEF Bumped
      <4>2. Flows(u[m][j], t, W[m][j][t], V[Peer(m, j)][j][t], BothOpen(m, j))
        <5>1. CASE m = n /\ j = l
          <6>1. ~IsData(Head(wire[m][j]), t) /\ wire[m][j] # <<>>
            BY <1>1, <3>2, <5>1 DEF IsData
          <6>2. Flows(Tail(wire[m][j]), t, W[m][j][t], V[Peer(m, j)][j][t], BothOpen(m, j))
            BY <1>3, <6>1, OtherTaken
          <6> QED BY <1>1, <1>5, <5>1, <6>2
        <5>2. CASE ~(m = n /\ j = l)
          BY <1>3, <1>5, <5>2
        <5> QED BY <5>1, <5>2
      <4> QED BY <1>3, <4>1, <4>2
    <3> QED BY <3>1, <3>2
  <2> QED BY <2>1 DEF WireFlow
<1> QED BY <1>0, <1>1, <1>2, <1>4, <1>6

\* procChannelData looks the session up.
LEMMA ProcDataFlow ==
    ASSUME IdsAssumption, LinksAssumption, OneWay, TypeOK, HopInv, EntriesPaired,
           NEW H, NEW Z, Owned(H, Z), NEW W, NEW V, Flow(H, Z, W, V),
           NEW n \in Nodes, NEW l \in LinksOf(n), ProcData(n, l)
    PROVE  FlowAfter(H, Z)
<1>o. W \in Counts /\ V \in Counts /\ WireFlow(W, V, wire) /\ GotInOrder
  BY DEF Flow
<1>1. PICK c, f, s : c = Channel(l) /\ f = Head(wire[n][l]) /\ s = f.sid
  OBVIOUS
<1>2. PICK R, x : R = Lookup(n, c, s) /\ x = IF R = {} THEN Reading ELSE Found(f, R)
  OBVIOUS
<1>3. /\ HasFrame(n, l, "data") /\ Goto(n, c, x) /\ wire' = Taken(n, l)
      /\ UNCHANGED <<table, open, raw, dialing>>
  BY <1>1, <1>2 DEF ProcData
<1>4. /\ f.cmd = "data" /\ s \in Nat /\ f.payload.no = W[n][l][s] + 1
      /\ \A W2 : Bumped(W, W2, n, l, s) => WireFlow(W2, V, Taken(n, l))
  BY <1>o, <1>1, <1>3, FlowPayload
<1>5. l \in Links /\ c \in Channels /\ c.type = "channel" /\ c.link = l /\ c \in DOMAIN reader[n]
  BY <1>1, PeerFacts, ConnFacts DEF TypeOK, Readers
<1>6. PICK W2 : Bumped(W, W2, n, l, s)
  BY <1>o, <1>4, <1>5, CountOn
<1>7. WireFlow(W2, V, wire)' /\ W2 \in Counts /\ GotInOrder' /\ RawSteady
  <2>1. WireFlow(W2, V, wire)'
    BY <1>3, <1>4, <1>6, FlowNow
  <2> QED BY <1>o, <1>3, <1>6, <2>1 DEF Bumped, GotInOrder, RawSteady
<1>8. Takes(W, n, c, s, f, x)
  <2>1. Arrived(W, n, c, s) = W[n][l][s] /\ W[n][l][s] \in Nat
    BY <1>o, <1>4, <1>5 DEF Arrived, Counts
  <2>2. Drawn(n, c) /\ EndAt(n, c, s) /\ reader[n][c].pc = "read"
    BY <1>1, <1>3, <1>4, <1>5 DEF Drawn, EndAt, HasFrame
  <2>3. /\ x.pc = "found" => x = Found(f, Lookup(n, c, s))
        /\ x.pc # "found" => Lookup(n, c, s) = {}
    BY <1>2, PlainStates DEF Found
  <2> QED BY <1>1, <1>3, <1>4, <1>5, <2>1, <2>2, <2>3 DEF Takes
<1>9. OneArrived(W, W2, V, n, c, s)
  <2>1. Arrived(W2, n, c, s)' = Arrived(W, n, c, s) + 1
    BY <1>5, <1>6 DEF Arrived, Bumped
  <2>2. ASSUME NEW m \in Nodes, NEW d, NEW t, EndAt(m, d, t), m # n \/ d # c \/ t # s
        PROVE  Arrived(W2, m, d, t)' = Arrived(W, m, d, t)
    <3>1. CASE d \in Channels /\ t \in Nat
      <4>1. d.type = "channel" /\ d.link \in Links /\ d = Channel(d.link)
        BY <3>1, ConnFacts
      <4>2. W2[m][d.link][t] = W[m][d.link][t]
        BY <1>1, <1>6, <2>2, <3>1, <4>1 DEF Bumped
      <4> QED BY <4>1, <4>2 DEF Arrived
    <3>2. CASE d = Raw(t)
      BY <1>3, <3>2, ConnFacts DEF Arrived
    <3> QED BY <2>2, <3>1, <3>2 DEF EndAt
  <2>3. \A m \in Nodes : \A d, t : Left(V, m, d, t)' = Left(V, m, d, t) /\ (Shut(m, d)' <=> Shut(m, d))
    BY <1>3 DEF Left, Shut
  <2> QED BY <2>1, <2>2, <2>3 DEF OneArrived
<1> QED BY <1>3, <1>7, <1>8, <1>9, IntakeFlow

\* RawConn.ReadFrame makes a frame of what the application writes.
LEMMA RawReadFlow ==
    ASSUME IdsAssumption, LinksAssumption, OneWay, TypeOK, HopInv, EntriesPaired,
           NEW H, NEW Z, Owned(H, Z), NEW W, NEW V, Flow(H, Z, W, V),
           NEW n \in Nodes, NEW s \in DOMAIN raw[n], Raw(s) \in DOMAIN reader[n], RawRead(n, s)
    PROVE  FlowAfter(H, Z)
<1>o. /\ W \in Counts /\ V \in Counts /\ WireFlow(W, V, wire) /\ GotInOrder
      /\ History(H) /\ RawsOwned(H, Z)
  BY DEF Flow, Owned
<1>1. PICK c, p, f : /\ c = Raw(s) /\ f = Data(s, p)
                     /\ p = [call |-> raw[n][s].call, dialer |-> raw[n][s].dialer,
                             no |-> raw[n][s].sent + 1]
  OBVIOUS
<1>2. PICK R, x : R = Lookup(n, c, s) /\ x = IF R = {} THEN Stopping ELSE Found(f, R)
  OBVIOUS
<1>3. /\ reader[n][c].pc = "read" /\ Goto(n, c, x) /\ UNCHANGED <<table, open, wire, dialing>>
      /\ raw' = [raw EXCEPT ![n][s].sent = @ + 1]
  BY <1>1, <1>2 DEF RawRead
<1>4. c.type = "raw" /\ c.sid = s /\ s > Sid0[n] /\ c \in DOMAIN reader[n]
  BY <1>o, <1>1, ConnFacts, HistoryAt DEF RawsOwned, RawOwned
<1>5. DOMAIN raw = Nodes /\ raw[n][s].sent \in Nat /\ \A m \in Nodes : DOMAIN raw[m] \subseteq Nat
  <2>1. raw[n][s] \in RawStates
    BY DEF TypeOK, Maps
  <2> QED BY <2>1 DEF RawStates, TypeOK, Maps
<1>6. /\ \A m \in Nodes : DOMAIN raw'[m] = DOMAIN raw[m]
      /\ \A m \in Nodes : \A t \in DOMAIN raw[m] : m # n \/ t # s => raw'[m][t] = raw[m][t]
  BY <1>3, <1>5
<1>7. /\ raw'[n][s].sent = raw[n][s].sent + 1
      /\ raw'[n][s].got = raw[n][s].got /\ raw'[n][s].closed = raw[n][s].closed
      /\ raw'[n][s].dialer = raw[n][s].dialer /\ raw'[n][s].ready = raw[n][s].ready
  <2>1. PICK r : r = raw[n][s]
    OBVIOUS
  <2>2. r \in RawStates
    BY <2>1 DEF TypeOK, Maps
  <2>3. raw'[n][s] = [r EXCEPT !.sent = r.sent + 1]
    BY <1>3, <1>5, <2>1
  <2> QED BY <2>1, <2>2, <2>3 DEF RawStates
<1>8. /\ \A m \in Nodes : \A t \in DOMAIN raw[m] :
           /\ raw'[m][t].got = raw[m][t].got /\ raw'[m][t].closed = raw[m][t].closed
           /\ raw'[m][t].dialer = raw[m][t].dialer /\ raw'[m][t].ready = raw[m][t].ready
           /\ raw'[m][t].sent = IF m = n /\ t = s THEN raw[m][t].sent + 1 ELSE raw[m][t].sent
  BY <1>6, <1>7
<1>9. WireFlow(W, V, wire)' /\ GotInOrder' /\ RawSteady
  <2>1. WireFlow(W, V, wire)'
    BY <1>o, <1>3, FlowNow
  <2>2. GotInOrder'
    <3>1. ASSUME NEW m \in Nodes, NEW t \in DOMAIN raw'[m], NEW i \in DOMAIN raw'[m][t].got
          PROVE  raw'[m][t].got[i].no = i
      <4>1. t \in DOMAIN raw[m] /\ raw'[m][t].got = raw[m][t].got
        BY <1>6, <1>8, <3>1
      <4> QED BY <1>o, <3>1, <4>1 DEF GotInOrder
    <3> QED BY <3>1 DEF GotInOrder
  <2>3. RawSteady
    BY <1>1, <1>4, <1>6, <1>8 DEF RawSteady
  <2> QED BY <2>1, <2>2, <2>3
<1>10. Takes(W, n, c, s, f, x)
  <2>1. Arrived(W, n, c, s) = raw[n][s].sent
    BY <1>4 DEF Arrived
  <2>2. Drawn(n, c) /\ EndAt(n, c, s)
    BY <1>1, <1>4 DEF Drawn, EndAt
  <2>3. /\ x.pc = "found" => x = Found(f, Lookup(n, c, s))
        /\ x.pc # "found" => Lookup(n, c, s) = {}
    BY <1>2, PlainStates DEF Found
  <2>4. f.cmd = "data" /\ f.sid = s /\ f.payload.no = raw[n][s].sent + 1
    BY <1>1 DEF Data
  <2> QED BY <1>3, <1>4, <1>5, <2>1, <2>2, <2>3, <2>4 DEF Takes
<1>11. OneArrived(W, W, V, n, c, s)
  <2>1. Arrived(W, n, c, s)' = Arrived(W, n, c, s) + 1
    BY <1>4, <1>7 DEF Arrived
  <2>2. ASSUME NEW m \in Nodes, NEW d, NEW t, EndAt(m, d, t)
        PROVE  /\ m # n \/ d # c \/ t # s => Arrived(W, m, d, t)' = Arrived(W, m, d, t)
               /\ Left(V, m, d, t)' = Left(V, m, d, t)
               /\ Shut(m, d)' <=> Shut(m, d)
    <3>1. CASE d \in Channels
      <4>1. d.type = "channel"
        BY <3>1, ConnFacts
      <4> QED BY <4>1 DEF Arrived, Left, Shut
    <3>2. CASE d = Raw(t) /\ t \in DOMAIN raw[m]
      <4>1. d.type = "raw" /\ d.sid = t
        BY <3>2, ConnFacts
      <4> QED BY <1>1, <1>8, <3>2, <4>1 DEF Arrived, Left, Shut
    <3> QED BY <2>2, <3>1, <3>2 DEF EndAt
  <2> QED BY <2>1, <2>2 DEF OneArrived
<1> QED BY <1>o, <1>3, <1>9, <1>10, <1>11, IntakeFlow

(***************************************************************************)
(* A reader passes on the payload it holds.                                *)
(***************************************************************************)
\* One more has left n to d for session t, and nothing else has changed.
OneLeft(W, V, V2, n, d, t) ==
    /\ \A m \in Nodes : \A g, u : EndAt(m, g, u) =>
         /\ m # n \/ g # d \/ u # t => Left(V2, m, g, u)' = Left(V, m, g, u)
         /\ Arrived(W, m, g, u)' = Arrived(W, m, g, u)
         /\ Shut(m, g) => Shut(m, g)'
    /\ Shut(n, d) \/ Left(V2, n, d, t)' = Left(V, n, d, t) + 1

\* The reader of c has a payload of session s, and goes on as x without it.
Passes(n, c, s, x) ==
    /\ c \in DOMAIN reader[n] /\ Acting(n, c, "data") /\ reader[n][c].frame.sid = s
    /\ x.pc # "found" /\ OnlyGoes(n, c, x)

LEMMA HoldsPassed ==
    ASSUME NEW n \in Nodes, NEW c, NEW s, NEW x, Passes(n, c, s, x)
    PROVE  /\ Holding(n, c, s) /\ ~Holding(n, c, s)'
           /\ \A m \in Nodes : \A d, t : m # n \/ d # c \/ t # s =>
                (Holding(m, d, t)' <=> Holding(m, d, t))
<1>1. /\ c \in DOMAIN reader[n] /\ Acting(n, c, "data") /\ reader[n][c].frame.sid = s
      /\ reader'[n][c].pc # "found"
  BY DEF Passes, OnlyGoes
<1>2. /\ Holding(n, c, s) /\ ~Holding(n, c, s)'
      /\ \A t : t # s => ~Holding(n, c, t) /\ ~Holding(n, c, t)'
  BY <1>1 DEF Holding, Acting
<1>3. ASSUME NEW m \in Nodes, NEW d, NEW t, m # n \/ d # c
      PROVE  Holding(m, d, t)' <=> Holding(m, d, t)
  BY <1>3 DEF Holding, Acting, OnlyGoes, Passes
<1> QED BY <1>2, <1>3

\* What one reader passes on, and the counts of it: by the entry e, to hop.
Outlet(H, W, V, V2, n, c, s, x, e, hop) ==
    /\ V \in Counts /\ V2 \in Counts /\ W \in Counts
    /\ Recorded(H, n, e) /\ c \in {e.src, e.dst} /\ SidAt(e, c) = s /\ hop = NextHop(e, c)
    /\ Passes(n, c, s, x) /\ OneLeft(W, V, V2, n, hop.conn, hop.sid)

LEMMA PassThrough ==
    ASSUME IdsAssumption, LinksAssumption, OneWay, TypeOK, NEW H, History(H), RawsMade(H),
           NEW W, NEW V, NEW V2, NEW n, NEW c, NEW s, NEW x, NEW e, NEW hop,
           Outlet(H, W, V, V2, n, c, s, x, e, hop),
           NEW m, NEW g, Recorded(H, m, g), NEW d, d \in {g.src, g.dst}, Through(W, V, m, g, d)
    PROVE  Through(W, V2, m, g, d)'
<1>h. IdsAssumption /\ LinksAssumption /\ OneWay /\ History(H) /\ RawsMade(H)
  OBVIOUS
<1>n. n \in Nodes /\ m \in Nodes
  BY RecordedAt DEF Outlet
<1>o. /\ V \in Counts /\ W \in Counts /\ V2 \in Counts
      /\ Recorded(H, n, e) /\ c \in {e.src, e.dst} /\ SidAt(e, c) = s /\ hop = NextHop(e, c)
      /\ Passes(n, c, s, x) /\ OneLeft(W, V, V2, n, hop.conn, hop.sid)
  BY DEF Outlet
<1>1. PICK end, t : end = NextHop(g, d) /\ t = SidAt(g, d)
  OBVIOUS
<1>2. EndAt(m, d, t) /\ EndAt(m, end.conn, end.sid)
  BY <1>n, <1>1, EndsOf
<1>3. /\ Arrived(W, m, d, t)' = Arrived(W, m, d, t)
      /\ Shut(m, end.conn) => Shut(m, end.conn)'
      /\ m # n \/ end.conn # hop.conn \/ end.sid # hop.sid =>
           Left(V2, m, end.conn, end.sid)' = Left(V, m, end.conn, end.sid)
  BY <1>n, <1>o, <1>2 DEF OneLeft
<1>4. /\ Holding(n, c, s) /\ ~Holding(n, c, s)'
      /\ m # n \/ d # c \/ t # s => (Holding(m, d, t)' <=> Holding(m, d, t))
  BY <1>n, <1>o, HoldsPassed
<1>5. \/ Shut(m, end.conn)
      \/ Arrived(W, m, d, t) = Left(V, m, end.conn, end.sid) + (IF Holding(m, d, t) THEN 1 ELSE 0)
  BY <1>1 DEF Through
<1>6. CASE Shut(m, end.conn)
  <2>1. Shut(m, end.conn)'
    BY <1>3, <1>6
  <2> QED BY <1>1, <2>1 DEF Through
<1>7. CASE m = n /\ d = c /\ t = s /\ ~Shut(m, end.conn)
  <2>1. end = hop
    <3>1. Recorded(H, n, g) /\ d \in {g.src, g.dst} /\ SidAt(g, d) = SidAt(e, c)
      BY <1>o, <1>1, <1>7
    <3>2. g = e
      BY <1>n, <1>o, <1>7, <3>1, OneEnd
    <3> QED BY <1>o, <1>1, <1>7, <3>2
  <2>2. PICK p, q : p = Left(V, n, hop.conn, hop.sid) /\ q = Arrived(W, n, c, s)
    OBVIOUS
  <2>3. q = p + 1
    BY <1>4, <1>5, <1>7, <2>1, <2>2
  <2>4. Left(V2, n, hop.conn, hop.sid)' = p + 1 /\ Arrived(W, n, c, s)' = q
    BY <1>n, <1>o, <1>3, <1>7, <2>1, <2>2 DEF OneLeft
  <2>5. p \in Nat
    BY <1>n, <1>o, <1>2, <1>7, <2>1, <2>2, LeftNumber
  <2>6. Arrived(W, m, d, t)' = Left(V2, m, end.conn, end.sid)' + 0 /\ ~Holding(m, d, t)'
    BY <1>4, <1>7, <2>1, <2>3, <2>4, <2>5
  <2> QED BY <1>1, <2>6 DEF Through
<1>8. CASE m # n \/ d # c \/ t # s
  <2>1. m # n \/ end.conn # hop.conn \/ end.sid # hop.sid
    <3>1. SUFFICES ASSUME m = n, end.conn = hop.conn, end.sid = hop.sid PROVE FALSE
      OBVIOUS
    <3>2. /\ Recorded(H, n, g) /\ NextHop(g, d).conn = NextHop(e, c).conn
          /\ NextHop(g, d).sid = NextHop(e, c).sid /\ d \in {g.src, g.dst}
          /\ Recorded(H, n, e) /\ c \in {e.src, e.dst} /\ n \in Nodes
      BY <1>n, <1>o, <1>1, <3>1
    <3>3. g = e /\ d = c
      BY ONLY <1>h, <3>2, OneEnd
    <3> QED BY <1>o, <1>1, <1>8, <3>1, <3>3
  <2>2. \/ Shut(m, end.conn)'
        \/ Arrived(W, m, d, t)' = Left(V2, m, end.conn, end.sid)' + (IF Holding(m, d, t)' THEN 1 ELSE 0)
    BY <1>3, <1>4, <1>5, <1>8, <2>1
  <2> QED BY <1>1, <2>2 DEF Through
<1> QED BY <1>6, <1>7, <1>8

LEMMA PassFlow ==
    ASSUME IdsAssumption, LinksAssumption, OneWay, TypeOK,
           NEW H, NEW Z, Owned(H, Z), NEW W, NEW V, Flow(H, Z, W, V),
           NEW V2, NEW n \in Nodes, NEW c, NEW s, NEW x, NEW e, NEW hop,
           Outlet(H, W, V, V2, n, c, s, x, e, hop), Goto(n, c, x), Grounded(H, Z, V2),
           RawSteady, UNCHANGED <<table, dialing>>, GotInOrder', WireFlow(W, V2, wire)'
    PROVE  FlowAfter(H, Z)
<1>h. LinksAssumption /\ OneWay /\ TypeOK /\ History(H) /\ RawsMade(H) /\ n \in Nodes /\ IdsAssumption
  BY DEF Owned
<1>o. /\ TablesOwned(H) /\ ReadersOwned(H, Z) /\ W \in Counts /\ V2 \in Counts
      /\ TableFlow(W, V) /\ ReaderFlow(W, V) /\ RawsStarted /\ Pending
      /\ x.pc # "found" /\ OneLeft(W, V, V2, n, hop.conn, hop.sid)
  BY DEF Owned, Flow, Outlet, Passes
<1>1. RawsStarted' /\ Pending' /\ OnlyGoes(n, c, x)
  BY <1>o, StartedKept
<1>i. Outlet(H, W, V, V2, n, c, s, x, e, hop)
  OBVIOUS
<1>2. ASSUME NEW m \in Nodes, NEW g, InTable(m, g), NEW d \in {g.src, g.dst}
      PROVE  Through(W, V2, m, g, d)'
  <2>0. Recorded(H, m, g)
    BY <1>o, <1>2 DEF InTable, TablesOwned
  <2>1. Recorded(H, m, g) /\ Through(W, V, m, g, d)
    BY <1>o, <1>2, <2>0 DEF TableFlow
  <2>3. m \in Nodes /\ d \in {g.src, g.dst}
    BY <1>2
  <2> QED BY ONLY <1>h, <1>i, <2>1, <2>3, PassThrough
<1>3. TableFlow(W, V2)'
  <2>1. \A m \in Nodes : \A g : InTable(m, g)' => InTable(m, g)
    BY DEF InTable
  <2> QED BY <1>2, <2>1 DEF TableFlow
<1>4. ASSUME NEW m \in Nodes, NEW d \in DOMAIN reader[m], NEW y, y = reader[m][d], y.pc = "found"
      PROVE  /\ \A g \in y.router : Through(W, V2, m, g, d)'
             /\ y.frame.cmd = "data" =>
                  y.frame.payload.no > 0 /\ y.frame.payload.no = Arrived(W, m, d, y.frame.sid)'
  <2>0. y = reader[m][d]
    BY <1>4
  <2>1. FoundOwned(H, Z, m, d, y)
    BY <1>o, <1>4, <2>0 DEF ReadersOwned, ReaderOwned
  <2>2. ASSUME NEW g \in y.router PROVE Through(W, V2, m, g, d)'
    <3>1. Recorded(H, m, g) /\ d \in {g.src, g.dst} /\ Through(W, V, m, g, d)
      BY <1>o, <1>4, <2>0, <2>1, <2>2 DEF FoundOwned, Matches, ReaderFlow
    <3>2. m \in Nodes
      BY <1>4
    <3> QED BY ONLY <1>h, <1>i, <3>1, <3>2, PassThrough
  <2>3. ASSUME y.frame.cmd = "data"
        PROVE  y.frame.payload.no > 0 /\ y.frame.payload.no = Arrived(W, m, d, y.frame.sid)'
    <3>1. y.frame.payload.no > 0 /\ y.frame.payload.no = Arrived(W, m, d, y.frame.sid)
      BY <1>o, <1>4, <2>0, <2>3 DEF ReaderFlow
    <3>2. EndAt(m, d, y.frame.sid)
      <4>1. Acting(m, d, "data")
        BY <1>4, <2>0, <2>3 DEF Acting
      <4> QED BY <1>o, <2>0, <4>1, FrameEnd
    <3>3. Arrived(W, m, d, y.frame.sid)' = Arrived(W, m, d, y.frame.sid)
      BY <1>o, <1>4, <3>2 DEF OneLeft
    <3> QED BY <3>1, <3>3
  <2> QED BY <2>2, <2>3
<1>6. ReaderFlow(W, V2)'
  <2>1. SUFFICES ASSUME NEW m \in Nodes, NEW d \in DOMAIN reader'[m], reader'[m][d].pc = "found"
                 PROVE  /\ \A g \in reader'[m][d].router : Through(W, V2, m, g, d)'
                        /\ reader'[m][d].frame.cmd = "data" =>
                             /\ reader'[m][d].frame.payload.no > 0
                             /\ (reader[m][d].frame.payload.no = Arrived(W, m, d, reader[m][d].frame.sid))'
    BY DEF ReaderFlow
  <2>2. d \in DOMAIN reader[m]
    BY <1>1, <2>1 DEF OnlyGoes
  <2>3. reader'[m][d] = reader[m][d]
    BY <1>1, <1>o, <2>1, <2>2 DEF OnlyGoes
  <2>4. PICK y : y = reader[m][d]
    OBVIOUS
  <2>5. Arrived(W, m, d, reader[m][d].frame.sid)' = Arrived(W, m, d, y.frame.sid)'
    BY <2>3, <2>4 DEF Arrived
  <2>6. /\ \A g \in y.router : Through(W, V2, m, g, d)'
        /\ y.frame.cmd = "data" =>
             y.frame.payload.no > 0 /\ y.frame.payload.no = Arrived(W, m, d, y.frame.sid)'
    <3>1. y.pc = "found"
      BY <2>1, <2>3, <2>4
    <3> QED BY <1>4, <2>2, <2>4, <3>1
  <2> QED BY <2>3, <2>4, <2>5, <2>6
<1>7. Grounded(H, Z, V2)'
  BY DEF Grounded, Started
<1> QED BY <1>o, <1>1, <1>3, <1>6, <1>7 DEF FlowAfter, Flow

\* The next payload of session t is put on a channel; it is lost if an end is closed.
LEMMA FlowPut ==
    ASSUME LinksAssumption, TypeOK, NEW W \in Counts, NEW V \in Counts, WireFlow(W, V, wire),
           NEW n \in Nodes, NEW l \in LinksOf(n), NEW f \in Frames, NEW t \in Nat, IsData(f, t),
           f.payload.no = V[n][l][t] + 1, NEW V2, Bumped(V, V2, n, l, t),
           NEW u, u = Sent(wire, n, l, f)
    PROVE  WireFlow(W, V2, u)
<1>1. PICK p : p = Peer(n, l)
  OBVIOUS
<1>2. /\ wire \in Wires /\ l \in Links /\ p \in Nodes /\ Peer(p, l) = n /\ l \in LinksOf(p)
      /\ BothOpen(p, l) <=> BothOpen(n, l)
  BY <1>1, PeerFacts DEF TypeOK, BothOpen
<1>3. \A m \in Nodes : \A j \in LinksOf(m) : \A s \in Nat :
        /\ W[m][j][s] \in Nat /\ V[Peer(m, j)][j][s] \in Nat
        /\ W[m][j][s] <= V[Peer(m, j)][j][s]
        /\ Flows(wire[m][j], s, W[m][j][s], V[Peer(m, j)][j][s], BothOpen(m, j))
        /\ wire[m][j] \in Seq(Frames) /\ j \in Links /\ Peer(m, j) \in Nodes
  <2>1. ASSUME NEW m \in Nodes, NEW j \in LinksOf(m)
        PROVE  Peer(m, j) \in Nodes /\ j \in Links /\ wire[m][j] \in Seq(Frames)
    BY <1>2, PeerFacts DEF Wires
  <2>2. \A m \in Nodes : \A j \in Links : \A s \in Nat : W[m][j][s] \in Nat /\ V[m][j][s] \in Nat
    BY CountType
  <2> QED BY <2>1, <2>2 DEF WireFlow
<1>4. \A m \in Nodes : \A j \in Links :
        u[m][j] = IF m = p /\ j = l /\ BothOpen(n, l) THEN Append(wire[m][j], f) ELSE wire[m][j]
  BY <1>1, <1>2 DEF Sent, Wires
<1>5. ASSUME NEW m \in Nodes, NEW j \in LinksOf(m), NEW s \in Nat
      PROVE  /\ W[m][j][s] <= V2[Peer(m, j)][j][s]
             /\ Flows(u[m][j], s, W[m][j][s], V2[Peer(m, j)][j][s], BothOpen(m, j))
  <2>1. PICK w, lo, hi, b : /\ w = wire[m][j] /\ lo = W[m][j][s] /\ hi = V[Peer(m, j)][j][s]
                            /\ b = BothOpen(m, j)
    OBVIOUS
  <2>2. w \in Seq(Frames) /\ lo \in Nat /\ hi \in Nat /\ lo <= hi /\ Flows(w, s, lo, hi, b) /\ j \in Links
    BY <1>3, <2>1
  <2>3. CASE m = p /\ j = l /\ s = t
    <3>1. V2[Peer(m, j)][j][s] = hi + 1 /\ f.payload.no = hi + 1 /\ IsData(f, s)
      BY <1>2, <2>1, <2>3 DEF Bumped
    <3>2. CASE BothOpen(n, l)
      <4>1. Flows(w, s, lo, hi, TRUE) /\ b = TRUE
        <5>1. b
          BY <1>2, <2>1, <2>3, <3>2
        <5> QED BY <2>1, <2>2, <5>1 DEF Flows, BothOpen
      <4>2. Flows(Append(w, f), s, lo, hi + 1, TRUE)
        BY ONLY f \in Frames, <2>2, <3>1, <4>1, DataAppended
      <4>3. u[m][j] = Append(w, f)
        BY <1>4, <2>1, <2>2, <2>3, <3>2
      <4>4. lo <= hi + 1
        BY <2>2
      <4> QED BY <2>1, <3>1, <4>1, <4>2, <4>3, <4>4
    <3>3. CASE ~BothOpen(n, l)
      <4>1. Flows(w, s, lo, hi + 1, FALSE)
        BY ONLY <2>2, FlowsLess
      <4>4. lo <= hi + 1
        BY <2>2
      <4>2. u[m][j] = w /\ ~BothOpen(m, j)
        BY <1>2, <1>4, <2>1, <2>2, <2>3, <3>3
      <4>3. Flows(w, s, lo, hi + 1, BothOpen(m, j))
        BY <4>1, <4>2 DEF Flows
      <4> QED BY <2>1, <3>1, <4>2, <4>3, <4>4
    <3> QED BY <3>2, <3>3
  <2>4. CASE m # p \/ j # l \/ s # t
    <3>1. V2[Peer(m, j)][j][s] = hi
      <4>1. Peer(m, j) # n \/ j # l \/ s # t
        BY <1>1, <2>4, PeerFacts
      <4> QED BY <1>3, <2>1, <2>2, <4>1 DEF Bumped
    <3>2. Flows(u[m][j], s, lo, hi, b)
      <4>1. CASE m = p /\ j = l /\ BothOpen(n, l)
        <5>1. ~IsData(f, s)
          BY <2>4, <4>1 DEF IsData
        <5>2. Flows(Append(w, f), s, lo, hi, b)
          BY <2>2, <5>1, OtherAppended
        <5> QED BY <1>4, <2>1, <2>2, <4>1, <5>2
      <4>2. CASE ~(m = p /\ j = l /\ BothOpen(n, l))
        BY <1>4, <2>1, <2>2, <4>2
      <4> QED BY <4>1, <4>2
    <3> QED BY <2>1, <2>2, <3>1, <3>2
  <2> QED BY <2>3, <2>4
<1> QED BY <1>5 DEF WireFlow

\* A payload leaves over a channel only once the dial of its session got past it.
LEMMA StartedHop ==
    ASSUME IdsAssumption, LinksAssumption, OneWay, TypeOK,
           NEW H, NEW Z, Owned(H, Z), NEW W, NEW V, Flow(H, Z, W, V),
           NEW n \in Nodes, NEW c \in DOMAIN reader[n], NEW s \in Nat, NEW e, Recorded(H, n, e),
           Matches(e, c, s), c \in Conns, c.type = "channel" => c.link \in LinksOf(n),
           Arrived(W, n, c, s) > 0,
           NEW hop, hop = NextHop(e, c), hop.conn.type # "raw",
           NEW l, l = hop.conn.link
    PROVE  l \in LinksOf(n) /\ hop.conn = Channel(l) /\ hop.sid \in Nat /\ Started(H, Z, n, l, hop.sid)
<1>o. /\ History(H) /\ RawsOwned(H, Z) /\ AllPlaced(H, Z)
      /\ W \in Counts /\ V \in Counts /\ Grounded(H, Z, V) /\ WireFlow(W, V, wire) /\ RawsStarted
  BY DEF Owned, Flow
<1>e. /\ e \in Entries /\ <<n, e.dsid>> \in DOMAIN H /\ H[<<n, e.dsid>>] = e /\ Genuine(H, n, e)
      /\ e.ssid \in Nat /\ e.dsid \in Nat /\ Placed(Z, n, e)
  <2>1. e \in Entries
    BY <1>o, RecordedAt
  <2> QED BY <1>o, <2>1, RecordedAt, PlacedAt DEF Entries
<1>a. ASSUME Arrives(n, e), hop = [conn |-> e.src, sid |-> e.ssid]
      PROVE  /\ l \in LinksOf(n) /\ hop.conn = Channel(l) /\ hop.sid \in Nat
             /\ Started(H, Z, n, l, hop.sid)
  <2>1. hop.conn = e.src /\ hop.sid = e.ssid
    BY <1>a
  <2>2. e.src = Channel(l) /\ l \in LinksOf(n) /\ Up(n, l)
    BY <1>a, <2>1, ConnFacts DEF Arrives
  <2> QED BY <1>e, <2>1, <2>2 DEF Started
<1>1. CASE c \notin Channels
  <2>1. /\ e.dst = c /\ e.dsid = s /\ c = Raw(s)
        /\ CallerEntry(n, e) \/ Arrives(n, e)
        /\ hop = [conn |-> e.src, sid |-> e.ssid]
    <3>1. /\ e.src \in Channels /\ (e.dst = Raw(e.dsid) \/ RelayEntry(n, e))
          /\ RelayEntry(n, e) <=> e.dst \in Channels
      BY <1>e, Kinds
    <3>2. e.dst = c /\ e.dsid = s /\ e.src # c
      BY <1>1, <3>1 DEF Matches
    <3>3. c = Raw(s)
      BY <1>1, <3>1, <3>2
    <3>4. hop = [conn |-> e.src, sid |-> e.ssid]
      BY <3>2 DEF NextHop
    <3>5. CallerEntry(n, e) \/ Arrives(n, e)
      BY <1>e DEF Genuine, RelayEntry, LastEntry
    <3> QED BY <3>2, <3>3, <3>4, <3>5
  <2>2. CASE CallerEntry(n, e)
    <3>1. /\ e.src \in Channels /\ e.src.link \in LinksOf(n) /\ Down(n, e.src.link) /\ e.ssid = s
          /\ hop.conn = e.src /\ hop.sid = s /\ e.dsid = s
      BY <1>o, <1>1, <2>1, <2>2, HopRaw DEF CallerEntry
    <3>2. e.src = Channel(l) /\ l \in LinksOf(n) /\ Down(n, l)
      BY <3>1, ConnFacts
    <3>3. s \in DOMAIN raw[n] /\ (raw[n][s].dialer => raw[n][s].ready)
      <4>1. c.type = "raw" /\ c.sid = s
        BY <2>1, ConnFacts
      <4> QED BY <1>o, <4>1 DEF RawsStarted
    <3>4. RawOwned(H, Z, n, s, raw[n][s]) /\ H[<<n, s>>] = e /\ <<n, s>> \in DOMAIN H
      BY <1>o, <1>e, <3>1, <3>3 DEF RawsOwned
    <3>5. Stage(Z, l, s) = "done"
      BY <3>1, <3>2, <3>3, <3>4 DEF RawOwned
    <3> QED BY <3>1, <3>2, <3>4, <3>5 DEF Started
  <2>3. CASE Arrives(n, e)
    BY <1>a, <2>1, <2>3
  <2> QED BY <2>1, <2>2, <2>3
<1>2. CASE c \in Channels
  <2>1. PICK k : k = c.link
    OBVIOUS
  <2>2. c = Channel(k) /\ k \in LinksOf(n) /\ c.type = "channel"
    BY <1>2, <2>1, ConnFacts
  <2>3. Matches(e, Channel(k), s) /\ hop = NextHop(e, Channel(k))
    BY <2>2
  <2>4. CASE Up(n, k)
    <3>1. /\ Arrives(n, e) /\ e.src = Channel(k) /\ e.ssid = s
          /\ e.dst = Raw(e.dsid) \/ RelayEntry(n, e)
          /\ hop = [conn |-> e.dst, sid |-> e.dsid]
      <4>1. Matches(e, Channel(k), s) /\ hop = NextHop(e, Channel(k))
        BY <2>2
      <4> QED BY <1>o, <2>2, <2>4, <4>1, HopUp
    <3>2. hop.conn = e.dst /\ hop.sid = e.dsid
      BY <3>1
    <3>3. RelayEntry(n, e)
      BY <3>1, <3>2, ConnFacts
    <3>4. e.dst = Channel(l) /\ l \in LinksOf(n) /\ Down(n, l)
      BY <3>2, <3>3, ConnFacts DEF RelayEntry
    <3>5. Stage(Z, k, s) = "done"
      <4>1. PICK p : p = Peer(n, k)
        OBVIOUS
      <4>2. k \in Links /\ p \in Nodes /\ k \in LinksOf(p) /\ ~Up(p, k)
        BY <2>2, <2>4, <4>1, PeerFacts, WayFacts
      <4>3. W[n][k][s] > 0 /\ W[n][k][s] \in Nat /\ V[p][k][s] \in Nat
        BY <1>o, <2>1, <2>2, <4>2 DEF Arrived, Counts
      <4>4. W[n][k][s] <= V[p][k][s]
        BY <1>o, <2>2, <4>1 DEF WireFlow
      <4>5. V[p][k][s] > 0
        BY <4>3, <4>4
      <4>6. Started(H, Z, p, k, s)
        BY <1>o, <4>2, <4>5 DEF Grounded
      <4> QED BY <4>2, <4>6 DEF Started
    <3>6. Stage(Z, l, e.dsid) = "done"
      <4>1. e.src.link = k /\ e.dst.link = l
        BY <3>1, <3>4, ConnFacts
      <4> QED BY <1>e, <3>1, <3>3, <3>5, <4>1 DEF Placed
    <3> QED BY <1>e, <3>2, <3>4, <3>6 DEF Started
  <2>5. CASE Down(n, k)
    <3>1. \/ CallerEntry(n, e) /\ e.dst = Raw(s) /\ hop = [conn |-> e.dst, sid |-> e.dsid]
          \/ RelayEntry(n, e) /\ hop = [conn |-> e.src, sid |-> e.ssid]
      BY <1>o, <2>2, <2>3, <2>5, HopDown
    <3>2. CASE e.dst = Raw(s) /\ hop = [conn |-> e.dst, sid |-> e.dsid]
      <4>1. hop.conn = Raw(s)
        BY <3>2
      <4> QED BY <4>1, ConnFacts
    <3>3. CASE RelayEntry(n, e) /\ hop = [conn |-> e.src, sid |-> e.ssid]
      BY <1>a, <3>3 DEF RelayEntry
    <3> QED BY <3>1, <3>2, <3>3
  <2>6. Up(n, k) \/ Down(n, k)
    <3>3. CASE e.src = c
      BY <1>e, <2>1, <3>3, Kinds
    <3>4. CASE e.dst = c
      <4>1. RelayEntry(n, e)
        BY <1>2, <1>e, <3>4, Kinds
      <4> QED BY <2>1, <3>4, <4>1 DEF RelayEntry
    <3> QED BY <3>3, <3>4 DEF Matches
  <2> QED BY <2>4, <2>5, <2>6
<1> QED BY <1>1, <1>2

\* RawConn.WriteFrame: a raw connection takes the payload, unless it is closed.
LEMMA DeliverFacts ==
    ASSUME TypeOK, NEW n \in Nodes, NEW t \in DOMAIN raw[n], NEW p \in Payloads, raw' = Deliver(n, t, p)
    PROVE  /\ \A m \in Nodes : DOMAIN raw'[m] = DOMAIN raw[m]
           /\ \A m \in Nodes : \A u \in DOMAIN raw[m] :
                /\ raw'[m][u].sent = raw[m][u].sent /\ raw'[m][u].closed = raw[m][u].closed
                /\ raw'[m][u].dialer = raw[m][u].dialer /\ raw'[m][u].ready = raw[m][u].ready
                /\ m # n \/ u # t \/ raw[m][u].closed => raw'[m][u].got = raw[m][u].got
           /\ ~raw[n][t].closed => raw'[n][t].got = Append(raw[n][t].got, p)
           /\ raw[n][t].got \in Seq(Payloads)
<1>1. PICK r : r = raw[n][t]
  OBVIOUS
<1>2. r \in RawStates /\ DOMAIN raw = Nodes
  BY <1>1 DEF TypeOK, Maps
<1>3. CASE r.closed
  <2>1. UNCHANGED raw
    BY <1>1, <1>3 DEF Deliver
  <2> QED BY <1>1, <1>2, <1>3, <2>1 DEF RawStates
<1>4. CASE ~r.closed
  <2>1. raw' = [raw EXCEPT ![n][t].got = Append(@, p)]
    BY <1>1, <1>4 DEF Deliver
  <2>2. /\ \A m \in Nodes : DOMAIN raw'[m] = DOMAIN raw[m]
        /\ \A m \in Nodes : \A u \in DOMAIN raw[m] : m # n \/ u # t => raw'[m][u] = raw[m][u]
    BY <1>2, <2>1
  <2>3. raw'[n][t] = [r EXCEPT !.got = Append(r.got, p)]
    BY <1>1, <1>2, <2>1
  <2>4. /\ raw'[n][t].sent = r.sent /\ raw'[n][t].closed = r.closed
        /\ raw'[n][t].dialer = r.dialer /\ raw'[n][t].ready = r.ready
        /\ raw'[n][t].got = Append(r.got, p) /\ r.got \in Seq(Payloads)
    BY <1>2, <2>3 DEF RawStates
  <2>5. \A m \in Nodes : \A u \in DOMAIN raw[m] :
                /\ raw'[m][u].sent = raw[m][u].sent /\ raw'[m][u].closed = raw[m][u].closed
                /\ raw'[m][u].dialer = raw[m][u].dialer /\ raw'[m][u].ready = raw[m][u].ready
                /\ m # n \/ u # t \/ raw[m][u].closed => raw'[m][u].got = raw[m][u].got
    BY <1>1, <1>4, <2>2, <2>4
  <2> QED BY <1>1, <2>2, <2>4, <2>5
<1> QED BY <1>3, <1>4

\* It is handed to the raw connection of the session.
LEMMA HandedFlow ==
    ASSUME TypeOK, NEW W \in Counts, NEW V \in Counts, GotInOrder,
           NEW n \in Nodes, NEW t \in DOMAIN raw[n], NEW p \in Payloads, raw' = Deliver(n, t, p),
           NEW d, d = Raw(t), Shut(n, d) \/ p.no = Left(V, n, d, t) + 1
    PROVE  RawSteady /\ GotInOrder' /\ OneLeft(W, V, V, n, d, t)
<1>1. /\ \A m \in Nodes : DOMAIN raw'[m] = DOMAIN raw[m]
      /\ \A m \in Nodes : \A u \in DOMAIN raw[m] :
           /\ raw'[m][u].sent = raw[m][u].sent /\ raw'[m][u].closed = raw[m][u].closed
           /\ raw'[m][u].dialer = raw[m][u].dialer /\ raw'[m][u].ready = raw[m][u].ready
           /\ m # n \/ u # t \/ raw[m][u].closed => raw'[m][u].got = raw[m][u].got
      /\ ~raw[n][t].closed => raw'[n][t].got = Append(raw[n][t].got, p)
      /\ raw[n][t].got \in Seq(Payloads)
  BY DeliverFacts
<1>2. d.type = "raw" /\ d.sid = t
  BY ConnFacts
<1>3. PICK g : g = raw[n][t].got
  OBVIOUS
<1>4. ~raw[n][t].closed =>
        /\ p.no = Len(g) + 1 /\ raw'[n][t].got = Append(g, p) /\ g \in Seq(Payloads)
        /\ Len(raw'[n][t].got) = Len(g) + 1
  <2>1. SUFFICES ASSUME ~raw[n][t].closed
                 PROVE  /\ p.no = Len(g) + 1 /\ raw'[n][t].got = Append(g, p) /\ g \in Seq(Payloads)
                        /\ Len(raw'[n][t].got) = Len(g) + 1
    OBVIOUS
  <2>2. p.no = Len(g) + 1
    BY <1>2, <1>3, <2>1 DEF Shut, Left
  <2>3. raw'[n][t].got = Append(g, p) /\ g \in Seq(Payloads)
    BY <1>1, <1>3, <2>1
  <2>4. Len(Append(g, p)) = Len(g) + 1
    BY <2>3
  <2> QED BY <2>2, <2>3, <2>4
<1>5. RawSteady
  BY <1>1 DEF RawSteady
<1>6. GotInOrder'
  <2>1. ASSUME NEW m \in Nodes, NEW u \in DOMAIN raw'[m], NEW i \in DOMAIN raw'[m][u].got
        PROVE  raw'[m][u].got[i].no = i
    <3>1. u \in DOMAIN raw[m]
      BY <1>1, <2>1
    <3>2. CASE m # n \/ u # t \/ raw[m][u].closed
      <4>1. raw'[m][u].got = raw[m][u].got
        BY <1>1, <3>1, <3>2
      <4> QED BY <2>1, <3>1, <4>1 DEF GotInOrder
    <3>3. CASE m = n /\ u = t /\ ~raw[m][u].closed
      <4>1. PICK a : a = Append(g, p)
        OBVIOUS
      <4>2. i \in DOMAIN a /\ p.no = Len(g) + 1 /\ g \in Seq(Payloads) /\ raw'[m][u].got = a
        BY <1>4, <2>1, <3>3, <4>1
      <4>3. (i \in DOMAIN g /\ a[i] = g[i]) \/ (i = Len(g) + 1 /\ a[i] = p)
        BY <4>1, <4>2
      <4>4. \A j \in DOMAIN g : g[j].no = j
        BY <1>3 DEF GotInOrder
      <4> QED BY <4>2, <4>3, <4>4
    <3> QED BY <3>2, <3>3
  <2> QED BY <2>1 DEF GotInOrder
<1>7. OneLeft(W, V, V, n, d, t)
  <2>1. ASSUME NEW m \in Nodes, NEW k, NEW u, EndAt(m, k, u)
        PROVE  /\ m # n \/ k # d \/ u # t => Left(V, m, k, u)' = Left(V, m, k, u)
               /\ Arrived(W, m, k, u)' = Arrived(W, m, k, u)
               /\ Shut(m, k) => Shut(m, k)'
    <3>1. CASE k \in Channels
      <4>1. k.type = "channel"
        BY <3>1, ConnFacts
      <4> QED BY <4>1 DEF Arrived, Left, Shut
    <3>2. CASE k = Raw(u) /\ u \in DOMAIN raw[m]
      <4>1. k.type = "raw" /\ k.sid = u
        BY <3>2, ConnFacts
      <4> QED BY <1>1, <3>2, <4>1 DEF Arrived, Left, Shut
    <3> QED BY <2>1, <3>1, <3>2 DEF EndAt
  <2>2. Shut(n, d) \/ Left(V, n, d, t)' = Left(V, n, d, t) + 1
    <3>1. CASE raw[n][t].closed
      BY <1>2, <3>1 DEF Shut
    <3>2. CASE ~raw[n][t].closed
      <4>1. Len(raw'[n][t].got) = Len(g) + 1
        BY <1>4, <3>2
      <4> QED BY <1>2, <1>3, <4>1 DEF Left
    <3> QED BY <3>1, <3>2
  <2> QED BY <2>1, <2>2 DEF OneLeft
<1> QED BY <1>5, <1>6, <1>7

\* The payload that a reader holds is the next one to leave over the hop it is for.
LEMMA NextToPass ==
    ASSUME IdsAssumption, LinksAssumption, OneWay, TypeOK,
           NEW H, NEW Z, Owned(H, Z), NEW W, NEW V, Flow(H, Z, W, V),
           NEW n \in Nodes, NEW c \in DOMAIN reader[n], Acting(n, c, "data"),
           NEW f, f = reader[n][c].frame, NEW s, s = f.sid,
           NEW e, e \in reader[n][c].router, NEW hop, hop = NextHop(e, c)
    PROVE  /\ Recorded(H, n, e) /\ Matches(e, c, s) /\ c \in {e.src, e.dst} /\ SidAt(e, c) = s
           /\ f \in Frames /\ IsData(f, s) /\ f.payload \in Payloads /\ s \in Nat
           /\ Arrived(W, n, c, s) > 0
           /\ EndAt(n, hop.conn, hop.sid)
           /\ Shut(n, hop.conn) \/ f.payload.no = Left(V, n, hop.conn, hop.sid) + 1
<1>o. /\ History(H) /\ RawsMade(H) /\ ReaderFlow(W, V) /\ W \in Counts /\ V \in Counts
  BY DEF Owned, Flow
<1>1. /\ f \in Frames /\ f.cmd = "data" /\ Recorded(H, n, e) /\ Matches(e, c, s)
  <2>1. PICK r : r = reader[n][c]
    OBVIOUS
  <2>2. /\ f \in Frames /\ f.cmd = "data"
        /\ \A g \in r.router : Recorded(H, n, g) /\ Matches(g, c, s)
    BY <2>1, DataFacts
  <2> QED BY <2>1, <2>2
<1>2. c \in {e.src, e.dst} /\ SidAt(e, c) = s
  BY <1>o, <1>1, MatchedEnd
<1>3. f.payload \in Payloads /\ s \in Nat /\ IsData(f, s)
  BY <1>1, WithSidFacts, DataNumber DEF IsData
<1>4. EndAt(n, hop.conn, hop.sid)
  BY <1>o, <1>1, <1>2, EndsOf
<1>5. /\ Through(W, V, n, e, c) /\ f.payload.no > 0 /\ f.payload.no = Arrived(W, n, c, s)
  BY <1>o, <1>1 DEF ReaderFlow, Acting
<1>6. Holding(n, c, s)
  BY DEF Holding
<1>7. Shut(n, hop.conn) \/ f.payload.no = Left(V, n, hop.conn, hop.sid) + 1
  BY <1>2, <1>5, <1>6 DEF Through
<1> QED BY <1>1, <1>2, <1>3, <1>4, <1>5, <1>7

\* forward and procData of the next hop: the payload leaves under the id of that hop.
LEMMA ForwardDataFlow ==
    ASSUME IdsAssumption, LinksAssumption, OneWay, TypeOK,
           NEW H, NEW Z, Owned(H, Z), NEW W, NEW V, Flow(H, Z, W, V),
           NEW n \in Nodes, NEW c \in DOMAIN reader[n], ForwardData(n, c)
    PROVE  FlowAfter(H, Z)
<1>h. /\ IdsAssumption /\ LinksAssumption /\ OneWay /\ TypeOK /\ Owned(H, Z) /\ Flow(H, Z, W, V)
      /\ n \in Nodes /\ c \in DOMAIN reader[n]
  OBVIOUS
<1>o. /\ W \in Counts /\ V \in Counts /\ WireFlow(W, V, wire) /\ GotInOrder /\ Grounded(H, Z, V)
      /\ c \in Conns /\ (c.type = "channel" => c.link \in LinksOf(n))
      /\ UNCHANGED <<table, dialing, open>>
  <2>1. c \in Conns
    BY DEF TypeOK, Readers, Maps
  <2>2. c.type = "channel" => c.link \in LinksOf(n)
    BY DEF Owned, ReadersOwned, ReaderOwned
  <2>3. UNCHANGED <<table, dialing, open>>
    BY DEF ForwardData
  <2> QED BY <2>1, <2>2, <2>3 DEF Flow
<1>1. PICK r, f, s : r = reader[n][c] /\ f = r.frame /\ s = f.sid
  OBVIOUS
<1>2. Acting(n, c, "data")
  BY DEF ForwardData
<1>3. PICK e, hop :
        /\ e \in r.router /\ hop = NextHop(e, c)
        /\ IF hop.conn.type = "raw"
           THEN /\ raw' = Deliver(n, hop.conn.sid, f.payload)
                /\ Goto(n, c, Reading)
                /\ UNCHANGED wire
           ELSE \E ok \in BOOLEAN :
                /\ wire' = Sent(wire, n, hop.conn.link, WithSid(f, hop.sid))
                /\ Goto(n, c, IF ~ok /\ c.type = "raw" THEN Stopping ELSE Reading)
                /\ UNCHANGED raw
  BY <1>1 DEF ForwardData
<1>4. /\ Recorded(H, n, e) /\ Matches(e, c, s) /\ c \in {e.src, e.dst} /\ SidAt(e, c) = s
      /\ f \in Frames /\ IsData(f, s) /\ f.payload \in Payloads /\ s \in Nat
      /\ Arrived(W, n, c, s) > 0
      /\ EndAt(n, hop.conn, hop.sid)
      /\ Shut(n, hop.conn) \/ f.payload.no = Left(V, n, hop.conn, hop.sid) + 1
  <2>1. f = reader[n][c].frame /\ s = f.sid /\ e \in reader[n][c].router /\ hop = NextHop(e, c)
    BY <1>1, <1>3
  <2> QED BY ONLY <1>h, <1>2, <2>1, NextToPass
<1>5. PICK x : x \in {Reading, Stopping} /\ Goto(n, c, x)
  BY <1>3
<1>6. Passes(n, c, s, x)
  <2>1. x.pc # "found"
    BY <1>5, PlainStates
  <2>2. OnlyGoes(n, c, x)
    BY <1>5 DEF Goto, OnlyGoes, TypeOK, Readers, Maps
  <2> QED BY <1>1, <1>2, <2>1, <2>2 DEF Passes
<1>7. CASE hop.conn.type = "raw"
  <2>1. PICK t, d : t = hop.sid /\ d = hop.conn
    OBVIOUS
  <2>2. d = Raw(t) /\ t \in DOMAIN raw[n] /\ d.sid = t
    BY <1>4, <1>7, <2>1, ConnFacts DEF EndAt
  <2>3. raw' = Deliver(n, t, f.payload) /\ UNCHANGED wire
    BY <1>3, <1>7, <2>1, <2>2
  <2>4. PICK p : p = f.payload
    OBVIOUS
  <2>5. RawSteady /\ GotInOrder' /\ OneLeft(W, V, V, n, d, t)
    <3>1. p \in Payloads /\ raw' = Deliver(n, t, p) /\ (Shut(n, d) \/ p.no = Left(V, n, d, t) + 1)
      BY <1>4, <2>1, <2>3, <2>4
    <3> QED BY ONLY <1>h, <1>o, <2>2, <3>1, HandedFlow
  <2>6. Outlet(H, W, V, V, n, c, s, x, e, hop)
    BY <1>o, <1>3, <1>4, <1>6, <2>1, <2>5 DEF Outlet
  <2>7. WireFlow(W, V, wire)'
    BY <1>o, <2>3, FlowNow
  <2> QED BY ONLY <1>h, <1>o, <1>5, <2>5, <2>6, <2>7, PassFlow
<1>8. CASE hop.conn.type # "raw"
  <2>1. PICK l, t, d : l = hop.conn.link /\ t = hop.sid /\ d = hop.conn
    OBVIOUS
  <2>2. l \in LinksOf(n) /\ hop.conn = Channel(l) /\ hop.sid \in Nat /\ Started(H, Z, n, l, hop.sid)
    <3>1. /\ Recorded(H, n, e) /\ Matches(e, c, s) /\ s \in Nat /\ Arrived(W, n, c, s) > 0
          /\ hop = NextHop(e, c) /\ hop.conn.type # "raw" /\ l = hop.conn.link
      BY <1>3, <1>4, <1>8, <2>1
    <3> QED BY ONLY <1>h, <1>o, <3>1, StartedHop
  <2>3. d = Channel(l) /\ t \in Nat /\ Started(H, Z, n, l, t) /\ l \in Links
    BY <2>1, <2>2, PeerFacts
  <2>4. PICK V2 : Bumped(V, V2, n, l, t)
    BY <1>o, <2>3, CountOn
  <2>5. PICK g : g = WithSid(f, t)
    OBVIOUS
  <2>6. g \in Frames /\ IsData(g, t) /\ g.payload = f.payload
    <3>1. f.cmd = "data"
      BY <1>4 DEF IsData
    <3>2. f \in [cmd : {"data"}, sid : Nat, payload : Payloads]
      BY <1>4, <3>1 DEF Frames, DialFrames
    <3>3. g \in [cmd : {"data"}, sid : Nat, payload : Payloads]
      BY <2>3, <2>5, <3>2 DEF WithSid
    <3>4. g \in Frames
      BY <3>3 DEF Frames
    <3>5. g.cmd = "data" /\ g.sid = t /\ g.payload = f.payload
      BY <1>4, <2>5, <3>1, WithSidFacts
    <3> QED BY <3>4, <3>5 DEF IsData
  <2>7. wire' = Sent(wire, n, l, g) /\ UNCHANGED raw
    BY <1>3, <1>8, <2>1, <2>5
  <2>8. g.payload.no = V[n][l][t] + 1
    <3>1. d.type = "channel" /\ d.link = l
      BY <2>3, ConnFacts
    <3>2. ~Shut(n, d) /\ Left(V, n, d, t) = V[n][l][t]
      BY <3>1 DEF Shut, Left
    <3> QED BY <1>4, <2>1, <2>6, <3>2
  <2>9. WireFlow(W, V2, wire)'
    <3>1. PICK u : u = Sent(wire, n, l, g)
      OBVIOUS
    <3>2. WireFlow(W, V2, u)
      <4>1. l \in LinksOf(n) /\ t \in Nat
        BY <2>2, <2>3
      <4> QED BY ONLY <1>h, <1>o, <2>4, <2>6, <2>8, <3>1, <4>1, FlowPut
    <3> QED BY <1>o, <2>7, <3>1, <3>2, FlowNow
  <2>10. Grounded(H, Z, V2)
    <3>1. SUFFICES ASSUME NEW m \in Nodes, NEW j \in LinksOf(m), NEW u \in Nat, V2[m][j][u] > 0
                   PROVE  Started(H, Z, m, j, u)
      BY DEF Grounded
    <3>2. j \in Links
      BY PeerFacts
    <3>3. (m = n /\ j = l /\ u = t) \/ V2[m][j][u] = V[m][j][u]
      BY <2>4, <3>2 DEF Bumped
    <3> QED BY <1>o, <2>3, <3>1, <3>3 DEF Grounded
  <2>11. RawSteady /\ GotInOrder'
    <3>1. RawSteady
      BY <2>7 DEF RawSteady
    <3>2. GotInOrder'
      BY <1>o, <2>7 DEF GotInOrder
    <3> QED BY <3>1, <3>2
  <2>12. OneLeft(W, V, V2, n, d, t)
    <3>1. d.type = "channel" /\ d.link = l
      BY <2>3, ConnFacts
    <3>2. Left(V2, n, d, t)' = Left(V, n, d, t) + 1
      BY <2>4, <3>1 DEF Left, Bumped
    <3>3. ASSUME NEW m \in Nodes, NEW k, NEW u, EndAt(m, k, u)
          PROVE  /\ m # n \/ k # d \/ u # t => Left(V2, m, k, u)' = Left(V, m, k, u)
                 /\ Arrived(W, m, k, u)' = Arrived(W, m, k, u)
                 /\ Shut(m, k) => Shut(m, k)'
      <4>1. Arrived(W, m, k, u)' = Arrived(W, m, k, u) /\ (Shut(m, k) => Shut(m, k)')
        BY <2>7 DEF Arrived, Shut
      <4>2. ASSUME m # n \/ k # d \/ u # t PROVE Left(V2, m, k, u)' = Left(V, m, k, u)
        <5>1. CASE k \in Channels /\ u \in Nat
          <6>1. k.type = "channel" /\ k.link \in Links /\ k = Channel(k.link)
            BY <5>1, ConnFacts
          <6>2. V2[m][k.link][u] = V[m][k.link][u]
            BY <2>3, <2>4, <4>2, <5>1, <6>1 DEF Bumped
          <6> QED BY <6>1, <6>2 DEF Left
        <5>2. CASE k = Raw(u)
          BY <2>7, <5>2, ConnFacts DEF Left
        <5> QED BY <3>3, <5>1, <5>2 DEF EndAt
      <4> QED BY <4>1, <4>2
    <3> QED BY <3>2, <3>3 DEF OneLeft
  <2>13. Outlet(H, W, V, V2, n, c, s, x, e, hop)
    <3>1. V2 \in Counts
      BY <2>4 DEF Bumped
    <3> QED BY <1>o, <1>3, <1>4, <1>6, <2>1, <2>12, <3>1 DEF Outlet
  <2> QED BY ONLY <1>h, <1>o, <1>5, <2>9, <2>10, <2>11, <2>13, PassFlow
<1> QED BY <1>7, <1>8

(***************************************************************************)
(* The invariant, and what follows from it.                                *)
(***************************************************************************)
LEMMA FlowNext ==
    ASSUME IdsAssumption, LinksAssumption, CallsAssumption, OneWay, TypeOK, HopInv, EntriesPaired,
           NEW H, NEW Z, Owned(H, Z), NEW W, NEW V, Flow(H, Z, W, V), [Next]_vars
    PROVE  FlowAfter(H, Z)
<1>1. CASE UNCHANGED vars
  <2>1. UNCHANGED <<open, wire, reader>> /\ RawCalm /\ TableCalm(W, V) /\ NoBacks
    BY <1>1, RawSame, TableSame DEF vars, NoBacks
  <2>2. WireFlow(W, V, wire)'
    BY <2>1, FlowNow DEF Flow
  <2> QED BY <2>1, <2>2, CalmOther
<1>2. ASSUME NEW k \in Calls, CallSteps(k) PROVE FlowAfter(H, Z)
  BY <1>2, CallStepsFlow
<1>3. ASSUME NEW n \in Nodes, NEW l \in LinksOf(n), FrameSteps(n, l) PROVE FlowAfter(H, Z)
  <2>1. ASSUME \/ ProcDialRefuse(n, l) \/ ProcDialLast(n, l) \/ ProcDialSelect(n, l)
               \/ ProcDialAdd(n, l) \/ ProcDialSend(n, l)
        PROVE  FlowAfter(H, Z)
    BY <2>1, DialFramesFlow
  <2>2. ASSUME \/ ProcDialBack(n, l) \/ DialBackUnknown(n, l)
               \/ DialBackFailed(n, l) \/ DialBackForward(n, l)
        PROVE  FlowAfter(H, Z)
    BY <2>2, DialBackFramesFlow
  <2>3. ASSUME DialBackReady(n, l) PROVE FlowAfter(H, Z)
    BY <2>3, DialBackReadyFlow
  <2>4. ASSUME ProcData(n, l) PROVE FlowAfter(H, Z)
    BY <2>4, ProcDataFlow
  <2>5. ASSUME ForwardData(n, Channel(l)) PROVE FlowAfter(H, Z)
    <3>1. Channel(l) \in DOMAIN reader[n]
      BY DEF TypeOK, Readers
    <3> QED BY <2>5, <3>1, ForwardDataFlow
  <2>6. ASSUME ProcClosed(n, l) \/ ForwardClosed(n, l) PROVE FlowAfter(H, Z)
    BY <2>6, ClosedFramesFlow
  <2> QED BY <1>3, <2>1, <2>2, <2>3, <2>4, <2>5, <2>6 DEF FrameSteps
<1>4. ASSUME NEW n \in Nodes, NEW l \in LinksOf(n), ExitSteps(n, l) PROVE FlowAfter(H, Z)
  BY <1>4, ExitFlow
<1>5. ASSUME NEW n \in Nodes, NEW s \in DOMAIN raw[n], RawSteps(n, s) PROVE FlowAfter(H, Z)
  <2>0. Raw(s) \in DOMAIN reader[n]
    BY <1>5 DEF RawSteps
  <2>1. ASSUME RawRead(n, s) PROVE FlowAfter(H, Z)
    BY <2>0, <2>1, RawReadFlow
  <2>2. ASSUME ForwardData(n, Raw(s)) PROVE FlowAfter(H, Z)
    BY <2>0, <2>2, ForwardDataFlow
  <2>3. ASSUME RawReadFail(n, s) \/ RawEnd(n, s) \/ CloseRaw(n, s) \/ RemoveRaw(n, s)
        PROVE  FlowAfter(H, Z)
    BY <2>0, <2>3, RawExitFlow
  <2> QED BY <1>5, <2>1, <2>2, <2>3 DEF RawSteps
<1>6. ASSUME NEW n \in Nodes, NEW d \in dialing[n], DialSteps(n, d) PROVE FlowAfter(H, Z)
  BY <1>6, DialStepsFlow
<1>7. ASSUME NEW n \in Nodes,
             (\E l \in LinksOf(n) : Lose(n, l)) \/ RouterClose(n) \/ RouterCloseOne(n)
      PROVE  FlowAfter(H, Z)
  BY <1>7, OutsideFlow
<1> QED BY <1>1, <1>2, <1>3, <1>4, <1>5, <1>6, <1>7 DEF Next

FlowInv == \E H, Z, W, V : Owned(H, Z) /\ Flow(H, Z, W, V)

\* What entitles a channel to carry payloads stays so.
LEMMA StaysGrounded ==
    ASSUME NEW H, NEW H2, Extends(H, H2), NEW Z, NEW Z2, Keeps(Z, Z2, "done"),
           NEW V, Grounded(H, Z, V)
    PROVE  Grounded(H2, Z2, V)
<1>1. \A n, l, s : Started(H, Z, n, l, s) => Started(H2, Z2, n, l, s)
  BY DEF Started, Extends, Keeps
<1> QED BY <1>1 DEF Grounded

LEMMA FlowInit ==
    ASSUME LinksAssumption, Init
    PROVE  FlowInv
<1>1. PICK W : W = [n \in Nodes |-> [l \in Links |-> [s \in Nat |-> 0]]]
  OBVIOUS
<1>2. W \in Counts /\ \A n \in Nodes : \A l \in Links : \A s \in Nat : W[n][l][s] = 0
  BY <1>1 DEF Counts
<1>3. Grounded(Empty, Empty, W)
  BY <1>2, PeerFacts DEF Grounded
<1>4. WireFlow(W, W, wire)
  <2>1. ASSUME NEW n \in Nodes, NEW l \in LinksOf(n), NEW s \in Nat
        PROVE  /\ W[n][l][s] <= W[Peer(n, l)][l][s]
               /\ Flows(wire[n][l], s, W[n][l][s], W[Peer(n, l)][l][s], BothOpen(n, l))
    <3>1. wire[n][l] = <<>> /\ W[n][l][s] = 0 /\ W[Peer(n, l)][l][s] = 0
      BY <1>2, PeerFacts DEF Init
    <3>2. Flows(<<>>, s, 0, 0, BothOpen(n, l))
      BY DEF Flows, Bears
    <3> QED BY <3>1, <3>2
  <2> QED BY <2>1 DEF WireFlow
<1>5. TableFlow(W, W) /\ GotInOrder /\ Pending
  BY DEF Init, Empty, TableFlow, InTable, GotInOrder, Pending
<1>6. ReaderFlow(W, W) /\ RawsStarted
  <2>1. ASSUME NEW n \in Nodes, NEW c \in DOMAIN reader[n]
        PROVE  reader[n][c].pc = "read" /\ c.type = "channel"
    <3>1. reader[n] = [d \in {Channel(l) : l \in LinksOf(n)} |-> Reading]
      BY DEF Init
    <3>2. PICK l \in LinksOf(n) : c = Channel(l)
      BY <3>1
    <3> QED BY <3>1, <3>2, PlainStates, ConnFacts
  <2>2. \A n \in Nodes : DOMAIN raw[n] = {}
    BY DEF Init, Empty
  <2> QED BY <2>1, <2>2 DEF ReaderFlow, RawsStarted
<1>7. Flow(Empty, Empty, W, W)
  BY <1>2, <1>3, <1>4, <1>5, <1>6 DEF Flow
<1> QED BY <1>7, OwnedInit DEF FlowInv

LEMMA FlowAlways == ASSUME OneWay PROVE Spec => [](TypeOK /\ FlowInv)
<1>1. Init => FlowInv
  BY FlowInit, LinksAssumption
<1>2. TypeOK /\ HopInv /\ EntriesPaired /\ FlowInv /\ [Next]_vars => FlowInv'
  <2>1. SUFFICES ASSUME TypeOK, HopInv, EntriesPaired, FlowInv, [Next]_vars PROVE FlowInv'
    OBVIOUS
  <2>2. PICK H, Z, W, V : Owned(H, Z) /\ Flow(H, Z, W, V)
    BY <2>1 DEF FlowInv
  <2>3. OwnedAfter(H, Z)
    BY <2>1, <2>2, OwnedNext, IdsAssumption, LinksAssumption, CallsAssumption
  <2>4. FlowAfter(H, Z)
    BY <2>1, <2>2, FlowNext, IdsAssumption, LinksAssumption, CallsAssumption
  <2>5. PICK H2, Z2 : Extends(H, H2) /\ Keeps(Z, Z2, "done") /\ Owned(H2, Z2)'
    BY <2>3 DEF OwnedAfter
  <2>6. PICK W2, V2 : Flow(H, Z, W2, V2)'
    BY <2>4 DEF FlowAfter
  <2>7. Grounded(H, Z, V2)
    BY <2>6 DEF Flow, Grounded, Started
  <2>8. Grounded(H2, Z2, V2)
    BY <2>5, <2>7, StaysGrounded
  <2>9. Flow(H2, Z2, W2, V2)'
    BY <2>6, <2>8 DEF Flow, Grounded, Started
  <2> QED BY <2>5, <2>9 DEF FlowInv
<1> QED BY <1>1, <1>2, OwnedAlways, EntriesStayPaired, PTL DEF Spec

\* Where no two routers dial to each other, the payloads a raw connection has received
\* are those the other end of its call sent, from the first, in order, none lost between
\* them and none twice, however many routers, readers and forward calls they pass.
THEOREM DeliversInOrder == ASSUME OneWay PROVE Spec => []DeliveredInOrder
<1>1. TypeOK /\ FlowInv => DeliveredInOrder
  <2>1. SUFFICES ASSUME TypeOK, NEW H, NEW Z, RawsOwned(H, Z), GotInOrder PROVE DeliveredInOrder
    BY DEF FlowInv, Owned, Flow
  <2>2. ASSUME NEW n \in Nodes, NEW s \in DOMAIN raw[n], NEW i \in DOMAIN raw[n][s].got
        PROVE  raw[n][s].got[i] = [call |-> raw[n][s].call, dialer |-> ~raw[n][s].dialer, no |-> i]
    <3>1. PICK r, p : r = raw[n][s] /\ p = raw[n][s].got[i]
      OBVIOUS
    <3>2. RawOwned(H, Z, n, s, r) /\ r \in RawStates
      BY <2>1, <3>1 DEF RawsOwned, TypeOK, Maps
    <3>3. p.call = r.call /\ p.dialer = ~r.dialer /\ p.no = i
      BY <2>1, <2>2, <3>1, <3>2 DEF RawOwned, GotInOrder
    <3>4. r.got \in Seq(Payloads)
      BY <3>2 DEF RawStates
    <3>5. p \in Payloads
      BY <2>2, <3>1, <3>4
    <3> QED BY <3>1, <3>3, <3>5 DEF Payloads
  <2> QED BY <2>2 DEF DeliveredInOrder
<1> QED BY <1>1, FlowAlways, PTL
=============================================================================
