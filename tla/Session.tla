------------------------------ MODULE Session ------------------------------
(***************************************************************************)
(* The session table of the bsck router (src/router/router.go).            *)
(*                                                                         *)
(* Nodes are joined by logged-in channels (links).  A call is a DialConn   *)
(* along a route of node names: the caller binds a raw connection to a     *)
(* session id of the first channel, every relay binds a session id of one  *)
(* channel to a session id of the next, and the last node dials the target *)
(* and binds the raw connection it gets.  Each node keeps these bindings   *)
(* in Router.table, under two keys per entry, one for each end.            *)
(*                                                                         *)
(* A goroutine of the code is a reader (loopReadRaw, one per connection),  *)
(* a remote dial (procRawDial), a caller (DialConn) or a closer (Close).   *)
(* A step runs up to the next release of a lock or the next write, so an   *)
(* entry that was looked up is used in a later step.                       *)
(***************************************************************************)
EXTENDS Naturals, Sequences, FiniteSets

CONSTANTS
    Nodes,          \* routers
    Links,          \* established channels
    EndA, EndB,     \* [Links -> Nodes]: the two routers of a channel
    Cid,            \* [Nodes -> [Links -> Nat]]: id a router gave its end
    Sid0,           \* [Nodes -> Nat]: connectSequence once the links are up
    Calls,          \* the dials of a behaviour, each made once
    Caller,         \* [Calls -> Nodes]
    Route,          \* [Calls -> Seq(Nodes)]: the names before each "->"
    MaxData,        \* bound: payloads given to a raw connection, [BOOLEAN -> Nat]:
                    \* TRUE for the end that dials, FALSE for the dialled end
    MaxEnd,         \* bound: raw connections ended by their application
    MaxFailures,    \* bound: channel ends that die and routers that are closed
    Closers         \* nodes whose application may call Router.Close, once each

ASSUME LinksAssumption ==
    /\ EndA \in [Links -> Nodes]
    /\ EndB \in [Links -> Nodes]
    /\ \A l \in Links : EndA[l] # EndB[l]

\* Accept and JoinConn draw the channel ids from the counter sids come from.
ASSUME IdsAssumption ==
    /\ Cid \in [Nodes -> [Links -> Nat]]
    /\ Sid0 \in [Nodes -> Nat]
    /\ \A n \in Nodes : \A l \in Links : Cid[n][l] <= Sid0[n]
    /\ \A n \in Nodes : \A l, m \in Links : Cid[n][l] = Cid[n][m] => l = m

ASSUME CallsAssumption ==
    /\ Caller \in [Calls -> Nodes]
    /\ Route \in [Calls -> Seq(Nodes)]
    /\ \A k \in Calls : Route[k] # <<>>

ASSUME BoundsAssumption ==
    /\ MaxData \in [BOOLEAN -> Nat]
    /\ {MaxEnd, MaxFailures} \subseteq Nat
    /\ Closers \subseteq Nodes

VARIABLES
    seq,        \* [n]: connectSequence
    table,      \* [n]: Router.table, a function on the keys it holds
    reg,        \* [n]: links in Router.channel
    open,       \* [n][l]: n has not closed its end of l
    wire,       \* [n][l]: frames on their way to n
    reader,     \* [n]: loopReadRaw goroutines, by connection
    raw,        \* [n]: raw connections, by session id
    dialing,    \* [n]: procRawDial goroutines
    call,       \* [k]: progress of DialConn
    closing,    \* [n]: connections a Router.Close has still to close
    env         \* how often each of the bounded events has happened

vars == <<seq, table, reg, open, wire, reader, raw, dialing, call, closing,
          env>>

(***************************************************************************)
(* Connections, frames and table entries.                                  *)
(***************************************************************************)
Peer(n, l) == IF n = EndA[l] THEN EndB[l] ELSE EndA[l]
LinksOf(n) == {l \in Links : n \in {EndA[l], EndB[l]}}

Channel(l) == [type |-> "channel", link |-> l]
Raw(s)     == [type |-> "raw", sid |-> s]

Channels == [type : {"channel"}, link : Links]
Raws     == [type : {"raw"}, sid : Nat]
Conns    == Channels \cup Raws

\* Conn.ID: what the key of an entry is formatted from.
ID(n, c) == IF c.type = "raw" THEN c.sid ELSE Cid[n][c.link]
Key(n, c, s) == <<ID(n, c), s>>

Dial(s, k, r)   == [cmd |-> "dial", sid |-> s, call |-> k, route |-> r]
DialBack(s, ok) == [cmd |-> "dialback", sid |-> s, ok |-> ok]
Data(s, p)      == [cmd |-> "data", sid |-> s, payload |-> p]

Closed_AsHeartbeat(s) == [cmd |-> "heartbeat", sid |-> s]
Closed(s) == [cmd |-> "closed", sid |-> s]

WithSid_Kept(f, s) == f
WithSid(f, s) == [f EXCEPT !.sid = s]

Payloads == [call : Calls, dialer : BOOLEAN, no : Nat]
DialFrames == [cmd : {"dial"}, sid : Nat, call : Calls, route : Seq(Nodes)]
Frames ==
    DialFrames
     \cup [cmd : {"dialback"}, sid : Nat, ok : BOOLEAN]
     \cup [cmd : {"data"}, sid : Nat, payload : Payloads]
     \cup [cmd : {"closed"}, sid : Nat]

\* The last element of an entry is the dialled uri: here, the call.
Entry(src, ssid, dst, dsid, k) ==
    [src |-> src, ssid |-> ssid, dst |-> dst, dsid |-> dsid, call |-> k]
Entries == [src : Conns, ssid : Nat, dst : Conns, dsid : Nat, call : Calls]

\* TableRouter.Next; an entry that does not hold c has no next hop.
NextHop(e, c) == IF e.src = c THEN [conn |-> e.dst, sid |-> e.dsid]
                              ELSE [conn |-> e.src, sid |-> e.ssid]
Holds(e, c) == c \in {e.src, e.dst}

KeysOf(n, e) == {Key(n, e.src, e.ssid), Key(n, e.dst, e.dsid)}

(***************************************************************************)
(* Router.table.  The entry found under a key is a set of at most one.     *)
(***************************************************************************)
Empty         == [x \in {} |-> {}]
Put(f, xs, v) == [x \in DOMAIN f \cup xs |-> IF x \in xs THEN v ELSE f[x]]
Drop(f, xs)   == [x \in DOMAIN f \ xs |-> f[x]]

Lookup(n, c, s) == {table[n][k] : k \in {Key(n, c, s)} \cap DOMAIN table[n]}

AddTable_Swapped(n, e) ==
    Put(table[n], {Key(n, e.src, e.dsid), Key(n, e.dst, e.ssid)}, e)
AddTable(n, e) == Put(table[n], KeysOf(n, e), e)

RemoveTable_OneKey(n, c, s) == Drop(table[n], {Key(n, c, s)})
RemoveTable(n, c, s) ==
    Drop(table[n], UNION {KeysOf(n, e) : e \in Lookup(n, c, s)})

\* tableLck is held across steps only by a reader that purges the table.
TableFree(n) == \A c \in DOMAIN reader[n] : reader[n][c].pc # "purge"

(***************************************************************************)
(* Reading and writing channels.  A write fails when the writer has closed *)
(* its end and may fail, or be lost, when only the peer has closed.        *)
(***************************************************************************)
BothOpen(n, l) == open[n][l] /\ open[Peer(n, l)][l]
CanWrite(n, l, ok) == IF ok THEN open[n][l] ELSE ~BothOpen(n, l)
Sent(w, n, l, f) ==
    IF BothOpen(n, l) THEN [w EXCEPT ![Peer(n, l)][l] = Append(@, f)] ELSE w

Reading == [pc |-> "read"]
Stopping == [pc |-> "stop"]
Goto(n, c, s) == reader' = [reader EXCEPT ![n][c] = s]

HasFrame(n, l, cmd) ==
    /\ reader[n][Channel(l)].pc = "read"
    /\ wire[n][l] # <<>>
    /\ Head(wire[n][l]).cmd = cmd
Taken(n, l) == [wire EXCEPT ![n][l] = Tail(@)]

\* A reader replies on its own channel; an error of that write ends it.
Reply(n, l, w, f) ==
    \E ok \in BOOLEAN :
        /\ CanWrite(n, l, ok)
        /\ wire' = Sent(w, n, l, f)
        /\ Goto(n, Channel(l), IF ok THEN Reading ELSE Stopping)

(***************************************************************************)
(* DialConn along a route (a uri with "->").                               *)
(***************************************************************************)
NextSid_NotDrawn(n) == Sid0[n] + 1
NextSid(n) == seq[n] + 1

NewRaw(k, dialer) ==
    [call |-> k, dialer |-> dialer, ready |-> FALSE, failed |-> FALSE,
     closed |-> FALSE, sent |-> 0, got |-> <<>>]

Candidates(n, name) == {l \in reg[n] : Peer(n, l) = name}

DialSelect(k) ==
    /\ call[k].pc = "idle"
    /\ LET links == Candidates(Caller[k], Head(Route[k])) IN
       \/ /\ links = {}
          /\ call' = [call EXCEPT ![k] = [pc |-> "error"]]
       \/ \E l \in links :
            call' = [call EXCEPT ![k] = [pc |-> "add", link |-> l]]
    /\ UNCHANGED <<seq, table, reg, open, wire, reader, raw, dialing, closing, env>>

DialAdd(k) ==
    LET n == Caller[k]  s == NextSid(n)  l == call[k].link IN
    /\ call[k].pc = "add"
    /\ TableFree(n)
    /\ seq' = [seq EXCEPT ![n] = s]
    /\ raw' = [raw EXCEPT ![n] = Put(@, {s}, NewRaw(k, TRUE))]
    /\ table' = [table EXCEPT ![n] = AddTable(n, Entry(Channel(l), s, Raw(s), s, k))]
    /\ call' = [call EXCEPT ![k] = [pc |-> "send", link |-> l, sid |-> s]]
    /\ UNCHANGED <<reg, open, wire, reader, dialing, closing, env>>

DialSend(k) ==
    LET n == Caller[k]  s == call[k].sid  l == call[k].link IN
    /\ call[k].pc = "send"
    /\ \/ /\ CanWrite(n, l, TRUE)
          /\ wire' = Sent(wire, n, l, Dial(s, k, Tail(Route[k])))
          /\ call' = [call EXCEPT ![k] = [pc |-> "dialed", sid |-> s]]
          /\ UNCHANGED table
       \/ /\ CanWrite(n, l, FALSE)
          /\ TableFree(n)
          /\ table' = [table EXCEPT ![n] = RemoveTable(n, Channel(l), s)]
          /\ call' = [call EXCEPT ![k] = [pc |-> "error"]]
          /\ UNCHANGED wire
    /\ UNCHANGED <<seq, reg, open, reader, raw, dialing, closing, env>>

(***************************************************************************)
(* procDial: refuse, dial the target here, or pass the dial on.            *)
(***************************************************************************)

\* OnConnDialURI refuses, the next hop is the sender, or no such channel.
ProcDialRefuse(n, l) ==
    /\ HasFrame(n, l, "dial")
    /\ Reply(n, l, Taken(n, l), DialBack(Head(wire[n][l]).sid, FALSE))
    /\ UNCHANGED <<seq, table, reg, open, raw, dialing, call, closing, env>>

ProcDialLast(n, l) ==
    LET f == Head(wire[n][l]) IN
    /\ HasFrame(n, l, "dial")
    /\ f.route = <<>>
    /\ dialing' = [dialing EXCEPT ![n] =
                     @ \cup {[pc |-> "dial", link |-> l, sid |-> f.sid, call |-> f.call]}]
    /\ wire' = Taken(n, l)
    /\ UNCHANGED <<seq, table, reg, open, reader, raw, call, closing, env>>

ProcDialSelect(n, l) ==
    LET f == Head(wire[n][l]) IN
    /\ HasFrame(n, l, "dial")
    /\ f.route # <<>>
    /\ Head(f.route) # Peer(n, l)
    /\ \E d \in Candidates(n, Head(f.route)) :
         Goto(n, Channel(l), [pc |-> "add", frame |-> f, dst |-> d])
    /\ wire' = Taken(n, l)
    /\ UNCHANGED <<seq, table, reg, open, raw, dialing, call, closing, env>>

ProcDialAdd(n, l) ==
    LET r == reader[n][Channel(l)]  s == NextSid(n) IN
    /\ r.pc = "add"
    /\ TableFree(n)
    /\ seq' = [seq EXCEPT ![n] = s]
    /\ table' = [table EXCEPT ![n] =
          AddTable(n, Entry(Channel(l), r.frame.sid, Channel(r.dst), s, r.frame.call))]
    /\ Goto(n, Channel(l), [pc |-> "send", frame |-> r.frame, dst |-> r.dst, sid |-> s])
    /\ UNCHANGED <<reg, open, wire, raw, dialing, call, closing, env>>

ProcDialSend(n, l) ==
    LET r == reader[n][Channel(l)] IN
    /\ r.pc = "send"
    /\ \/ /\ CanWrite(n, r.dst, TRUE)
          /\ wire' = Sent(wire, n, r.dst, Dial(r.sid, r.frame.call, Tail(r.frame.route)))
          /\ Goto(n, Channel(l), Reading)
          /\ UNCHANGED table
       \/ /\ CanWrite(n, r.dst, FALSE)
          /\ TableFree(n)
          /\ Reply(n, l, wire, DialBack(r.frame.sid, FALSE))
          /\ table' = [table EXCEPT ![n] = RemoveTable(n, Channel(l), r.frame.sid)]
    /\ UNCHANGED <<seq, reg, open, raw, dialing, call, closing, env>>

(***************************************************************************)
(* procRawDial, in a goroutine of its own.                                 *)
(***************************************************************************)
RawDialFail(n, d) ==
    /\ d \in dialing[n] /\ d.pc = "dial"
    /\ seq' = [seq EXCEPT ![n] = NextSid(n)]
    /\ wire' = Sent(wire, n, d.link, DialBack(d.sid, FALSE))
    /\ dialing' = [dialing EXCEPT ![n] = @ \ {d}]
    /\ UNCHANGED <<table, reg, open, reader, raw, call, closing, env>>

RawDialAdd(n, d) ==
    LET s == NextSid(n) IN
    /\ d \in dialing[n] /\ d.pc = "dial"
    /\ TableFree(n)
    /\ seq' = [seq EXCEPT ![n] = s]
    /\ raw' = [raw EXCEPT ![n] = Put(@, {s}, NewRaw(d.call, FALSE))]
    /\ table' = [table EXCEPT ![n] =
                   AddTable(n, Entry(Channel(d.link), d.sid, Raw(s), s, d.call))]
    /\ dialing' = [dialing EXCEPT ![n] =
         (@ \ {d}) \cup {[pc |-> "back", link |-> d.link, sid |-> d.sid, raw |-> s]}]
    /\ UNCHANGED <<reg, open, wire, reader, call, closing, env>>

CloseRaws(n, ss) ==
    [raw EXCEPT ![n] = [s \in DOMAIN raw[n] |->
        IF s \in ss THEN [raw[n][s] EXCEPT !.closed = TRUE] ELSE raw[n][s]]]

RawDialBack(n, d) ==
    /\ d \in dialing[n] /\ d.pc = "back"
    /\ \/ /\ CanWrite(n, d.link, TRUE)
          /\ wire' = Sent(wire, n, d.link, DialBack(d.sid, TRUE))
          /\ reader' = [reader EXCEPT ![n] = Put(@, {Raw(d.raw)}, Reading)]
          /\ UNCHANGED <<raw, table>>
       \/ /\ CanWrite(n, d.link, FALSE)
          /\ TableFree(n)
          /\ raw' = CloseRaws(n, {d.raw})
          /\ table' = [table EXCEPT ![n] = RemoveTable(n, Channel(d.link), d.sid)]
          /\ UNCHANGED <<wire, reader>>
    /\ dialing' = [dialing EXCEPT ![n] = @ \ {d}]
    /\ UNCHANGED <<seq, reg, open, call, closing, env>>

(***************************************************************************)
(* procDialBack: look the session up, then use what was found.             *)
(***************************************************************************)
Found(f, router) == [pc |-> "found", frame |-> f, router |-> router]

ProcDialBack(n, l) ==
    LET f == Head(wire[n][l]) IN
    /\ HasFrame(n, l, "dialback")
    /\ TableFree(n)
    /\ Goto(n, Channel(l), Found(f, Lookup(n, Channel(l), f.sid)))
    /\ wire' = Taken(n, l)
    /\ UNCHANGED <<seq, table, reg, open, raw, dialing, call, closing, env>>

Acting(n, c, cmd) == reader[n][c].pc = "found" /\ reader[n][c].frame.cmd = cmd

DialBackUnknown_Silent(n, l) ==
    /\ Acting(n, Channel(l), "dialback")
    /\ reader[n][Channel(l)].router = {}
    /\ Goto(n, Channel(l), Reading)
    /\ UNCHANGED <<seq, table, reg, open, wire, raw, dialing, call, closing, env>>

DialBackUnknown(n, l) ==
    LET r == reader[n][Channel(l)] IN
    /\ Acting(n, Channel(l), "dialback")
    /\ r.router = {}
    /\ Reply(n, l, wire, Closed(r.frame.sid))
    /\ UNCHANGED <<seq, table, reg, open, raw, dialing, call, closing, env>>

\* RawConn.Ready does nothing once the raw connection is closed.
DialBackReady(n, l) ==
    LET c == Channel(l)  r == reader[n][c] IN
    /\ Acting(n, c, "dialback") /\ r.frame.ok
    /\ TableFree(n)
    /\ \E e \in r.router : LET t == NextHop(e, c).conn IN
         /\ t.type = "raw"
         /\ table' = [table EXCEPT ![n] =
                        AddTable(n, Entry(c, r.frame.sid, t, t.sid, e.call))]
         /\ IF raw[n][t.sid].closed
            THEN Goto(n, c, Reading) /\ UNCHANGED raw
            ELSE /\ raw' = [raw EXCEPT ![n][t.sid].ready = TRUE]
                 /\ reader' = [reader EXCEPT ![n] = Put(@, {c, t}, Reading)]
    /\ UNCHANGED <<seq, reg, open, wire, dialing, call, closing, env>>

DialBackFailed(n, l) ==
    LET c == Channel(l)  r == reader[n][c] IN
    /\ Acting(n, c, "dialback") /\ ~r.frame.ok
    /\ TableFree(n)
    /\ \E e \in r.router : LET t == NextHop(e, c).conn IN
         /\ t.type = "raw"
         /\ table' = [table EXCEPT ![n] = RemoveTable(n, c, r.frame.sid)]
         /\ raw' = IF raw[n][t.sid].closed THEN raw
                   ELSE [raw EXCEPT ![n][t.sid].ready = TRUE, ![n][t.sid].failed = TRUE,
                                    ![n][t.sid].closed = TRUE]
    /\ Goto(n, c, Reading)
    /\ UNCHANGED <<seq, reg, open, wire, dialing, call, closing, env>>

\* A relay passes the answer on, and tells the answerer when it cannot.
DialBackForward(n, l) ==
    LET c == Channel(l)  r == reader[n][c] IN
    /\ Acting(n, c, "dialback")
    /\ \E e \in r.router : LET hop == NextHop(e, c) IN
         /\ hop.conn.type = "channel"
         /\ \/ /\ CanWrite(n, hop.conn.link, TRUE)
               /\ wire' = Sent(wire, n, hop.conn.link, WithSid(r.frame, hop.sid))
               /\ Goto(n, c, Reading)
            \/ /\ CanWrite(n, hop.conn.link, FALSE)
               /\ Reply(n, l, wire, Closed(r.frame.sid))
    /\ UNCHANGED <<seq, table, reg, open, raw, dialing, call, closing, env>>

(***************************************************************************)
(* procChannelData, for a frame of a channel or of a raw connection.       *)
(***************************************************************************)
ProcData(n, l) ==
    LET c == Channel(l)  f == Head(wire[n][l])  router == Lookup(n, c, f.sid) IN
    /\ HasFrame(n, l, "data")
    /\ TableFree(n)
    /\ Goto(n, c, IF router = {} THEN Reading ELSE Found(f, router))
    /\ wire' = Taken(n, l)
    /\ UNCHANGED <<seq, table, reg, open, raw, dialing, call, closing, env>>

\* The application writes; RawConn.ReadFrame makes a frame of it.
RawRead(n, s) ==
    LET c == Raw(s)  r == raw[n][s]  router == Lookup(n, c, s)
        p == [call |-> r.call, dialer |-> r.dialer, no |-> r.sent + 1] IN
    /\ reader[n][c].pc = "read"
    /\ ~r.closed
    /\ r.sent < MaxData[r.dialer]
    /\ TableFree(n)
    /\ raw' = [raw EXCEPT ![n][s].sent = @ + 1]
    /\ Goto(n, c, IF router = {} THEN Stopping ELSE Found(Data(s, p), router))
    /\ UNCHANGED <<seq, table, reg, open, wire, dialing, call, closing, env>>

Deliver(n, s, p) ==
    IF raw[n][s].closed THEN raw
    ELSE [raw EXCEPT ![n][s].got = Append(@, p)]

ForwardData_InGoroutine(n, c) ==
    LET r == reader[n][c] IN
    /\ Acting(n, c, "data")
    /\ \E e \in r.router : LET hop == NextHop(e, c) IN
         IF hop.conn.type = "raw"
         THEN raw' = Deliver(n, hop.conn.sid, r.frame.payload) /\ UNCHANGED wire
         ELSE LET l == hop.conn.link  f == WithSid(r.frame, hop.sid) IN
              \/ wire' = Sent(wire, n, l, f) /\ UNCHANGED raw
              \/ /\ BothOpen(n, l)
                 /\ wire' = [wire EXCEPT ![Peer(n, l)][l] = <<f>> \o @]
                 /\ UNCHANGED raw
    /\ Goto(n, c, Reading)
    /\ UNCHANGED <<seq, table, reg, open, dialing, call, closing, env>>

\* Only a raw reader stops when its target cannot be written.
ForwardData(n, c) ==
    LET r == reader[n][c] IN
    /\ Acting(n, c, "data")
    /\ \E e \in r.router : LET hop == NextHop(e, c) IN
         IF hop.conn.type = "raw"
         THEN /\ raw' = Deliver(n, hop.conn.sid, r.frame.payload)
              /\ Goto(n, c, Reading)
              /\ UNCHANGED wire
         ELSE \E ok \in BOOLEAN :
              /\ CanWrite(n, hop.conn.link, ok)
              /\ wire' = Sent(wire, n, hop.conn.link, WithSid(r.frame, hop.sid))
              /\ Goto(n, c, IF ~ok /\ c.type = "raw" THEN Stopping ELSE Reading)
              /\ UNCHANGED raw
    /\ UNCHANGED <<seq, table, reg, open, dialing, call, closing, env>>

(***************************************************************************)
(* procClosed: forget the session, then close or tell its other end.       *)
(***************************************************************************)
ProcClosed(n, l) ==
    LET c == Channel(l)  f == Head(wire[n][l])  router == Lookup(n, c, f.sid) IN
    /\ HasFrame(n, l, "closed")
    /\ TableFree(n)
    /\ table' = [table EXCEPT ![n] = RemoveTable(n, c, f.sid)]
    /\ Goto(n, c, IF router = {} THEN Reading ELSE Found(f, router))
    /\ wire' = Taken(n, l)
    /\ UNCHANGED <<seq, reg, open, raw, dialing, call, closing, env>>

ForwardClosed(n, l) ==
    LET c == Channel(l)  r == reader[n][c] IN
    /\ Acting(n, c, "closed")
    /\ \E e \in r.router : LET hop == NextHop(e, c) IN
         IF hop.conn.type = "raw"
         THEN raw' = CloseRaws(n, {hop.conn.sid}) /\ UNCHANGED wire
         ELSE /\ wire' = Sent(wire, n, hop.conn.link, WithSid(r.frame, hop.sid))
              /\ UNCHANGED raw
    /\ Goto(n, c, Reading)
    /\ UNCHANGED <<seq, table, reg, open, dialing, call, closing, env>>

(***************************************************************************)
(* The end of loopReadRaw.                                                 *)
(***************************************************************************)
ReadFail(n, l) ==
    /\ reader[n][Channel(l)].pc = "read"
    /\ ~BothOpen(n, l)
    /\ Goto(n, Channel(l), Stopping)
    /\ UNCHANGED <<seq, table, reg, open, wire, raw, dialing, call, closing, env>>

\* The router closed the raw connection, ...
RawReadFail(n, s) ==
    /\ reader[n][Raw(s)].pc = "read"
    /\ raw[n][s].closed
    /\ Goto(n, Raw(s), Stopping)
    /\ UNCHANGED <<seq, table, reg, open, wire, raw, dialing, call, closing, env>>

\* ... or its application does.
RawEnd(n, s) ==
    /\ reader[n][Raw(s)].pc = "read"
    /\ env.ended < MaxEnd
    /\ env' = [env EXCEPT !.ended = @ + 1]
    /\ Goto(n, Raw(s), Stopping)
    /\ UNCHANGED <<seq, table, reg, open, wire, raw, dialing, call, closing>>

\* Frames nobody will read any more are dropped.
CloseChannel(n, l) ==
    /\ reader[n][Channel(l)].pc = "stop"
    /\ open' = [open EXCEPT ![n][l] = FALSE]
    /\ wire' = [wire EXCEPT ![n][l] = <<>>]
    /\ Goto(n, Channel(l), [pc |-> "unregister"])
    /\ UNCHANGED <<seq, table, reg, raw, dialing, call, closing, env>>

\* The keys whose entry the closed channel is an end of.
Touched_Dst(n, c) == {k \in DOMAIN table[n] : table[n][k].dst = c}
Touched(n, c) == {k \in DOMAIN table[n] : Holds(table[n][k], c)}

\* removes n's end of l from Router.channel and takes tableLck
Unregister(n, l) ==
    LET c == Channel(l) IN
    /\ reader[n][c].pc = "unregister"
    /\ TableFree(n)
    /\ reg' = [reg EXCEPT ![n] = @ \ {l}]
    /\ Goto(n, c, [pc |-> "purge", running |-> {},
                   todo |-> Touched(n, c)])
    /\ UNCHANGED <<seq, table, open, wire, raw, dialing, call, closing, env>>

\* one entry of "for _, router := range r.table"
PurgeEntry(n, l) ==
    LET c == Channel(l)  r == reader[n][c] IN
    /\ r.pc = "purge"
    /\ \E k \in r.todo \cap DOMAIN table[n] :
         LET hop == NextHop(table[n][k], c)  toRaw == hop.conn.type = "raw" IN
         /\ wire' = IF toRaw THEN wire ELSE Sent(wire, n, hop.conn.link, Closed(hop.sid))
         /\ table' = [table EXCEPT ![n] = RemoveTable(n, hop.conn, hop.sid)]
         /\ Goto(n, c, [r EXCEPT !.todo = @ \ {k},
                                 !.running = IF toRaw THEN @ \cup {hop.conn.sid} ELSE @])
    /\ UNCHANGED <<seq, reg, open, raw, dialing, call, closing, env>>

PurgeDone(n, l) ==
    LET c == Channel(l)  r == reader[n][c] IN
    /\ r.pc = "purge"
    /\ r.todo \cap DOMAIN table[n] = {}
    /\ Goto(n, c, [pc |-> "running", running |-> r.running])
    /\ UNCHANGED <<seq, table, reg, open, wire, raw, dialing, call, closing, env>>

CloseRunning(n, l) ==
    LET r == reader[n][Channel(l)] IN
    /\ r.pc = "running"
    /\ raw' = CloseRaws(n, r.running)
    /\ Goto(n, Channel(l), [pc |-> "done"])
    /\ UNCHANGED <<seq, table, reg, open, wire, dialing, call, closing, env>>

CloseRaw(n, s) ==
    /\ reader[n][Raw(s)].pc = "stop"
    /\ raw' = CloseRaws(n, {s})
    /\ Goto(n, Raw(s), [pc |-> "remove"])
    /\ UNCHANGED <<seq, table, reg, open, wire, dialing, call, closing, env>>

RemoveRaw_Silent(n, s) ==
    /\ reader[n][Raw(s)].pc = "remove"
    /\ TableFree(n)
    /\ table' = [table EXCEPT ![n] = RemoveTable(n, Raw(s), s)]
    /\ Goto(n, Raw(s), [pc |-> "done"])
    /\ UNCHANGED <<seq, reg, open, wire, raw, dialing, call, closing, env>>

RemoveRaw(n, s) ==
    LET c == Raw(s) IN
    /\ reader[n][c].pc = "remove"
    /\ TableFree(n)
    /\ wire' = IF Lookup(n, c, s) = {} THEN wire
               ELSE LET hop == NextHop(CHOOSE e \in Lookup(n, c, s) : TRUE, c)
                    IN Sent(wire, n, hop.conn.link, Closed(hop.sid))
    /\ table' = [table EXCEPT ![n] = RemoveTable(n, c, s)]
    /\ Goto(n, c, [pc |-> "done"])
    /\ UNCHANGED <<seq, reg, open, raw, dialing, call, closing, env>>

(***************************************************************************)
(* Closing from outside.                                                   *)
(***************************************************************************)

Failures == env.lost + Cardinality(env.closed)

\* A channel end dies: the network, loopHeartbeat, CloseChannel or its owner.
Lose(n, l) ==
    /\ open[n][l] /\ Failures < MaxFailures
    /\ open' = [open EXCEPT ![n][l] = FALSE]
    /\ env' = [env EXCEPT !.lost = @ + 1]
    /\ UNCHANGED <<seq, table, reg, wire, reader, raw, dialing, call, closing>>

\* Router.Close collects every connection, then closes them one after another.
RouterClose(n) ==
    /\ n \in Closers \ env.closed /\ Failures < MaxFailures
    /\ TableFree(n)
    /\ closing' = [closing EXCEPT ![n] =
          {Channel(l) : l \in reg[n]}
          \cup UNION {{table[n][k].src, table[n][k].dst} : k \in DOMAIN table[n]}]
    /\ env' = [env EXCEPT !.closed = @ \cup {n}]
    /\ UNCHANGED <<seq, table, reg, open, wire, reader, raw, dialing, call>>

RouterCloseOne(n) ==
    /\ \E c \in closing[n] :
         /\ closing' = [closing EXCEPT ![n] = @ \ {c}]
         /\ IF c.type = "raw" THEN raw' = CloseRaws(n, {c.sid}) /\ UNCHANGED open
            ELSE open' = [open EXCEPT ![n][c.link] = FALSE] /\ UNCHANGED raw
    /\ UNCHANGED <<seq, table, reg, wire, reader, dialing, call, env>>

(***************************************************************************)
(* Specification.                                                          *)
(***************************************************************************)
Init ==
    /\ seq = Sid0
    /\ table = [n \in Nodes |-> Empty]
    /\ reg = [n \in Nodes |-> LinksOf(n)]
    /\ open = [n \in Nodes |-> [l \in Links |-> TRUE]]
    /\ wire = [n \in Nodes |-> [l \in Links |-> <<>>]]
    /\ reader = [n \in Nodes |-> [c \in {Channel(l) : l \in LinksOf(n)} |-> Reading]]
    /\ raw = [n \in Nodes |-> Empty]
    /\ dialing = [n \in Nodes |-> {}]
    /\ call = [k \in Calls |-> [pc |-> "idle"]]
    /\ closing = [n \in Nodes |-> {}]
    /\ env = [ended |-> 0, lost |-> 0, closed |-> {}]

CallSteps(k) == DialSelect(k) \/ DialAdd(k) \/ DialSend(k)

FrameSteps(n, l) ==
    \/ ProcDialRefuse(n, l) \/ ProcDialLast(n, l) \/ ProcDialSelect(n, l)
    \/ ProcDialAdd(n, l) \/ ProcDialSend(n, l)
    \/ ProcDialBack(n, l) \/ DialBackUnknown(n, l) \/ DialBackReady(n, l)
    \/ DialBackFailed(n, l) \/ DialBackForward(n, l)
    \/ ProcData(n, l) \/ ForwardData(n, Channel(l))
    \/ ProcClosed(n, l) \/ ForwardClosed(n, l)

ExitSteps(n, l) ==
    \/ ReadFail(n, l) \/ CloseChannel(n, l) \/ Unregister(n, l)
    \/ PurgeEntry(n, l) \/ PurgeDone(n, l) \/ CloseRunning(n, l)

RawSteps(n, s) ==
    /\ Raw(s) \in DOMAIN reader[n]
    /\ \/ RawRead(n, s) \/ ForwardData(n, Raw(s))
       \/ RawReadFail(n, s) \/ RawEnd(n, s) \/ CloseRaw(n, s) \/ RemoveRaw(n, s)

\* what the router does for a raw connection, unlike what its application does
RawGoes(n, s) ==
    /\ Raw(s) \in DOMAIN reader[n]
    /\ \/ ForwardData(n, Raw(s))
       \/ RawReadFail(n, s) \/ CloseRaw(n, s) \/ RemoveRaw(n, s)

DialSteps(n, d) == RawDialFail(n, d) \/ RawDialAdd(n, d) \/ RawDialBack(n, d)

Next ==
    \/ \E k \in Calls : CallSteps(k)
    \/ \E n \in Nodes :
         \/ \E l \in LinksOf(n) : FrameSteps(n, l) \/ ExitSteps(n, l) \/ Lose(n, l)
         \/ \E s \in DOMAIN raw[n] : RawSteps(n, s)
         \/ \E d \in dialing[n] : DialSteps(n, d)
         \/ RouterClose(n) \/ RouterCloseOne(n)

Spec == Init /\ [][Next]_vars

\* Weak fairness of every goroutine of the router; applications owe nothing:
\* they need not dial, send, or close.
FairSpec ==
    /\ Spec
    /\ \A k \in Calls : WF_vars(DialAdd(k) \/ DialSend(k))
    /\ \A n \in Nodes :
         /\ \A l \in LinksOf(n) : WF_vars(FrameSteps(n, l)) /\ WF_vars(ExitSteps(n, l))
         /\ WF_vars(\E s \in DOMAIN raw[n] : RawGoes(n, s))
         /\ WF_vars(\E d \in dialing[n] : DialSteps(n, d))
         /\ WF_vars(RouterCloseOne(n))

(***************************************************************************)
(* Properties.                                                             *)
(***************************************************************************)
CallStates ==
         [pc : {"idle", "error"}]
    \cup [pc : {"add"}, link : Links]
    \cup [pc : {"send"}, link : Links, sid : Nat]
    \cup [pc : {"dialed"}, sid : Nat]

Keys == Nat \X Nat

RelayFrames == {f \in DialFrames : f.route # <<>>}

ReaderStates ==
         [pc : {"read", "stop", "unregister", "remove", "done"}]
    \cup [pc : {"add"}, frame : RelayFrames, dst : Links]
    \cup [pc : {"send"}, frame : RelayFrames, dst : Links, sid : Nat]
    \cup [pc : {"found"}, frame : Frames, router : SUBSET Entries]
    \cup [pc : {"purge"}, todo : SUBSET Keys, running : SUBSET Nat]
    \cup [pc : {"running"}, running : SUBSET Nat]

RawStates == [call : Calls, dialer : BOOLEAN, ready : BOOLEAN, failed : BOOLEAN,
              closed : BOOLEAN, sent : Nat, got : Seq(Payloads)]

Dialing == [pc : {"dial"}, link : Links, sid : Nat, call : Calls]
      \cup [pc : {"back"}, link : Links, sid : Nat, raw : Nat]

\* f maps every node to a function from some elements of S to elements of T.
Maps(f, S, T) ==
    /\ DOMAIN f = Nodes
    /\ \A n \in Nodes : /\ DOMAIN f[n] \subseteq S
                        /\ \A x \in DOMAIN f[n] : f[n][x] \in T

Wires == [Nodes -> [Links -> Seq(Frames)]]

\* Every channel end keeps its reader, in some state.
Readers ==
    /\ Maps(reader, Conns, ReaderStates)
    /\ \A n \in Nodes : \A l \in LinksOf(n) : Channel(l) \in DOMAIN reader[n]

\* The type invariant of the router's state and of the goroutines' local state.
TypeOK ==
    /\ seq \in [Nodes -> Nat]
    /\ Maps(table, Keys, Entries)
    /\ reg \in [Nodes -> SUBSET Links]
    /\ open \in [Nodes -> [Links -> BOOLEAN]]
    /\ wire \in Wires
    /\ Readers
    /\ Maps(raw, Nat, RawStates)
    /\ dialing \in [Nodes -> SUBSET Dialing]
    /\ call \in [Calls -> CallStates]
    /\ closing \in [Nodes -> SUBSET Conns]
    /\ env \in [ended : Nat, lost : Nat, closed : SUBSET Nodes]

\* Whatever is in the tables - even after sids of the two ends of a channel
\* collided - the entry a reader found by its own key names the reader's
\* connection as exactly one of its ends.  procDialBack and procChannelData call
\* methods on the hop Next returns without testing it for nil, and an entry from a
\* connection to itself would send every frame back where it came from.
HopDefined ==
    \A n \in Nodes :
        /\ \A k \in DOMAIN table[n] :
             LET e == table[n][k] IN k \in KeysOf(n, e) /\ e.src # e.dst
        /\ \A c \in DOMAIN reader[n] : reader[n][c].pc = "found" =>
             \A e \in reader[n][c].router : Holds(e, c) /\ e.src # e.dst

\* Both ends of an entry lead to it: what either side's close or failure removes is
\* the whole entry (addTable writes two keys, removeTable deletes the two keys of
\* what it finds under one of them).
EntriesPaired ==
    \A n \in Nodes : \A k \in DOMAIN table[n] :
        \A k2 \in KeysOf(n, table[n][k]) :
            k2 \in DOMAIN table[n] /\ table[n][k2] = table[n][k]

\* A session id of a channel is never given to a second call while the table still
\* holds the first (UniqueSid, addTable).
SidNotReused ==
    [][\A n \in Nodes : \A k \in DOMAIN table[n] \cap DOMAIN table'[n] :
          table'[n][k].call = table[n][k].call]_vars

\* What a raw connection receives is what the other end of the same call was given
\* to send: in order, without gap, repetition, or payload of another call, across
\* every relay and whatever is closed meanwhile.
DeliveredInOrder ==
    \A n \in Nodes : \A s \in DOMAIN raw[n] :
        LET r == raw[n][s] IN
        \A i \in DOMAIN r.got :
            r.got[i] = [call |-> r.call, dialer |-> ~r.dialer, no |-> i]

\* RawConn.Ready unlocks readyLocker without testing that it is locked: an answer
\* must not be applied to a raw connection that is ready already.
ReadyOnce ==
    \A n \in Nodes : \A l \in LinksOf(n) : Acting(n, Channel(l), "dialback") =>
        \A e \in reader[n][Channel(l)].router :
            LET t == NextHop(e, Channel(l)).conn IN
            t.type = "raw" => ~raw[n][t.sid].ready \/ raw[n][t.sid].closed

\* Every goroutine has done all it can do.
Quiescent ==
    /\ \A k \in Calls : call[k].pc \notin {"add", "send"}
    /\ \A n \in Nodes :
         /\ dialing[n] = {} /\ closing[n] = {}
         /\ \A l \in LinksOf(n) :
              \/ reader[n][Channel(l)].pc = "done"
              \/ reader[n][Channel(l)].pc = "read" /\ wire[n][l] = <<>> /\ BothOpen(n, l)
         /\ \A s \in DOMAIN raw[n] : Raw(s) \in DOMAIN reader[n] =>
              \/ reader[n][Raw(s)].pc = "done"
              \/ reader[n][Raw(s)].pc = "read" /\ ~raw[n][s].closed

\* No half-open session: when the routers have done all they can, a raw connection
\* still open (whose dial was not refused to the caller by DialConn itself) has an
\* open partner at the other end of the call, which got all that was sent.
SessionWhole ==
    Quiescent => \A n \in Nodes : \A s \in DOMAIN raw[n] :
        LET r == raw[n][s] IN
        ~r.closed /\ call[r.call].pc = "dialed" =>
            \E m \in Nodes : \E t \in DOMAIN raw[m] :
                /\ raw[m][t].call = r.call /\ raw[m][t].dialer = ~r.dialer
                /\ ~raw[m][t].closed
                /\ Len(raw[m][t].got) = r.sent

\* The only entries that outlive their session are those of relays on the way of a
\* dial that failed further on: procDialBack forwards the refusal and keeps its entry.
OnlyRefusedDialsLeak ==
    Quiescent => \A n \in Nodes : \A k \in DOMAIN table[n] :
        LET e == table[n][k]  caller == Caller[e.call] IN
        /\ call[e.call].pc = "dialed"
        /\ LET r == raw[caller][call[e.call].sid] IN
           \/ ~r.closed
           \/ r.failed /\ e.src.type = "channel" /\ e.dst.type = "channel"

\* SyncDial returns nil only for a dial that was answered "OK": once DialConn has sent
\* the dial, Wait returns what Ready was given, but Close lets Wait return nil as well.
SyncDialTold ==
    \A k \in Calls : call[k].pc = "dialed" =>
        LET r == raw[Caller[k]][call[k].sid] IN r.closed => r.ready

\* SyncDial returns: every dial that DialConn sent is answered or its raw
\* connection is closed, so that Wait is released.
Dialed(k) == call[k].pc = "dialed"
Released(k) == Dialed(k) /\ LET r == raw[Caller[k]][call[k].sid] IN r.ready \/ r.closed
DialAnswered == \A k \in Calls : Dialed(k) ~> Released(k)

\* When one end of a session is closed, by its application or because a channel on
\* the way was lost, the raw connection at the other end is closed too, even one
\* whose remote dial was still under way.
RawsOf(n, k) == {s \in DOMAIN raw[n] : raw[n][s].call = k}
SomeClosed(k) == \E n \in Nodes : \E s \in RawsOf(n, k) : raw[n][s].closed
AllClosed(k) == \A n \in Nodes : \A s \in RawsOf(n, k) : raw[n][s].closed
ClosePropagates == \A k \in Calls : SomeClosed(k) ~> AllClosed(k)
=============================================================================
