----------------------------- MODULE PoolProofs -----------------------------
(***************************************************************************)
(* Proofs about Balance, WebDialer and Pool, for any dialers, limits,      *)
(* requests, rounds, sessions and channel size: a request fails at most    *)
(* six times with one dialer, and counts go past a limit only so far,      *)
(* however the lists and counts go out of date while the lock is released; *)
(* nobody sends on the channel of a web dialer that stopped; and a dial of *)
(* the router takes only the steps of its dialer, so that it has what is   *)
(* proved of Balance and of WebDialer.                                     *)
(***************************************************************************)
EXTENDS Pool, SequenceTheorems, FiniteSetTheorems, TLAPS

(***************************************************************************)
(* The balanced dialer: the invariant.                                     *)
(***************************************************************************)
Pcs == {"idle", "check", "dial", "sleep", "ok", "failed"}
Reqs == [pc : Pcs, list : Seq(Dialers), copies : [Dialers -> Nat],
         dialer : Dialers \cup {"none"}, round : Nat]

Distinct(list) == \A i, j \in DOMAIN list : list[i] = list[j] => i = j
Listed(list, left) == \A i \in DOMAIN list : left[list[i]] > 0

\* What a request has failed with a dialer, what it is about to, and the copies it still
\* has of it: six at most.
Dialing(q, n) == IF q.pc = "dial" /\ q.dialer = n THEN 1 ELSE 0
Budget(q, f) == \A n \in Dialers : f[n] + q.copies[n] + Dialing(q, n) <= 6

RequestOK(q, f) ==
    /\ Distinct(q.list) /\ Listed(q.list, q.copies) /\ Budget(q, f)
    /\ q.pc = "dial" => q.dialer \in Dialers

BInv ==
    /\ BalanceTypeOK
    /\ TriesBounded
    /\ ~crashed => \A r \in Requests : RequestOK(req[r], failed[r])

LEMMA NothingOK ==
    /\ Nothing \in [Dialers -> Nat] /\ \A n \in Dialers : Nothing[n] = 0
    /\ <<>> \in Seq(Dialers) /\ DOMAIN <<>> = {}
BY DEF Nothing

LEMMA NoDialOK ==
    ASSUME NEW pc \in Pcs \ {"dial"}, NEW q, q = [NoDial EXCEPT !.pc = pc]
    PROVE  q \in Reqs /\ RequestOK(q, Nothing)
<1>1. /\ q = [pc |-> pc, list |-> <<>>, copies |-> Nothing, dialer |-> "none", round |-> 0]
  BY DEF NoDial
<1>2. q \in Reqs
  <2>1. pc \in Pcs /\ "none" \in Dialers \cup {"none"} /\ 0 \in Nat
    OBVIOUS
  <2>2. [pc |-> pc, list |-> <<>>, copies |-> Nothing, dialer |-> "none", round |-> 0] \in Reqs
    BY <2>1, NothingOK DEF Reqs
  <2> QED BY <1>1, <2>2
<1>3. RequestOK(q, Nothing)
  BY <1>1, NothingOK DEF RequestOK, Distinct, Listed, Budget, Dialing, Pcs
<1> QED BY <1>2, <1>3

LEMMA BalanceInitInv == ASSUME BalanceInit PROVE BInv
<1>1. BalanceTypeOK
  <2>1. NoDial \in Reqs
    <3>1. "idle" \in Pcs /\ "none" \in Dialers \cup {"none"} /\ 0 \in Nat
      BY DEF Pcs
    <3> QED BY <3>1, NothingOK DEF NoDial, Reqs
  <2>2. req \in [Requests -> Reqs]
    BY <2>1 DEF BalanceInit
  <2>3. Fresh \in Counts
    BY DEF Fresh, Counts
  <2>4. /\ conf \in Confs /\ dialers \subseteq Dialers /\ used \in [Dialers -> Counts]
        /\ fails \in [Dialers -> Nat] /\ hostUsed \in [Dialers -> [Hosts -> Counts]]
        /\ failed \in [Requests -> [Dialers -> Nat]] /\ crashed \in BOOLEAN
    BY <2>3, BalanceAssumption DEF BalanceInit
  <2> QED BY <2>2, <2>4 DEF BalanceTypeOK, Reqs, Pcs
<1>2. TriesBounded
  BY DEF BalanceInit, TriesBounded
<1>3. \A r \in Requests : RequestOK(req[r], failed[r])
  BY DEF BalanceInit, NoDial, Nothing, RequestOK, Distinct, Listed, Budget, Dialing
<1> QED BY <1>1, <1>2, <1>3 DEF BInv

(***************************************************************************)
(* Going through a list.                                                   *)
(***************************************************************************)
\* The list from its m-th entry on.
LEMMA RestOK ==
    ASSUME NEW list \in Seq(Dialers), NEW m \in 1 .. Len(list) + 1, Distinct(list)
    PROVE  LET rest == SubSeq(list, m, Len(list)) IN
           /\ rest \in Seq(Dialers) /\ Distinct(rest)
           /\ \A i \in DOMAIN rest : \E j \in DOMAIN list : j >= m /\ rest[i] = list[j]
<1> DEFINE rest == SubSeq(list, m, Len(list))
<1>1. m \in Int /\ Len(list) \in Int /\ \A i \in m .. Len(list) : list[i] \in Dialers
  OBVIOUS
<1>2. /\ rest \in Seq(Dialers)
      /\ Len(rest) = IF m <= Len(list) THEN Len(list) - m + 1 ELSE 0
      /\ \A i \in 1 .. Len(list) - m + 1 : rest[i] = list[m + i - 1]
  BY <1>1, SubSeqProperties
<1>3. DOMAIN rest = 1 .. Len(list) - m + 1
  BY <1>1, <1>2
<1>4. \A i \in DOMAIN rest : m + i - 1 \in DOMAIN list /\ m + i - 1 >= m
  BY <1>1, <1>3
<1> HIDE DEF rest
<1>5. Distinct(rest)
  <2> SUFFICES ASSUME NEW i \in DOMAIN rest, NEW j \in DOMAIN rest, rest[i] = rest[j] PROVE i = j
    BY DEF Distinct
  <2>1. i \in 1 .. Len(list) - m + 1 /\ j \in 1 .. Len(list) - m + 1
    BY <1>3
  <2>2. list[m + i - 1] = list[m + j - 1]
    BY <1>2, <2>1
  <2>3. m + i - 1 = m + j - 1
    BY <1>4, <2>2 DEF Distinct
  <2> QED BY <1>1, <2>1, <2>3
<1>6. \A i \in DOMAIN rest : \E j \in DOMAIN list : j >= m /\ rest[i] = list[j]
  BY <1>2, <1>3, <1>4
<1> QED BY <1>2, <1>5, <1>6 DEF rest

LEMMA CountedOK ==
    ASSUME NEW u \in Counts PROVE Counted(u) \in Counts
BY DEF Counted, Counts

LEMMA GoThroughOK ==
    ASSUME NEW r \in Requests, req \in [Requests -> Reqs],
           NEW list \in Seq(Dialers), NEW left \in [Dialers -> Nat], NEW there,
           NEW u \in [Dialers -> Counts], NEW hu \in [Dialers -> [Hosts -> Counts]],
           NEW f \in [Dialers -> Nat],
           HostOf[r] \in Hosts, Distinct(list), Listed(list, left),
           \A n \in Dialers : f[n] + left[n] <= 6,
           crashed = FALSE, GoThrough(r, list, left, there, u, hu)
    PROVE  /\ req' \in [Requests -> Reqs] /\ crashed' \in BOOLEAN
           /\ used' \in [Dialers -> Counts] /\ hostUsed' \in [Dialers -> [Hosts -> Counts]]
           /\ \A s \in Requests \ {r} : req'[s] = req[s]
           /\ ~crashed' => RequestOK(req'[r], f)
<1> DEFINE q == req[r]
<1>0. q \in Reqs
  OBVIOUS
<1>1. CASE /\ req' = [req EXCEPT ![r] = [pc |-> "sleep", list |-> <<>>, copies |-> Nothing,
                                        dialer |-> "none", round |-> req[r].round]]
           /\ used' = u /\ hostUsed' = hu /\ UNCHANGED crashed
  <2> DEFINE new == [pc |-> "sleep", list |-> <<>>, copies |-> Nothing, dialer |-> "none",
                     round |-> q.round]
  <2>1. q.round \in Nat
    BY <1>0 DEF Reqs
  <2>2. new \in Reqs
    BY <2>1, NothingOK DEF Reqs, Pcs
  <2>3. new.pc = "sleep" /\ new.list = <<>> /\ new.copies = Nothing
    OBVIOUS
  <2> HIDE DEF new
  <2>4. RequestOK(new, f)
    BY <2>3, NothingOK DEF RequestOK, Distinct, Listed, Budget, Dialing
  <2>5. req' = [req EXCEPT ![r] = new]
    BY <1>1 DEF new
  <2> QED BY <1>1, <2>2, <2>4, <2>5
<1>2. CASE crashed' = TRUE /\ used' = u /\ hostUsed' = hu /\ UNCHANGED req
  BY <1>2
<1>3. ASSUME NEW i \in DOMAIN list, NEW n \in Dialers, n = list[i],
             req' = [req EXCEPT ![r] =
                       [pc |-> "dial", dialer |-> n, round |-> req[r].round,
                        list |-> SubSeq(list, IF left[n] > 1 THEN i ELSE i + 1, Len(list)),
                        copies |-> [left EXCEPT ![n] = left[n] - 1]]],
             used' = [u EXCEPT ![n] = Counted(u[n])],
             hostUsed' = IF conf.policy = 0 THEN hu
                         ELSE [hu EXCEPT ![n][HostOf[r]] = Counted(@)],
             UNCHANGED crashed
      PROVE  /\ req' \in [Requests -> Reqs] /\ crashed' \in BOOLEAN
             /\ used' \in [Dialers -> Counts] /\ hostUsed' \in [Dialers -> [Hosts -> Counts]]
             /\ \A s \in Requests \ {r} : req'[s] = req[s]
             /\ ~crashed' => RequestOK(req'[r], f)
  <2> DEFINE m == IF left[n] > 1 THEN i ELSE i + 1
             rest == SubSeq(list, m, Len(list))
             fewer == [left EXCEPT ![n] = left[n] - 1]
             new == [pc |-> "dial", dialer |-> n, round |-> q.round, list |-> rest,
                     copies |-> fewer]
  <2>1. left[n] > 0 /\ left[n] \in Nat
    BY <1>3 DEF Listed
  <2>2. /\ fewer \in [Dialers -> Nat] /\ fewer[n] = left[n] - 1
        /\ \A d \in Dialers \ {n} : fewer[d] = left[d]
    BY <2>1
  <2>3. m \in 1 .. Len(list) + 1 /\ m >= i /\ (m = i => left[n] > 1)
    <3>1. i \in 1 .. Len(list) /\ Len(list) \in Nat
      OBVIOUS
    <3>2. CASE left[n] > 1
      BY <3>1, <3>2
    <3>3. CASE ~(left[n] > 1)
      <4>1. m = i + 1
        BY <3>3
      <4> QED BY <3>1, <4>1
    <3> QED BY <3>2, <3>3
  <2>4. /\ rest \in Seq(Dialers) /\ Distinct(rest)
        /\ \A k \in DOMAIN rest : \E j \in DOMAIN list : j >= m /\ rest[k] = list[j]
    BY <2>3, RestOK
  <2>5. req' = [req EXCEPT ![r] = new]
    BY <1>3
  <2> HIDE DEF m, rest, fewer, q
  <2>6. q.round \in Nat
    BY <1>0 DEF Reqs
  <2>7. new \in Reqs
    BY <2>2, <2>4, <2>6 DEF Reqs, Pcs
  <2>a. new.pc = "dial" /\ new.dialer = n /\ new.list = rest /\ new.copies = fewer
    OBVIOUS
  <2> HIDE DEF new
  <2>8. Listed(rest, fewer)
    <3> SUFFICES ASSUME NEW k \in DOMAIN rest PROVE fewer[rest[k]] > 0
      BY DEF Listed
    <3>1. PICK j \in DOMAIN list : j >= m /\ rest[k] = list[j]
      BY <2>4
    <3>2. list[j] \in Dialers /\ left[list[j]] > 0
      BY DEF Listed
    <3>3. CASE list[j] = n
      <4>1. j = i
        BY <1>3, <3>3 DEF Distinct
      <4>2. left[n] > 1
        BY <2>3, <3>1, <4>1
      <4> QED BY <2>1, <2>2, <3>1, <3>3, <4>2
    <3>4. CASE list[j] # n
      BY <2>2, <3>1, <3>2, <3>4
    <3> QED BY <3>3, <3>4
  <2>9. Budget(new, f)
    <3> SUFFICES ASSUME NEW d \in Dialers PROVE f[d] + new.copies[d] + Dialing(new, d) <= 6
      BY DEF Budget
    <3>1. f[d] \in Nat /\ left[d] \in Nat /\ f[d] + left[d] <= 6
      OBVIOUS
    <3>2. CASE d = n
      BY <2>1, <2>2, <2>a, <3>1, <3>2 DEF Dialing
    <3>3. CASE d # n
      BY <2>2, <2>a, <3>1, <3>3 DEF Dialing
    <3> QED BY <3>2, <3>3
  <2>10. RequestOK(new, f)
    BY <2>4, <2>a, <2>8, <2>9 DEF RequestOK
  <2>11. used' \in [Dialers -> Counts]
    BY <1>3, CountedOK
  <2>12. hostUsed' \in [Dialers -> [Hosts -> Counts]]
    <3>1. hu[n] \in [Hosts -> Counts] /\ hu[n][HostOf[r]] \in Counts
      OBVIOUS
    <3>2. Counted(hu[n][HostOf[r]]) \in Counts
      BY <3>1, CountedOK
    <3>3. [hu EXCEPT ![n][HostOf[r]] = Counted(@)] \in [Dialers -> [Hosts -> Counts]]
      BY <3>1, <3>2
    <3> QED BY <1>3, <3>3
  <2>13. /\ req' \in [Requests -> Reqs] /\ req'[r] = new
         /\ \A s \in Requests \ {r} : req'[s] = req[s]
    BY <2>5, <2>7
  <2> QED BY <1>3, <2>10, <2>11, <2>12, <2>13
<1>4. CASE Stops(r, list, there) = {}
  BY <1>1, <1>4 DEF GoThrough
<1>5. CASE Stops(r, list, there) # {}
  <2>1. PICK i \in Stops(r, list, there) :
            LET n == list[i] IN
            IF n \notin there
            THEN crashed' = TRUE /\ used' = u /\ hostUsed' = hu /\ UNCHANGED req
            ELSE /\ req' = [req EXCEPT ![r] =
                     [pc |-> "dial", dialer |-> n, round |-> req[r].round,
                      list |-> SubSeq(list, IF left[n] > 1 THEN i ELSE i + 1, Len(list)),
                      copies |-> [left EXCEPT ![n] = left[n] - 1]]]
                 /\ used' = [u EXCEPT ![n] = Counted(u[n])]
                 /\ hostUsed' = IF conf.policy = 0 THEN hu
                                ELSE [hu EXCEPT ![n][HostOf[r]] = Counted(@)]
                 /\ UNCHANGED crashed
    BY <1>5 DEF GoThrough
  <2>2. i \in DOMAIN list /\ list[i] \in Dialers
    BY DEF Stops
  <2>3. CASE list[i] \notin there
    <3>1. crashed' = TRUE /\ used' = u /\ hostUsed' = hu /\ UNCHANGED req
      BY <2>1, <2>3
    <3> QED BY <1>2, <3>1
  <2>4. CASE list[i] \in there
    <3> DEFINE n == list[i]
    <3>1. /\ req' = [req EXCEPT ![r] =
                     [pc |-> "dial", dialer |-> n, round |-> req[r].round,
                      list |-> SubSeq(list, IF left[n] > 1 THEN i ELSE i + 1, Len(list)),
                      copies |-> [left EXCEPT ![n] = left[n] - 1]]]
          /\ used' = [u EXCEPT ![n] = Counted(u[n])]
          /\ hostUsed' = IF conf.policy = 0 THEN hu
                         ELSE [hu EXCEPT ![n][HostOf[r]] = Counted(@)]
          /\ UNCHANGED crashed
      BY <2>1, <2>4
    <3>2. n \in Dialers
      BY <2>2
    <3> HIDE DEF n
    <3> QED BY <1>3, <2>2, <3>1, <3>2 DEF n
  <2> QED BY <2>3, <2>4
<1> QED BY <1>4, <1>5

(***************************************************************************)
(* The list of a round: a dialer is in it once, with at most four copies,  *)
(* and with none when it failed more than twice.                           *)
(***************************************************************************)
LEMMA PassesOK ==
    ASSUME NEW u \in Counts, NEW limit \in Nat PROVE Passes(u, limit) \in {0, 1, 2}
BY DEF Passes, Counts

LEMMA CopiesOK ==
    ASSUME BalanceTypeOK, NEW r \in Requests, NEW n \in Dialers
    PROVE  /\ Copies(r, n) \in 0 .. 4
           /\ failed[r][n] > 2 => Copies(r, n) = 0
<1>1. /\ used[n] \in Counts /\ hostUsed[n][HostOf[r]] \in Counts
      /\ conf.limit[n] \in Nat /\ conf.policy \in Nat /\ failed[r][n] \in Nat
  BY BalanceAssumption DEF BalanceTypeOK
<1>2. Passes(hostUsed[n][HostOf[r]], conf.policy) \in {0, 1, 2} /\ Passes(used[n], conf.limit[n]) \in {0, 1, 2}
  BY <1>1, PassesOK
<1>3. Limited(r, n) \in {0, 1, 2} /\ (failed[r][n] > 2 => Limited(r, n) = 0)
  BY <1>1, <1>2 DEF Limited
<1>4. ASSUME NEW a \in {0, 1, 2}, NEW b \in {0, 1, 2} PROVE a * b \in 0 .. 4 /\ (a = 0 => a * b = 0)
  OBVIOUS
<1> QED BY <1>2, <1>3, <1>4 DEF Copies

LEMMA OrderOK ==
    ASSUME BalanceTypeOK, NEW r \in Requests, NEW order \in Orders(r)
    PROVE  LET left == [n \in Dialers |-> Copies(r, n)] IN
           /\ order \in Seq(Dialers) /\ left \in [Dialers -> Nat]
           /\ Distinct(order) /\ Listed(order, left)
<1> DEFINE names == {n \in dialers : Copies(r, n) > 0}
           left == [n \in Dialers |-> Copies(r, n)]
<1>1. names \subseteq Dialers
  BY DEF BalanceTypeOK
<1>2. Cardinality(names) \in Nat
  BY <1>1, BalanceAssumption, FS_Subset, FS_CardinalityType
<1>3. /\ order \in [1 .. Cardinality(names) -> names]
      /\ \A i, j \in DOMAIN order : i < j => order[i] # order[j]
  BY DEF Orders
<1>4. \A n \in names : n \in Dialers /\ left[n] > 0
  BY <1>1
<1>5. left \in [Dialers -> Nat]
  BY CopiesOK
<1> HIDE DEF names, left
<1>6. order \in Seq(Dialers)
  BY <1>1, <1>2, <1>3
<1>7. Distinct(order)
  <2> SUFFICES ASSUME NEW i \in DOMAIN order, NEW j \in DOMAIN order, i # j PROVE order[i] # order[j]
    BY DEF Distinct
  <2>1. i \in Int /\ j \in Int
    BY <1>2, <1>3
  <2>2. i < j \/ j < i
    BY <2>1
  <2> QED BY <1>3, <2>2
<1>8. Listed(order, left)
  BY <1>3, <1>4 DEF Listed
<1> QED BY <1>5, <1>6, <1>7, <1>8 DEF left

LEMMA AfterOK ==
    ASSUME BalanceTypeOK, NEW r \in Requests
    PROVE  UsedAfter(r) \in [Dialers -> Counts] /\ HostUsedAfter(r) \in [Dialers -> [Hosts -> Counts]]
<1>1. ASSUME NEW u \in Counts PROVE [u EXCEPT !.used = 0] \in Counts
  BY DEF Counts
<1>2. \A n \in Dialers : used[n] \in Counts
  BY DEF BalanceTypeOK
<1>3. \A n \in Dialers, h \in Hosts : hostUsed[n][h] \in Counts
  BY DEF BalanceTypeOK
<1>4. UsedAfter(r) \in [Dialers -> Counts]
  BY <1>1, <1>2 DEF UsedAfter
<1>5. HostUsedAfter(r) \in [Dialers -> [Hosts -> Counts]]
  BY <1>1, <1>3 DEF HostUsedAfter
<1> QED BY <1>4, <1>5

(***************************************************************************)
(* The steps.                                                              *)
(***************************************************************************)
LEMMA TypesOK ==
    ASSUME BInv, ~crashed
    PROVE  /\ req \in [Requests -> Reqs] /\ failed \in [Requests -> [Dialers -> Nat]]
           /\ \A r \in Requests : RequestOK(req[r], failed[r])
           /\ crashed = FALSE
BY DEF BInv, BalanceTypeOK, Reqs, Pcs

\* What is left when a step changes nothing but one request and its failures.
LEMMA OthersOK ==
    ASSUME BInv, ~crashed, NEW r \in Requests,
           req' \in [Requests -> Reqs], failed' \in [Requests -> [Dialers -> Nat]],
           \A s \in Requests \ {r} : req'[s] = req[s] /\ failed'[s] = failed[s],
           \A n \in Dialers : failed'[r][n] <= 6,
           ~crashed' => RequestOK(req'[r], failed'[r])
    PROVE  /\ TriesBounded'
           /\ ~crashed' => (\A s \in Requests : RequestOK(req'[s], failed'[s]))
<1>1. TriesBounded'
  BY DEF BInv, TriesBounded
<1>2. ASSUME ~crashed', NEW s \in Requests PROVE RequestOK(req'[s], failed'[s])
  <2>1. CASE s = r
    BY <1>2, <2>1
  <2>2. CASE s # r
    <3>1. req'[s] = req[s] /\ failed'[s] = failed[s] /\ RequestOK(req[s], failed[s])
      BY <2>2, TypesOK
    <3> QED BY <3>1
  <2> QED BY <2>1, <2>2
<1> QED BY <1>1, <1>2

LEMMA ReturnsOK ==
    ASSUME BInv, ~crashed, NEW r \in Requests, NEW pc \in {"ok", "failed"}, Returns(r, pc)
    PROVE  /\ req' \in [Requests -> Reqs] /\ failed' \in [Requests -> [Dialers -> Nat]]
           /\ TriesBounded' /\ (~crashed' => \A s \in Requests : RequestOK(req'[s], failed'[s]))
<1> DEFINE q == [NoDial EXCEPT !.pc = pc]
<1>1. q \in Reqs /\ RequestOK(q, Nothing)
  <2>1. pc \in Pcs \ {"dial"}
    BY DEF Pcs
  <2> QED BY <2>1, NoDialOK
<1>2. req' = [req EXCEPT ![r] = q] /\ failed' = [failed EXCEPT ![r] = Nothing]
  BY DEF Returns
<1> HIDE DEF q
<1>3. /\ req' \in [Requests -> Reqs] /\ failed' \in [Requests -> [Dialers -> Nat]]
      /\ \A s \in Requests \ {r} : req'[s] = req[s] /\ failed'[s] = failed[s]
      /\ req'[r] = q /\ failed'[r] = Nothing
  BY <1>1, <1>2, TypesOK, NothingOK
<1>4. \A n \in Dialers : failed'[r][n] <= 6
  BY <1>3, NothingOK
<1> QED BY <1>1, <1>3, <1>4, OthersOK

\* A request that goes on without a dialer.
LEMMA GoesOnOK ==
    ASSUME BInv, ~crashed, NEW r \in Requests, req[r].pc # "dial", NEW q \in Reqs,
           q.pc # "dial", q.list = req[r].list, q.copies = req[r].copies,
           req' = [req EXCEPT ![r] = q], UNCHANGED failed
    PROVE  /\ req' \in [Requests -> Reqs]
           /\ TriesBounded' /\ (~crashed' => \A s \in Requests : RequestOK(req'[s], failed'[s]))
<1>1. /\ req' \in [Requests -> Reqs] /\ failed' \in [Requests -> [Dialers -> Nat]]
      /\ \A s \in Requests \ {r} : req'[s] = req[s] /\ failed'[s] = failed[s]
      /\ req'[r] = q /\ failed'[r] = failed[r]
  BY TypesOK
<1>2. RequestOK(q, failed[r])
  <2>1. RequestOK(req[r], failed[r])
    BY TypesOK
  <2> QED BY <2>1 DEF RequestOK, Budget, Dialing
<1>3. \A n \in Dialers : failed[r][n] <= 6
  BY DEF BInv, TriesBounded
<1> QED BY <1>1, <1>2, <1>3, OthersOK

LEMMA BeginInv ==
    ASSUME BInv, ~crashed, NEW r \in Requests, BalanceBegin(r) PROVE BInv'
<1>1. PICK pc \in {"check", "failed"} : req' = [req EXCEPT ![r].pc = pc]
  BY DEF BalanceBegin
<1> DEFINE q == [req[r] EXCEPT !.pc = pc]
<1>2. req[r] \in Reqs /\ req[r].pc = "idle"
  BY TypesOK DEF BalanceBegin
<1>3. q \in Reqs
  BY <1>2 DEF Reqs, Pcs
<1>4. q.pc # "dial" /\ q.list = req[r].list /\ q.copies = req[r].copies
  BY <1>2 DEF Reqs
<1>5. req' = [req EXCEPT ![r] = q]
  BY <1>1
<1> HIDE DEF q
<1>6. /\ req' \in [Requests -> Reqs]
      /\ TriesBounded' /\ (~crashed' => \A s \in Requests : RequestOK(req'[s], failed'[s]))
  BY <1>2, <1>3, <1>4, <1>5, GoesOnOK DEF BalanceBegin
<1>7. BalanceTypeOK'
  BY <1>6 DEF BalanceBegin, BInv, BalanceTypeOK, Reqs, Pcs
<1> QED BY <1>6, <1>7 DEF BInv

LEMMA WakesInv ==
    ASSUME BInv, ~crashed, NEW r \in Requests, Wakes(r) PROVE BInv'
<1> DEFINE q == [req[r] EXCEPT !.pc = "check", !.round = req[r].round + 1]
<1>2. req[r] \in Reqs /\ req[r].pc = "sleep"
  BY TypesOK DEF Wakes
<1>3. q \in Reqs
  <2> DEFINE p == req[r]
             k == p.round + 1
  <2>1. p \in Reqs /\ k \in Nat
    BY <1>2 DEF Reqs
  <2>2. q = [p EXCEPT !.pc = "check", !.round = k]
    OBVIOUS
  <2> HIDE DEF p, k, q
  <2>3. [p EXCEPT !.pc = "check", !.round = k] \in Reqs
    BY <2>1 DEF Reqs, Pcs
  <2> QED BY <2>2, <2>3
<1>4. q.pc # "dial" /\ q.list = req[r].list /\ q.copies = req[r].copies
  BY <1>2 DEF Reqs
<1>5. req' = [req EXCEPT ![r] = q]
  BY DEF Wakes
<1> HIDE DEF q
<1>6. /\ req' \in [Requests -> Reqs]
      /\ TriesBounded' /\ (~crashed' => \A s \in Requests : RequestOK(req'[s], failed'[s]))
  BY <1>2, <1>3, <1>4, <1>5, GoesOnOK DEF Wakes
<1>7. BalanceTypeOK'
  BY <1>6 DEF Wakes, BInv, BalanceTypeOK, Reqs, Pcs
<1> QED BY <1>6, <1>7 DEF BInv

LEMMA TimeoutInv ==
    ASSUME BInv, ~crashed, NEW r \in Requests, RoundTimeout(r) PROVE BInv'
<1>1. /\ req' \in [Requests -> Reqs] /\ failed' \in [Requests -> [Dialers -> Nat]]
      /\ TriesBounded' /\ (~crashed' => \A s \in Requests : RequestOK(req'[s], failed'[s]))
  BY ReturnsOK DEF RoundTimeout
<1>2. BalanceTypeOK'
  BY <1>1 DEF RoundTimeout, BInv, BalanceTypeOK, Reqs, Pcs
<1> QED BY <1>1, <1>2 DEF BInv

LEMMA SucceedsInv ==
    ASSUME BInv, ~crashed, NEW r \in Requests, DialSucceeds(r) PROVE BInv'
<1>1. /\ req' \in [Requests -> Reqs] /\ failed' \in [Requests -> [Dialers -> Nat]]
      /\ TriesBounded' /\ (~crashed' => \A s \in Requests : RequestOK(req'[s], failed'[s]))
  BY ReturnsOK DEF DialSucceeds
<1>2. fails' \in [Dialers -> Nat]
  BY DEF DialSucceeds, BInv, BalanceTypeOK
<1>3. BalanceTypeOK'
  BY <1>1, <1>2 DEF DialSucceeds, BInv, BalanceTypeOK, Reqs, Pcs
<1> QED BY <1>1, <1>3 DEF BInv

LEMMA RoundInv ==
    ASSUME BInv, ~crashed, NEW r \in Requests, RoundBegin(r) PROVE BInv'
<1> DEFINE left == [n \in Dialers |-> Copies(r, n)]
           f == failed[r]
<1>1. BalanceTypeOK /\ TriesBounded
  BY DEF BInv
<1>2. PICK order \in Orders(r) : GoThrough(r, order, left, dialers, UsedAfter(r), HostUsedAfter(r))
  BY DEF RoundBegin
<1>3. order \in Seq(Dialers) /\ left \in [Dialers -> Nat] /\ Distinct(order) /\ Listed(order, left)
  BY <1>1, OrderOK
<1>4. f \in [Dialers -> Nat] /\ \A n \in Dialers : f[n] <= 6
  BY <1>1 DEF BalanceTypeOK, TriesBounded
<1>5. \A n \in Dialers : f[n] + left[n] <= 6
  <2> SUFFICES ASSUME NEW n \in Dialers PROVE f[n] + left[n] <= 6
    OBVIOUS
  <2>1. left[n] \in 0 .. 4 /\ (f[n] > 2 => left[n] = 0) /\ f[n] \in Nat /\ f[n] <= 6
    BY <1>1, <1>4, CopiesOK
  <2> QED BY <2>1
<1>6. HostOf[r] \in Hosts /\ UsedAfter(r) \in [Dialers -> Counts]
      /\ HostUsedAfter(r) \in [Dialers -> [Hosts -> Counts]]
  BY <1>1, AfterOK, BalanceAssumption
<1> HIDE DEF left
<1>7. /\ req' \in [Requests -> Reqs] /\ crashed' \in BOOLEAN
      /\ used' \in [Dialers -> Counts] /\ hostUsed' \in [Dialers -> [Hosts -> Counts]]
      /\ \A s \in Requests \ {r} : req'[s] = req[s]
      /\ ~crashed' => RequestOK(req'[r], f)
  BY <1>2, <1>3, <1>4, <1>5, <1>6, TypesOK, GoThroughOK
<1>8. UNCHANGED <<conf, dialers, fails, failed>>
  BY DEF RoundBegin
<1>9. TriesBounded' /\ (~crashed' => \A s \in Requests : RequestOK(req'[s], failed'[s]))
  BY <1>4, <1>7, <1>8, TypesOK, OthersOK
<1>10. BalanceTypeOK'
  BY <1>1, <1>7, <1>8 DEF BalanceTypeOK, Reqs, Pcs
<1> QED BY <1>9, <1>10 DEF BInv

LEMMA FailsInv ==
    ASSUME BInv, ~crashed, NEW r \in Requests, DialFails(r) PROVE BInv'
<1> DEFINE q == req[r]
           n == q.dialer
           f == [failed[r] EXCEPT ![n] = failed[r][n] + 1]
<1>1. BalanceTypeOK /\ TriesBounded
  BY DEF BInv
<1>2. q \in Reqs /\ q.pc = "dial" /\ RequestOK(q, failed[r])
  BY TypesOK DEF DialFails
<1>3. /\ q.list \in Seq(Dialers) /\ q.copies \in [Dialers -> Nat] /\ n \in Dialers
      /\ Distinct(q.list) /\ Listed(q.list, q.copies)
  <2> HIDE DEF q
  <2>1. q.list \in Seq(Dialers) /\ q.copies \in [Dialers -> Nat]
    BY <1>2 DEF Reqs
  <2> QED BY <1>2, <2>1 DEF RequestOK
<1>4. failed[r] \in [Dialers -> Nat]
  BY TypesOK
<1>5. /\ f \in [Dialers -> Nat] /\ f[n] = failed[r][n] + 1
      /\ \A d \in Dialers \ {n} : f[d] = failed[r][d]
  <2> HIDE DEF n
  <2> QED BY <1>3, <1>4
<1>6. /\ failed' = [failed EXCEPT ![r] = f] /\ UNCHANGED conf
      /\ GoThrough(r, q.list, q.copies, dialers', used, hostUsed)
  BY DEF DialFails
<1>7. fails' \in [Dialers -> Nat] /\ dialers' \subseteq Dialers
  <2>1. fails \in [Dialers -> Nat] /\ dialers \subseteq Dialers
    BY <1>1 DEF BalanceTypeOK
  <2>2. fails' = fails \/ fails' = [fails EXCEPT ![n] = @ + 1]
    BY DEF DialFails
  <2>3. dialers' = dialers \/ dialers' = dialers \ {n}
    BY DEF DialFails
  <2> HIDE DEF n
  <2> QED BY <2>1, <2>2, <2>3
<1>8. \A d \in Dialers : f[d] + q.copies[d] <= 6
  <2> SUFFICES ASSUME NEW d \in Dialers PROVE f[d] + q.copies[d] <= 6
    OBVIOUS
  <2>1. failed[r][d] + q.copies[d] + Dialing(q, d) <= 6
    BY <1>2 DEF RequestOK, Budget
  <2>2. failed[r][d] \in Nat /\ q.copies[d] \in Nat
    BY <1>3, <1>4
  <2>3. CASE d = n
    <3>1. Dialing(q, d) = 1
      BY <1>2, <2>3 DEF Dialing
    <3>2. f[d] = failed[r][d] + 1
      BY <1>5, <2>3
    <3> HIDE DEF f, q
    <3> QED BY <2>1, <2>2, <3>1, <3>2
  <2>4. CASE d # n
    <3>1. Dialing(q, d) = 0
      BY <2>4 DEF Dialing
    <3>2. f[d] = failed[r][d]
      BY <1>5, <2>4
    <3> HIDE DEF f, q
    <3> QED BY <2>1, <2>2, <3>1, <3>2
  <2> QED BY <2>3, <2>4
<1> HIDE DEF f
<1>9. /\ req' \in [Requests -> Reqs] /\ crashed' \in BOOLEAN
      /\ used' \in [Dialers -> Counts] /\ hostUsed' \in [Dialers -> [Hosts -> Counts]]
      /\ \A s \in Requests \ {r} : req'[s] = req[s]
      /\ ~crashed' => RequestOK(req'[r], f)
  <2>1. /\ used \in [Dialers -> Counts] /\ hostUsed \in [Dialers -> [Hosts -> Counts]]
        /\ HostOf[r] \in Hosts
    BY <1>1, BalanceAssumption DEF BalanceTypeOK
  <2> QED BY <1>3, <1>5, <1>6, <1>8, <2>1, TypesOK, GoThroughOK
<1>10. /\ failed' \in [Requests -> [Dialers -> Nat]] /\ failed'[r] = f
       /\ \A s \in Requests \ {r} : failed'[s] = failed[s]
  BY <1>5, <1>6, TypesOK
<1>11. \A d \in Dialers : failed'[r][d] <= 6
  <2> SUFFICES ASSUME NEW d \in Dialers PROVE f[d] <= 6
    BY <1>10
  <2>1. f[d] \in Nat /\ q.copies[d] \in Nat /\ f[d] + q.copies[d] <= 6
    BY <1>3, <1>5, <1>8
  <2> QED BY <2>1
<1>12. TriesBounded' /\ (~crashed' => \A s \in Requests : RequestOK(req'[s], failed'[s]))
  BY <1>9, <1>10, <1>11, OthersOK
<1>13. BalanceTypeOK'
  BY <1>1, <1>6, <1>7, <1>9, <1>10 DEF BalanceTypeOK, Reqs, Pcs
<1> QED BY <1>12, <1>13 DEF BInv

LEMMA TimeInv ==
    ASSUME BInv, TimeSteps PROVE BInv'
<1>1. UNCHANGED <<conf, dialers, fails, req, failed, crashed>>
  BY DEF TimeSteps, PeriodEnds, HostPeriodEnds
<1>2. ASSUME NEW u \in Counts PROVE [u EXCEPT !.over = TRUE] \in Counts
  BY DEF Counts
<1>3. /\ used \in [Dialers -> Counts] /\ hostUsed \in [Dialers -> [Hosts -> Counts]]
  BY DEF BInv, BalanceTypeOK
<1>4. /\ used' \in [Dialers -> Counts] /\ hostUsed' \in [Dialers -> [Hosts -> Counts]]
  <2>1. ASSUME NEW n \in Dialers, PeriodEnds(n)
        PROVE  used' \in [Dialers -> Counts] /\ hostUsed' \in [Dialers -> [Hosts -> Counts]]
    <3> DEFINE c == [used[n] EXCEPT !.over = TRUE]
    <3>1. c \in Counts
      BY <1>2, <1>3
    <3>2. used' = [used EXCEPT ![n] = c] /\ hostUsed' = hostUsed
      BY <2>1 DEF PeriodEnds
    <3> HIDE DEF c
    <3> QED BY <1>3, <3>1, <3>2
  <2>2. ASSUME NEW n \in Dialers, NEW h \in Hosts, HostPeriodEnds(n, h)
        PROVE  used' \in [Dialers -> Counts] /\ hostUsed' \in [Dialers -> [Hosts -> Counts]]
    <3> DEFINE c == [hostUsed[n][h] EXCEPT !.over = TRUE]
    <3>1. c \in Counts
      BY <1>2, <1>3
    <3>2. hostUsed' = [hostUsed EXCEPT ![n][h] = c] /\ used' = used
      BY <2>2 DEF HostPeriodEnds
    <3> HIDE DEF c
    <3> QED BY <1>3, <3>1, <3>2
  <2> QED BY <2>1, <2>2 DEF TimeSteps
<1> QED BY <1>1, <1>4 DEF BInv, BalanceTypeOK, TriesBounded

(***************************************************************************)
(* How far a count goes past its limit.  A request may dial a name once    *)
(* for every copy it holds of it; the copies held by all, and the count,   *)
(* are what a round that finds the count below its limit leaves room for.  *)
(***************************************************************************)
\* The copies of one name, c[q] of them with request q, at most two each.
Held(c) == {t \in Requests \X {1, 2} : t[2] <= c[t[1]]}
CopiesOf(n) == [q \in Requests |-> req[q].copies[n]]
Room(n) == conf.limit[n] - 1 + 2 * Cardinality(Requests)

SlackInv ==
    conf.policy = 0 =>
      /\ ~crashed => \A q \in Requests, n \in Dialers : req[q].copies[n] <= 2
      /\ \A n \in Dialers : conf.limit[n] > 0 =>
            /\ used[n].used <= Room(n)
            /\ ~crashed => used[n].used + Cardinality(Held(CopiesOf(n))) <= Room(n)

LEMMA HeldBound ==
    ASSUME NEW c
    PROVE  /\ IsFiniteSet(Held(c)) /\ Cardinality(Held(c)) \in Nat
           /\ Cardinality(Requests) \in Nat /\ Cardinality(Held(c)) <= 2 * Cardinality(Requests)
<1>1. IsFiniteSet(Requests) /\ Cardinality(Requests) \in Nat
  BY BalanceAssumption, FS_CardinalityType
<1>2. IsFiniteSet({1, 2}) /\ Cardinality({1, 2}) = 2
  <2>1. IsFiniteSet({1}) /\ Cardinality({1}) = 1
    BY FS_Singleton
  <2>2. {1, 2} = {1} \cup {2} /\ 2 \notin {1}
    OBVIOUS
  <2> QED BY <2>1, <2>2, FS_AddElement
<1>3. /\ IsFiniteSet(Requests \X {1, 2})
      /\ Cardinality(Requests \X {1, 2}) = Cardinality(Requests) * 2
  BY <1>1, <1>2, FS_Product
<1>4. Held(c) \subseteq Requests \X {1, 2}
  BY DEF Held
<1>5. /\ IsFiniteSet(Held(c)) /\ Cardinality(Held(c)) \in Nat
      /\ Cardinality(Held(c)) <= Cardinality(Requests) * 2
  BY <1>3, <1>4, FS_Subset, FS_CardinalityType
<1> QED BY <1>1, <1>5

LEMMA HeldLess ==
    ASSUME NEW c \in [Requests -> Nat], NEW d \in [Requests -> Nat],
           \A q \in Requests : d[q] <= c[q]
    PROVE  Cardinality(Held(d)) <= Cardinality(Held(c))
<1>1. Held(d) \subseteq Held(c)
  BY DEF Held
<1> QED BY <1>1, HeldBound, FS_Subset

LEMMA HeldTakes ==
    ASSUME NEW c \in [Requests -> Nat], NEW r \in Requests, c[r] \in {1, 2},
           NEW d, d = [c EXCEPT ![r] = c[r] - 1]
    PROVE  Cardinality(Held(d)) = Cardinality(Held(c)) - 1
<1>1. <<r, c[r]>> \in Held(c)
  BY DEF Held
<1>2. Held(d) = Held(c) \ {<<r, c[r]>>}
  <2>1. ASSUME NEW q \in Requests, NEW i \in {1, 2}
        PROVE  i <= d[q] <=> i <= c[q] /\ <<q, i>> # <<r, c[r]>>
    <3>1. CASE q = r
      <4>1. d[q] = c[r] - 1
        BY <3>1
      <4> QED BY <3>1, <4>1
    <3>2. CASE q # r
      BY <3>2
    <3> QED BY <3>1, <3>2
  <2> QED BY <2>1 DEF Held
<1> QED BY <1>1, <1>2, HeldBound, FS_RemoveElement

\* The request dials n: it has one copy less of it, and n one use more.
Takes(r, left, u, n) ==
    /\ left[n] > 0
    /\ req'[r].copies = [left EXCEPT ![n] = left[n] - 1]
    /\ used' = [u EXCEPT ![n] = Counted(u[n])]

\* What going through a list does to the counts and to the copies the request holds.
LEMMA GoThroughCopies ==
    ASSUME NEW r \in Requests, req \in [Requests -> Reqs],
           NEW list \in Seq(Dialers), NEW left \in [Dialers -> Nat], NEW there, NEW u, NEW hu,
           Listed(list, left), crashed = FALSE, GoThrough(r, list, left, there, u, hu)
    PROVE  \/ crashed' = TRUE /\ used' = u
           \/ /\ crashed' = FALSE /\ \A q \in Requests \ {r} : req'[q] = req[q]
              /\ \/ used' = u /\ req'[r].copies = Nothing
                 \/ \E n \in Dialers : Takes(r, left, u, n)
<1>1. CASE /\ req' = [req EXCEPT ![r] = [pc |-> "sleep", list |-> <<>>, copies |-> Nothing,
                                        dialer |-> "none", round |-> req[r].round]]
           /\ used' = u /\ hostUsed' = hu /\ UNCHANGED crashed
  BY <1>1
<1>2. ASSUME NEW i \in Stops(r, list, there), NEW n, n = list[i], n \in there,
             req' = [req EXCEPT ![r] =
                       [pc |-> "dial", dialer |-> n, round |-> req[r].round,
                        list |-> SubSeq(list, IF left[n] > 1 THEN i ELSE i + 1, Len(list)),
                        copies |-> [left EXCEPT ![n] = left[n] - 1]]],
             used' = [u EXCEPT ![n] = Counted(u[n])], UNCHANGED crashed
      PROVE  /\ crashed' = FALSE /\ \A q \in Requests \ {r} : req'[q] = req[q]
             /\ n \in Dialers /\ Takes(r, left, u, n)
  <2>1. n \in Dialers /\ left[n] > 0
    BY <1>2 DEF Stops, Listed
  <2>2. req'[r] = [pc |-> "dial", dialer |-> n, round |-> req[r].round,
                   list |-> SubSeq(list, IF left[n] > 1 THEN i ELSE i + 1, Len(list)),
                   copies |-> [left EXCEPT ![n] = left[n] - 1]]
    BY <1>2
  <2>3. req'[r].copies = [left EXCEPT ![n] = left[n] - 1]
    BY <2>2
  <2> QED BY <1>2, <2>1, <2>3 DEF Takes
<1>3. CASE \E i \in Stops(r, list, there) : list[i] \notin there /\ crashed' = TRUE /\ used' = u
  BY <1>3
<1> QED BY <1>1, <1>2, <1>3 DEF GoThrough

\* When the copies that were just listed for a request leave room for a count, so do those
\* it still holds when it went through its list.
LEMMA GoThroughSlack ==
    ASSUME NEW r \in Requests, req \in [Requests -> Reqs],
           NEW list \in Seq(Dialers), NEW left \in [Dialers -> Nat], NEW there,
           NEW u \in [Dialers -> Counts], NEW hu,
           Listed(list, left), crashed = FALSE, GoThrough(r, list, left, there, u, hu),
           \A d \in Dialers : left[d] <= 2,
           NEW n \in Dialers, NEW room \in Int, NEW c,
           c = [q \in Requests |-> IF q = r THEN left[n] ELSE req[q].copies[n]],
           u[n].used + Cardinality(Held(c)) <= room
    PROVE  /\ used'[n].used <= room
           /\ crashed' = FALSE => used'[n].used + Cardinality(Held(CopiesOf(n)')) <= room
<1> DEFINE d == [q \in Requests |-> req'[q].copies[n]]
<1>0. CopiesOf(n)' = d
  BY DEF CopiesOf
<1>1. c \in [Requests -> Nat] /\ c[r] = left[n] /\ left[n] <= 2
  BY DEF Reqs
<1>2. u[n].used \in Nat /\ Cardinality(Held(c)) \in Nat
  BY HeldBound DEF Counts
<1>3. u[n].used <= room
  BY <1>2
<1>4. CASE crashed' = TRUE /\ used' = u
  BY <1>3, <1>4
<1>5. CASE used' = u /\ req'[r].copies = Nothing /\ \A q \in Requests \ {r} : req'[q] = req[q]
  <2>1. ASSUME NEW q \in Requests PROVE d[q] \in Nat /\ d[q] <= c[q]
    <3>1. req[q] \in Reqs
      OBVIOUS
    <3>2. req[q].copies[n] \in Nat
      BY <3>1 DEF Reqs
    <3>3. CASE q = r
      BY <1>1, <1>5, <3>3, NothingOK
    <3>4. CASE q # r
      BY <1>5, <3>2, <3>4
    <3> QED BY <3>3, <3>4
  <2> HIDE DEF d
  <2>2. Cardinality(Held(d)) <= Cardinality(Held(c)) /\ Cardinality(Held(d)) \in Nat
    <3>1. d \in [Requests -> Nat]
      BY <2>1 DEF d
    <3> QED BY <1>1, <2>1, <3>1, HeldLess, HeldBound
  <2> QED BY <1>0, <1>2, <1>3, <1>5, <2>2
<1>6. ASSUME NEW m \in Dialers, Takes(r, left, u, m), \A q \in Requests \ {r} : req'[q] = req[q]
      PROVE  used'[n].used <= room /\ used'[n].used + Cardinality(Held(CopiesOf(n)')) <= room
  <2>0. /\ left[m] > 0 /\ used' = [u EXCEPT ![m] = Counted(u[m])]
        /\ req'[r].copies = [left EXCEPT ![m] = left[m] - 1]
    BY <1>6 DEF Takes
  <2>1. CASE m = n
    <3>1. c[r] \in {1, 2}
      BY <1>1, <1>6, <2>0, <2>1
    <3>2. d = [c EXCEPT ![r] = c[r] - 1]
      BY <1>1, <1>6, <2>0, <2>1
    <3>3. used'[n].used = u[n].used + 1
      BY <2>0, <2>1 DEF Counted
    <3> HIDE DEF d
    <3>4. Cardinality(Held(d)) = Cardinality(Held(c)) - 1 /\ Cardinality(Held(d)) \in Nat
      BY <1>1, <3>1, <3>2, HeldTakes, HeldBound
    <3> QED BY <1>0, <1>2, <3>3, <3>4
  <2>2. CASE m # n
    <3>1. d = c
      BY <1>1, <1>6, <2>0, <2>2
    <3>2. used'[n] = u[n]
      BY <2>0, <2>2
    <3> HIDE DEF d
    <3> QED BY <1>0, <1>3, <3>1, <3>2
  <2> QED BY <2>1, <2>2
<1> HIDE DEF d
<1> QED BY <1>4, <1>5, <1>6, GoThroughCopies

LEMMA RoomOK ==
    ASSUME BalanceTypeOK, NEW n \in Dialers
    PROVE  used[n] \in Counts /\ used[n].used \in Nat /\ conf.limit[n] \in Nat /\ Room(n) \in Int
<1>1. used[n] \in Counts /\ conf.limit[n] \in Nat /\ Cardinality(Requests) \in Nat
  BY BalanceAssumption, HeldBound DEF BalanceTypeOK
<1> QED BY <1>1 DEF Room, Counts

\* A step that counts nothing and lists nothing.
LEMMA SlackLess ==
    ASSUME BInv, SlackInv, ~crashed, BInv', UNCHANGED <<conf, crashed>>,
           \A n \in Dialers : used'[n].used = used[n].used,
           \A q \in Requests, n \in Dialers : req'[q].copies[n] <= req[q].copies[n]
    PROVE  SlackInv'
<1>1. ASSUME conf.policy = 0, NEW q \in Requests, NEW n \in Dialers PROVE req'[q].copies[n] <= 2
  <2>1. req[q].copies[n] \in Nat /\ req'[q].copies[n] \in Nat /\ req[q].copies[n] <= 2
    BY <1>1 DEF BInv, BalanceTypeOK, SlackInv
  <2> QED BY <2>1
<1>2. ASSUME conf.policy = 0, NEW n \in Dialers, conf.limit[n] > 0
      PROVE  /\ used'[n].used <= Room(n)
             /\ used'[n].used + Cardinality(Held(CopiesOf(n)')) <= Room(n)
  <2> DEFINE c == [q \in Requests |-> req[q].copies[n]]
             d == [q \in Requests |-> req'[q].copies[n]]
  <2>1. c \in [Requests -> Nat] /\ d \in [Requests -> Nat] /\ \A q \in Requests : d[q] <= c[q]
    BY DEF BInv, BalanceTypeOK
  <2>2. /\ used[n].used <= Room(n) /\ used[n].used + Cardinality(Held(c)) <= Room(n)
        /\ CopiesOf(n)' = d
    BY <1>2 DEF SlackInv, CopiesOf
  <2>3. used[n].used \in Nat /\ Room(n) \in Int
    BY RoomOK DEF BInv
  <2> HIDE DEF c, d
  <2>4. /\ Cardinality(Held(d)) <= Cardinality(Held(c))
        /\ Cardinality(Held(d)) \in Nat /\ Cardinality(Held(c)) \in Nat
    BY <2>1, HeldLess, HeldBound
  <2> QED BY <2>2, <2>3, <2>4
<1> QED BY <1>1, <1>2 DEF SlackInv, Room

\* A step that goes through a list it made, or had.
LEMMA SlackGoes ==
    ASSUME BInv, SlackInv, ~crashed, UNCHANGED conf,
           NEW r \in Requests, NEW list \in Seq(Dialers), NEW left \in [Dialers -> Nat], NEW there,
           NEW u \in [Dialers -> Counts], NEW hu,
           Listed(list, left), GoThrough(r, list, left, there, u, hu),
           conf.policy = 0 => \A n \in Dialers : left[n] <= 2,
           \A n \in Dialers : conf.policy = 0 /\ conf.limit[n] > 0 =>
             u[n].used + Cardinality(Held([q \in Requests |->
                IF q = r THEN left[n] ELSE req[q].copies[n]])) <= Room(n)
    PROVE  SlackInv'
<1>0. req \in [Requests -> Reqs] /\ crashed = FALSE
  BY TypesOK
<1>1. ASSUME conf.policy = 0, ~crashed', NEW q \in Requests, NEW n \in Dialers
      PROVE  req'[q].copies[n] <= 2
  <2>1. CASE q # r
    <3>1. req'[q] = req[q]
      BY <1>0, <1>1, <2>1, GoThroughCopies
    <3> QED BY <1>1, <3>1 DEF SlackInv
  <2>2. CASE q = r
    <3>1. left[n] \in Nat /\ left[n] <= 2
      BY <1>1
    <3>2. CASE req'[r].copies = Nothing
      BY <2>2, <3>2, NothingOK
    <3>3. ASSUME NEW m \in Dialers, Takes(r, left, u, m) PROVE req'[r].copies[n] <= 2
      BY <3>1, <3>3 DEF Takes
    <3> QED BY <1>0, <1>1, <2>2, <3>2, <3>3, GoThroughCopies
  <2> QED BY <2>1, <2>2
<1>2. ASSUME conf.policy = 0, NEW n \in Dialers, conf.limit[n] > 0
      PROVE  /\ used'[n].used <= Room(n)
             /\ ~crashed' => used'[n].used + Cardinality(Held(CopiesOf(n)')) <= Room(n)
  <2>1. Room(n) \in Int
    BY RoomOK DEF BInv
  <2>2. crashed' \in BOOLEAN
    BY <1>0, GoThroughCopies
  <2> QED BY <1>0, <1>2, <2>1, <2>2, GoThroughSlack
<1> QED BY <1>1, <1>2 DEF SlackInv, Room

\* A round lists a name, and sets its count to 0, only when there is room.
LEMMA SlackRound ==
    ASSUME BInv, SlackInv, ~crashed, NEW r \in Requests, RoundBegin(r) PROVE SlackInv'
<1> DEFINE left == [n \in Dialers |-> Copies(r, n)]
           u == UsedAfter(r)
<1>1. PICK order \in Orders(r) : GoThrough(r, order, left, dialers, u, HostUsedAfter(r))
  BY DEF RoundBegin
<1>2. BalanceTypeOK /\ UNCHANGED conf
  BY DEF BInv, RoundBegin
<1>3. /\ order \in Seq(Dialers) /\ left \in [Dialers -> Nat] /\ Listed(order, left)
      /\ u \in [Dialers -> Counts]
  BY <1>2, OrderOK, AfterOK
<1>4. ASSUME conf.policy = 0, NEW n \in Dialers
      PROVE  left[n] = Limited(r, n) /\ left[n] <= 2
  <2>1. /\ used[n] \in Counts /\ hostUsed[n][HostOf[r]] \in Counts /\ conf.limit[n] \in Nat
    BY <1>2, BalanceAssumption DEF BalanceTypeOK
  <2>2. Passes(hostUsed[n][HostOf[r]], conf.policy) = 1
    BY <1>4 DEF Passes
  <2>3. Limited(r, n) \in {0, 1, 2}
    BY <2>1, PassesOK DEF Limited
  <2> QED BY <2>2, <2>3 DEF Copies
<1>5. ASSUME conf.policy = 0, NEW n \in Dialers, conf.limit[n] > 0
      PROVE  u[n].used + Cardinality(Held([q \in Requests |->
                IF q = r THEN left[n] ELSE req[q].copies[n]])) <= Room(n)
  <2> DEFINE c == [q \in Requests |-> req[q].copies[n]]
             d == [q \in Requests |-> IF q = r THEN left[n] ELSE req[q].copies[n]]
  <2>1. /\ c \in [Requests -> Nat] /\ d \in [Requests -> Nat] /\ CopiesOf(n) = c
        /\ used[n] \in Counts /\ used[n].used \in Nat
        /\ conf.limit[n] \in Nat /\ conf.limit[n] > 0
    BY <1>2, <1>3, <1>5, BalanceAssumption DEF BalanceTypeOK, CopiesOf, Counts
  <2>2. /\ Cardinality(Held(d)) <= 2 * Cardinality(Requests)
        /\ Cardinality(Held(d)) \in Nat /\ Cardinality(Held(c)) \in Nat /\ Cardinality(Requests) \in Nat
    BY HeldBound
  <2>3. CASE Limited(r, n) = 0
    <3>1. u[n] = used[n]
      BY <2>3 DEF UsedAfter
    <3>2. \A q \in Requests : d[q] <= c[q]
      BY <1>4, <1>5, <2>1, <2>3
    <3>3. used[n].used + Cardinality(Held(c)) <= Room(n) /\ Room(n) \in Int
      BY <1>5, <2>1, <2>2 DEF SlackInv, Room
    <3> HIDE DEF c, d, u
    <3>4. Cardinality(Held(d)) <= Cardinality(Held(c))
      BY <2>1, <3>2, HeldLess
    <3>5. u[n].used + Cardinality(Held(d)) <= Room(n)
      BY <2>1, <2>2, <3>1, <3>3, <3>4
    <3> QED BY <3>5 DEF d
  <2>4. CASE Limited(r, n) > 0
    <3>1. u[n].used \in Nat /\ u[n].used < conf.limit[n]
      <4>1. CASE used[n].over
        BY <2>1, <2>4, <4>1 DEF UsedAfter, Counts
      <4>2. CASE ~used[n].over
        <5>1. used[n].used < conf.limit[n]
          BY <2>1, <2>4, <4>2 DEF Limited, Passes
        <5>2. u[n] = used[n]
          BY <2>1, <4>2 DEF UsedAfter
        <5> QED BY <2>1, <5>1, <5>2
      <4> QED BY <4>1, <4>2
    <3> HIDE DEF c, d, u
    <3>2. ASSUME NEW a \in Nat, NEW b \in Nat, NEW k \in Nat, NEW m \in Nat, a < k, b <= 2 * m
          PROVE  a + b <= k - 1 + 2 * m
      BY <3>2
    <3>3. u[n].used + Cardinality(Held(d)) <= Room(n)
      BY <2>1, <2>2, <3>1, <3>2 DEF Room
    <3> QED BY <3>3 DEF d
  <2>5. Limited(r, n) \in {0, 1, 2}
    BY <1>4, <1>5, <1>3, PassesOK, <2>1 DEF Limited
  <2> QED BY <2>3, <2>4, <2>5
<1> HIDE DEF left, u
<1> QED BY <1>1, <1>2, <1>3, <1>4, <1>5, SlackGoes

\* After a failure the request goes on with the list and the copies it has.
LEMMA SlackFails ==
    ASSUME BInv, SlackInv, ~crashed, NEW r \in Requests, DialFails(r) PROVE SlackInv'
<1> DEFINE list == req[r].list
           left == req[r].copies
<1>1. req[r] \in Reqs /\ RequestOK(req[r], failed[r])
  BY TypesOK
<1>2. list \in Seq(Dialers) /\ left \in [Dialers -> Nat] /\ Listed(list, left)
  BY <1>1 DEF Reqs, RequestOK
<1>3. UNCHANGED conf /\ GoThrough(r, list, left, dialers', used, hostUsed)
  BY DEF DialFails
<1>4. used \in [Dialers -> Counts]
  BY DEF BInv, BalanceTypeOK
<1>5. conf.policy = 0 => \A n \in Dialers : left[n] <= 2
  BY DEF SlackInv
<1>6. ASSUME NEW n \in Dialers, conf.policy = 0, conf.limit[n] > 0
      PROVE  used[n].used + Cardinality(Held([q \in Requests |->
                IF q = r THEN left[n] ELSE req[q].copies[n]])) <= Room(n)
  <2>1. [q \in Requests |-> IF q = r THEN left[n] ELSE req[q].copies[n]] = CopiesOf(n)
    BY DEF CopiesOf
  <2> HIDE DEF left
  <2> QED BY <1>6, <2>1 DEF SlackInv
<1> HIDE DEF list, left
<1> QED BY <1>2, <1>3, <1>4, <1>5, <1>6, SlackGoes

LEMMA SlackOthers ==
    ASSUME BInv, SlackInv, ~crashed, BInv', NEW r \in Requests,
           BalanceBegin(r) \/ RoundTimeout(r) \/ DialSucceeds(r) \/ Wakes(r)
    PROVE  SlackInv'
<1>1. UNCHANGED <<conf, crashed, used>>
  BY DEF BalanceBegin, RoundTimeout, DialSucceeds, Wakes
<1>2. req \in [Requests -> Reqs] /\ \A q \in Requests, n \in Dialers : req[q].copies[n] \in Nat
  BY TypesOK DEF Reqs
<1>3. CASE RoundTimeout(r) \/ DialSucceeds(r)
  <2>1. PICK pc : req' = [req EXCEPT ![r] = [NoDial EXCEPT !.pc = pc]]
    BY <1>3 DEF RoundTimeout, DialSucceeds, Returns
  <2>2. [NoDial EXCEPT !.pc = pc].copies = Nothing
    BY DEF NoDial
  <2>3. req'[r].copies = Nothing /\ \A q \in Requests \ {r} : req'[q] = req[q]
    BY <1>2, <2>1, <2>2
  <2>4. \A q \in Requests, n \in Dialers : req'[q].copies[n] <= req[q].copies[n]
    BY <1>2, <2>3, NothingOK
  <2> QED BY <1>1, <2>4, SlackLess
<1>4. CASE BalanceBegin(r) \/ Wakes(r)
  <2>1. \A q \in Requests : req'[q].copies = req[q].copies
    <3>1. req[r] \in Reqs
      BY <1>2
    <3>2. req'[r].copies = req[r].copies /\ \A q \in Requests \ {r} : req'[q] = req[q]
      BY <1>2, <1>4, <3>1 DEF BalanceBegin, Wakes, Reqs
    <3> QED BY <3>2
  <2>2. \A q \in Requests, n \in Dialers : req'[q].copies[n] <= req[q].copies[n]
    BY <1>2, <2>1
  <2> QED BY <1>1, <2>2, SlackLess
<1> QED BY <1>3, <1>4

LEMMA SlackTime ==
    ASSUME BInv, SlackInv, ~crashed, BInv', TimeSteps PROVE SlackInv'
<1>1. UNCHANGED <<conf, req, crashed>>
  BY DEF TimeSteps, PeriodEnds, HostPeriodEnds
<1>2. \A n \in Dialers : used[n] \in Counts
  BY DEF BInv, BalanceTypeOK
<1>3. \A n \in Dialers : used'[n].used = used[n].used
  <2>1. ASSUME NEW m \in Dialers, PeriodEnds(m), NEW n \in Dialers PROVE used'[n].used = used[n].used
    BY <1>2, <2>1 DEF PeriodEnds, BInv, BalanceTypeOK, Counts
  <2>2. ASSUME NEW m \in Dialers, NEW h \in Hosts, HostPeriodEnds(m, h) PROVE used' = used
    BY <2>2 DEF HostPeriodEnds
  <2> QED BY <2>1, <2>2 DEF TimeSteps
<1>4. \A q \in Requests, n \in Dialers : req'[q].copies[n] <= req[q].copies[n]
  <2>1. \A q \in Requests, n \in Dialers : req[q].copies[n] \in Nat
    BY DEF BInv, BalanceTypeOK
  <2> QED BY <1>1, <2>1
<1> QED BY <1>1, <1>3, <1>4, SlackLess

(***************************************************************************)
(* What is proved of BalanceSpec.                                          *)
(***************************************************************************)
\* The invariant is inductive.
THEOREM BalanceInductive == BalanceSpec => []BInv
<1>1. BalanceInit => BInv
  BY BalanceInitInv
<1>2. BInv /\ [BalanceNext]_balanceVars => BInv'
  <2> SUFFICES ASSUME BInv, [BalanceNext]_balanceVars PROVE BInv'
    OBVIOUS
  <2>1. CASE UNCHANGED balanceVars
    BY <2>1 DEF balanceVars, BInv, BalanceTypeOK, TriesBounded
  <2>2. ASSUME ~crashed, NEW r \in Requests, BalanceBegin(r) \/ DialSteps(r) PROVE BInv'
    BY <2>2, BeginInv, TimeoutInv, RoundInv, SucceedsInv, FailsInv, WakesInv DEF DialSteps
  <2> QED BY <2>1, <2>2, TimeInv DEF BalanceNext
<1> QED BY <1>1, <1>2, PTL DEF BalanceSpec

\* The table of counts, the lists and what each request is at keep their types
\* (dialersUsed and dialersHostUsed of balance.go, the locals of Dial).
THEOREM BalanceTypeCorrect == BalanceSpec => []BalanceTypeOK
<1>1. BInv => BalanceTypeOK
  BY DEF BInv
<1> QED BY <1>1, BalanceInductive, PTL

\* A request fails six times with a dialer at most, whatever the limits, the rounds and
\* the other requests, though the list it goes through was made before it failed.
THEOREM BoundedTries == BalanceSpec => []TriesBounded
<1>1. BInv => TriesBounded
  BY DEF BInv
<1> QED BY <1>1, BalanceInductive, PTL
\* A count goes past its limit by less than the copies all requests may hold, however
\* often its period ends and is begun anew (Dial in balance.go).
THEOREM SlackBounded == BalanceSpec => []LimitSlack
<1>1. BInv /\ BalanceInit => SlackInv
  <2> SUFFICES ASSUME BInv, BalanceInit PROVE SlackInv
    OBVIOUS
  <2>1. \A q \in Requests, n \in Dialers : req[q].copies[n] = 0
    BY NothingOK DEF BalanceInit, NoDial
  <2>2. ASSUME NEW n \in Dialers, conf.limit[n] > 0
        PROVE  used[n].used <= Room(n) /\ used[n].used + Cardinality(Held(CopiesOf(n))) <= Room(n)
    <3>1. used[n].used = 0
      BY DEF BalanceInit, Fresh
    <3>2. conf.limit[n] \in Nat
      BY BalanceAssumption DEF BInv, BalanceTypeOK
    <3> QED BY <2>2, <3>1, <3>2, HeldBound DEF Room
  <2> QED BY <2>1, <2>2 DEF SlackInv
<1>2. BInv /\ SlackInv /\ BInv' /\ [BalanceNext]_balanceVars => SlackInv'
  <2> SUFFICES ASSUME BInv, SlackInv, BInv', [BalanceNext]_balanceVars PROVE SlackInv'
    OBVIOUS
  <2>1. CASE UNCHANGED balanceVars
    BY <2>1 DEF balanceVars, SlackInv, Room, CopiesOf
  <2>2. ASSUME ~crashed, NEW r \in Requests, BalanceBegin(r) \/ DialSteps(r) PROVE SlackInv'
    BY <2>2, SlackRound, SlackFails, SlackOthers DEF DialSteps
  <2> QED BY <2>1, <2>2, SlackTime DEF BalanceNext
<1>3. BInv /\ SlackInv => LimitSlack
  <2> SUFFICES ASSUME BInv, SlackInv, NEW n \in Dialers, conf.limit[n] > 0, conf.policy = 0
               PROVE  used[n].used < conf.limit[n] + 2 * Cardinality(Requests)
    BY DEF LimitSlack
  <2>1. used[n].used <= Room(n)
    BY DEF SlackInv
  <2>2. used[n].used \in Nat /\ conf.limit[n] \in Nat /\ Cardinality(Requests) \in Nat
    BY BalanceAssumption, HeldBound DEF BInv, BalanceTypeOK, Counts
  <2> QED BY <2>1, <2>2 DEF Room
<1> QED BY <1>1, <1>2, <1>3, BalanceInductive, PTL DEF BalanceSpec

(***************************************************************************)
(* The web dialer: who is about to send has the lock, and a nil that is    *)
(* under way, or made the server end, was sent.                            *)
(***************************************************************************)
SenderLocks == \A s \in Sids : visit[s] = "send" => lock = s
NilIsSent ==
    /\ \A i \in DOMAIN accept : accept[i] = Nil => shutdown = "sent"
    /\ server # "serve" => shutdown = "sent"

WInv == WebTypeOK /\ SenderLocks /\ NilIsSent /\ NoSendOnClosed

LEMMA WebInitInv == ASSUME WebInit PROVE WInv
<1>1. accept \in Seq(Sids \cup {Nil}) /\ Len(accept) = 0 /\ DOMAIN accept = {}
  BY DEF WebInit
<1> QED BY <1>1, WebAssumption DEF WebInit, WInv, WebTypeOK, SenderLocks, NilIsSent, NoSendOnClosed

LEMMA AppendOK ==
    ASSUME NEW S, NEW seq \in Seq(S), NEW e \in S
    PROVE  /\ Append(seq, e) \in Seq(S) /\ Len(Append(seq, e)) = Len(seq) + 1
           /\ \A i \in DOMAIN Append(seq, e) : Append(seq, e)[i] = e \/ (i \in DOMAIN seq /\ Append(seq, e)[i] = seq[i])
BY AppendProperties

LEMMA TailOK ==
    ASSUME NEW S, NEW seq \in Seq(S), seq # <<>>
    PROVE  /\ Head(seq) \in S /\ Tail(seq) \in Seq(S) /\ Len(Tail(seq)) = Len(seq) - 1
           /\ Head(seq) = seq[1] /\ 1 \in DOMAIN seq
           /\ \A i \in DOMAIN Tail(seq) : i + 1 \in DOMAIN seq /\ Tail(seq)[i] = seq[i + 1]
BY HeadTailProperties

LEMMA SendInv == ASSUME WInv, NEW s \in Sids, WebSend(s) PROVE WInv'
<1>1. /\ accept' = Append(accept, s) /\ visit' = [visit EXCEPT ![s] = "ok"] /\ lock' = Nil
      /\ Len(accept) < Cap /\ visit[s] = "send" /\ UNCHANGED <<server, shutdown, cons, served>>
  BY DEF WebSend
<1>2. accept \in Seq(Sids \cup {Nil}) /\ s \in Sids \cup {Nil} /\ Len(accept) \in Nat
  BY DEF WInv, WebTypeOK
<1>3. /\ accept' \in Seq(Sids \cup {Nil}) /\ Len(accept') = Len(accept) + 1
      /\ \A i \in DOMAIN accept' : accept'[i] = s \/ (i \in DOMAIN accept /\ accept'[i] = accept[i])
  BY <1>1, <1>2, AppendOK
<1>4. WebTypeOK'
  <2>1. Len(accept') <= Cap
    BY <1>1, <1>2, <1>3, WebAssumption
  <2> QED BY <1>1, <1>3, <2>1 DEF WInv, WebTypeOK
<1>5. \A t \in Sids : visit'[t] # "send"
  BY <1>1 DEF WInv, WebTypeOK, SenderLocks
<1>6. NilIsSent'
  BY <1>1, <1>3, WebAssumption DEF WInv, NilIsSent
<1> QED BY <1>1, <1>4, <1>5, <1>6 DEF WInv, SenderLocks, NoSendOnClosed

LEMMA AcceptInv == ASSUME WInv, WebAccept PROVE WInv'
<1>1. /\ accept # <<>> /\ accept' = Tail(accept) /\ server = "serve"
      /\ UNCHANGED <<visit, lock, shutdown, cons>>
  BY DEF WebAccept
<1>2. accept \in Seq(Sids \cup {Nil}) /\ Len(accept) \in Nat /\ Len(accept) <= Cap
  BY DEF WInv, WebTypeOK
<1>3. /\ Head(accept) \in Sids \cup {Nil} /\ accept' \in Seq(Sids \cup {Nil})
      /\ Len(accept') = Len(accept) - 1 /\ Head(accept) = accept[1] /\ 1 \in DOMAIN accept
      /\ \A i \in DOMAIN accept' : i + 1 \in DOMAIN accept /\ accept'[i] = accept[i + 1]
  BY <1>1, <1>2, TailOK
<1>4. Len(accept') <= Cap
  BY <1>2, <1>3, WebAssumption
<1>5. CASE Head(accept) = Nil /\ server' = "ending" /\ UNCHANGED served
  <2>1. shutdown = "sent"
    BY <1>3, <1>5 DEF WInv, NilIsSent
  <2>2. WebTypeOK'
    BY <1>1, <1>3, <1>4, <1>5 DEF WInv, WebTypeOK
  <2> QED BY <1>1, <1>3, <1>5, <2>1, <2>2 DEF WInv, SenderLocks, NilIsSent, NoSendOnClosed
<1>6. CASE Head(accept) # Nil /\ served' = served \cup {Head(accept)} /\ UNCHANGED server
  <2>1. Head(accept) \in Sids
    BY <1>3, <1>6
  <2>2. WebTypeOK'
    BY <1>1, <1>3, <1>4, <1>6, <2>1 DEF WInv, WebTypeOK
  <2>3. NilIsSent'
    BY <1>1, <1>3, <1>6 DEF WInv, NilIsSent
  <2> QED BY <1>1, <1>6, <2>2, <2>3 DEF WInv, SenderLocks, NoSendOnClosed
<1> QED BY <1>5, <1>6 DEF WebAccept

LEMMA ShutdownInv == ASSUME WInv, ShutdownSend PROVE WInv'
<1>1. /\ accept' = Append(accept, Nil) /\ shutdown' = "sent" /\ Len(accept) < Cap
      /\ UNCHANGED <<visit, lock, server, cons, served>>
  BY DEF ShutdownSend
<1>2. accept \in Seq(Sids \cup {Nil}) /\ Nil \in Sids \cup {Nil} /\ Len(accept) \in Nat
  BY DEF WInv, WebTypeOK
<1>3. accept' \in Seq(Sids \cup {Nil}) /\ Len(accept') = Len(accept) + 1
  BY <1>1, <1>2, AppendOK
<1>4. Len(accept') <= Cap
  BY <1>1, <1>2, <1>3, WebAssumption
<1>5. WebTypeOK'
  BY <1>1, <1>3, <1>4 DEF WInv, WebTypeOK
<1> QED BY <1>1, <1>5 DEF WInv, SenderLocks, NilIsSent, NoSendOnClosed

LEMMA WebStepInv == ASSUME WInv, [WebNext]_webVars PROVE WInv'
<1>1. CASE UNCHANGED webVars
  BY <1>1 DEF webVars, WInv, WebTypeOK, SenderLocks, NilIsSent, NoSendOnClosed
<1>2. ASSUME NEW s \in Sids, WebBegin(s) PROVE WInv'
  <2>1. /\ visit' = [visit EXCEPT ![s] = "lock"] /\ UNCHANGED <<lock, accept, server, shutdown, cons, served>>
    BY <1>2 DEF WebBegin
  <2>2. WebTypeOK'
    BY <2>1 DEF WInv, WebTypeOK
  <2>3. \A t \in Sids : visit'[t] = "send" => visit[t] = "send"
    BY <2>1 DEF WInv, WebTypeOK
  <2> QED BY <2>1, <2>2, <2>3 DEF WInv, SenderLocks, NilIsSent, NoSendOnClosed
<1>3. ASSUME NEW s \in Sids, WebLock(s) PROVE WInv'
  <2>1. UNCHANGED <<accept, server, shutdown, served>> /\ lock = Nil /\ visit[s] = "lock"
    BY <1>3 DEF WebLock
  <2>2. CASE server = "stopped"
    <3>1. visit' = [visit EXCEPT ![s] = "failed"] /\ UNCHANGED <<lock, cons>>
      BY <1>3, <2>2 DEF WebLock
    <3>2. WebTypeOK'
      BY <2>1, <3>1 DEF WInv, WebTypeOK
    <3>3. \A t \in Sids : visit'[t] = "send" => visit[t] = "send"
      BY <3>1 DEF WInv, WebTypeOK
    <3> QED BY <2>1, <3>1, <3>2, <3>3 DEF WInv, SenderLocks, NilIsSent, NoSendOnClosed
  <2>3. CASE server # "stopped"
    <3>1. visit' = [visit EXCEPT ![s] = "send"] /\ cons' = cons \cup {s} /\ lock' = s
      BY <1>3, <2>3 DEF WebLock
    <3>2. WebTypeOK'
      BY <2>1, <3>1 DEF WInv, WebTypeOK
    <3>3. \A t \in Sids : visit'[t] = "send" => t = s
      BY <2>1, <3>1, WebAssumption DEF WInv, WebTypeOK, SenderLocks
    <3> QED BY <2>1, <2>3, <3>1, <3>2, <3>3 DEF WInv, SenderLocks, NilIsSent, NoSendOnClosed
  <2> QED BY <2>2, <2>3
<1>4. ASSUME WebStopped PROVE WInv'
  <2>1. server = "ending" /\ lock = Nil /\ server' = "stopped"
        /\ UNCHANGED <<visit, lock, accept, shutdown, cons, served>>
    BY <1>4 DEF WebStopped
  <2>2. \A s \in Sids : visit[s] # "send"
    BY <2>1, WebAssumption DEF WInv, SenderLocks
  <2>3. WebTypeOK'
    BY <2>1 DEF WInv, WebTypeOK
  <2> QED BY <2>1, <2>2, <2>3 DEF WInv, SenderLocks, NilIsSent, NoSendOnClosed
<1>5. ASSUME ShutdownBegin PROVE WInv'
  <2>1. shutdown = "none" /\ shutdown' = "send" /\ UNCHANGED <<visit, lock, accept, server, cons, served>>
    BY <1>5 DEF ShutdownBegin
  <2> QED BY <2>1 DEF WInv, WebTypeOK, SenderLocks, NilIsSent, NoSendOnClosed
<1> QED BY <1>1, <1>2, <1>3, <1>4, <1>5, SendInv, AcceptInv, ShutdownInv
        DEF WebNext, VisitSteps, ServerSteps

THEOREM WebInductive == WebSpec => []WInv
BY WebInitInv, WebStepInv, PTL DEF WebSpec

(***************************************************************************)
(* A dial of the router.                                                   *)
(***************************************************************************)
\* The two dialers share nothing but the session.
THEOREM DialersApart == Spec => BalanceSpec /\ WebSpec
<1>1. Init => BalanceInit /\ WebInit
  BY DEF Init
<1>2. [Next]_vars => [BalanceNext]_balanceVars /\ [WebNext]_webVars
  <2> SUFFICES ASSUME [Next]_vars PROVE [BalanceNext]_balanceVars /\ [WebNext]_webVars
    OBVIOUS
  <2>1. CASE UNCHANGED vars
    BY <2>1 DEF vars
  <2>2. ASSUME ~crashed, NEW s \in Sids, PoolDial(s) PROVE [BalanceNext]_balanceVars /\ [WebNext]_webVars
    <3>1. \/ BalanceBegin(s) /\ UNCHANGED webVars
          \/ WebBegin(s) /\ UNCHANGED balanceVars
          \/ UNCHANGED <<balanceVars, webVars>>
      BY <2>2 DEF PoolDial
    <3> QED BY <2>2, <3>1, SetupsAssumption DEF BalanceNext, WebNext
  <2>3. ASSUME ~crashed, NEW s \in Sids, Balancing(s) PROVE [BalanceNext]_balanceVars /\ [WebNext]_webVars
    BY <2>3, SetupsAssumption DEF Balancing, OnlyBalance, BalanceNext
  <2>4. ASSUME ~crashed, NEW s \in Sids, Visiting(s) PROVE [BalanceNext]_balanceVars /\ [WebNext]_webVars
    BY <2>4 DEF Visiting, OnlyWeb, WebNext
  <2>5. ASSUME NEW s \in Sids,
               \/ Joining(s) \/ ToRawEnds(s) \/ ToConnEnds(s) \/ RawEnds(s) \/ ConnEnds(s)
               \/ RouterCloses(s)
        PROVE  [BalanceNext]_balanceVars /\ [WebNext]_webVars
    <3>1. UNCHANGED balanceVars /\ UNCHANGED webVars
      BY <2>5 DEF Joining, DialRefused, DialJoined, ToRawEnds, ToConnEnds, RawEnds, ConnEnds,
                   RouterCloses
    <3> QED BY <3>1
  <2>6. ASSUME ~crashed, TimeSteps /\ OnlyBalance PROVE [BalanceNext]_balanceVars /\ [WebNext]_webVars
    BY <2>6 DEF OnlyBalance, BalanceNext
  <2>7. ASSUME Serving \/ (ShutdownBegin /\ OnlyWeb) PROVE [BalanceNext]_balanceVars /\ [WebNext]_webVars
    BY <2>7 DEF Serving, OnlyWeb, WebNext
  <2>8. ASSUME RouterClose PROVE [BalanceNext]_balanceVars /\ [WebNext]_webVars
    BY <2>8 DEF RouterClose
  <2> QED BY <2>1, <2>2, <2>3, <2>4, <2>5, <2>6, <2>7, <2>8 DEF Next
<1> QED BY <1>1, <1>2, PTL DEF Spec, BalanceSpec, WebSpec

\* No web dial sends on the channel its server has closed (WebDialer.Dial and Bootstrap),
\* however the dials, the server and Shutdown are scheduled and however small the channel.
THEOREM WebNeverPanics == Spec => []NoSendOnClosed
<1>1. WInv => NoSendOnClosed
  BY DEF WInv
<1> QED BY <1>1, DialersApart, WebInductive, PTL

\* A balanced dial that the router makes fails six times with a dialer at most.
THEOREM PoolTries == Spec => []TriesBounded
BY DialersApart, BoundedTries, PTL

\* Nor does the router, whatever else it dials, take a count further past its limit.
THEOREM PoolSlack == Spec => []LimitSlack
BY DialersApart, SlackBounded, PTL

\* The rest of the types: the sessions in rawConn are those that a copy will take out.
SessionOK ==
    /\ setup \in Setups
    /\ raw \in [Sids -> {"none", "open", "closed"}]
    /\ conn \in [Sids -> {"none", "open", "closed"}]
    /\ copies \in [Sids -> SUBSET {"to conn", "to raw"}]
    /\ rawConn = {s \in Sids : "to conn" \in copies[s]}
    /\ router \in [called : BOOLEAN, todo : SUBSET (Sids \X {"raw", "conn"})]

LEMMA SessionStep == ASSUME SessionOK, [Next]_vars PROVE SessionOK'
<1> USE DEF SessionOK
<1>1. CASE UNCHANGED <<setup, sessionVars>>
  BY <1>1 DEF sessionVars
<1>2. ASSUME NEW s \in Sids, PoolDial(s) PROVE SessionOK'
  BY <1>2 DEF PoolDial
<1>3. ASSUME NEW s \in Sids, DialRefused(s) PROVE SessionOK'
  BY <1>3 DEF DialRefused
<1>4. ASSUME NEW s \in Sids, DialJoined(s) PROVE SessionOK'
  BY <1>4 DEF DialJoined
<1>5. ASSUME NEW s \in Sids, ToRawEnds(s) PROVE SessionOK'
  BY <1>5 DEF ToRawEnds
<1>6. ASSUME NEW s \in Sids, ToConnEnds(s) PROVE SessionOK'
  BY <1>6 DEF ToConnEnds
<1>7. ASSUME NEW s \in Sids, RawEnds(s) \/ ConnEnds(s) PROVE SessionOK'
  BY <1>7 DEF RawEnds, ConnEnds
<1>8. ASSUME RouterClose PROVE SessionOK'
  <2>1. rawConn \X {"raw", "conn"} \subseteq Sids \X {"raw", "conn"}
    OBVIOUS
  <2> QED BY <1>8, <2>1 DEF RouterClose
<1>10. ASSUME NEW s \in Sids, RouterCloses(s) PROVE SessionOK'
  <2>1. UNCHANGED <<setup, copies, rawConn>>
    BY <1>10 DEF RouterCloses
  <2>2. PICK end \in {"raw", "conn"} :
           /\ router' = [router EXCEPT !.todo = @ \ {<<s, end>>}]
           /\ raw' = IF end = "raw" THEN [raw EXCEPT ![s] = "closed"] ELSE raw
           /\ conn' = IF end = "conn" THEN [conn EXCEPT ![s] = "closed"] ELSE conn
    BY <1>10 DEF RouterCloses
  <2>3. raw' \in [Sids -> {"none", "open", "closed"}]
    BY <2>2
  <2>4. conn' \in [Sids -> {"none", "open", "closed"}]
    BY <2>2
  <2>5. router' \in [called : BOOLEAN, todo : SUBSET (Sids \X {"raw", "conn"})]
    BY <2>2
  <2> QED BY <2>1, <2>3, <2>4, <2>5
<1>9. ASSUME OnlyBalance \/ OnlyWeb PROVE SessionOK'
  BY <1>1, <1>9 DEF OnlyBalance, OnlyWeb
<1> QED BY <1>1, <1>2, <1>3, <1>4, <1>5, <1>6, <1>7, <1>8, <1>9, <1>10
        DEF Next, vars, Balancing, Visiting, Joining, Serving

\* What a dial of the router goes through keeps its types, and Router.rawConn holds the
\* sessions that still have a copy towards the dialed side (DialConn and startConnPipe).
THEOREM PoolTypeCorrect == Spec => []TypeOK
<1>1. Init => SessionOK
  <2> SUFFICES ASSUME Init PROVE SessionOK
    OBVIOUS
  <2>1. {} \subseteq Sids \X {"raw", "conn"}
    OBVIOUS
  <2>2. router \in [called : BOOLEAN, todo : SUBSET (Sids \X {"raw", "conn"})]
    BY <2>1 DEF Init
  <2>3. rawConn = {s \in Sids : "to conn" \in copies[s]}
    BY DEF Init
  <2> QED BY <2>2, <2>3 DEF Init, SessionOK
<1>2. SessionOK /\ [Next]_vars => SessionOK'
  BY SessionStep
<1>3. WInv => WebTypeOK
  BY DEF WInv
<1>4. BalanceTypeOK /\ WebTypeOK /\ SessionOK => TypeOK
  BY DEF TypeOK, SessionOK
<1> QED BY <1>1, <1>2, <1>3, <1>4, DialersApart, BalanceTypeCorrect, WebInductive, PTL DEF Spec
=============================================================================
