------------------------------ MODULE Balance -------------------------------
(***************************************************************************)
(* BalancedDialer (src/dialer/balance.go): a request is dialed by the      *)
(* least used dialer its limits allow, then by the next, in rounds until   *)
(* one succeeds or the request times out.  The lock is released while a    *)
(* dialer dials, so that the list of a round, and what it was computed     *)
(* from, may be out of date when a request comes to its next entry.        *)
(*                                                                         *)
(* Time shows in two ways: the period of a count is over when more time    *)
(* than its limit says went by since it began, and a request that is past  *)
(* its first round may be timed out, after Rounds rounds (Timeout / Delay) *)
(* it is.                                                                  *)
(***************************************************************************)
EXTENDS Naturals, Sequences, FiniteSets

CONSTANTS
    Requests,   \* the sessions that dial
    Dialers, Hosts,
    HostOf,     \* [request]: the host of its uri
    Matching,   \* [request]: the dialers whose matcher its uri passes
    Confs,      \* configurations: the dialers there are, limit and fail_remove of each, and the
                \* limit by host; 0 is none
    Rounds

ASSUME BalanceAssumption ==
    /\ IsFiniteSet(Dialers) /\ IsFiniteSet(Requests) /\ Rounds \in Nat \ {0}
    /\ HostOf \in [Requests -> Hosts] /\ Matching \in [Requests -> SUBSET Dialers]
    /\ \A c \in Confs : /\ c.dialers \subseteq Dialers
                        /\ c.limit \in [Dialers -> Nat] /\ c.remove \in [Dialers -> Nat]
                        /\ c.policy \in Nat

VARIABLES
    conf,       \* the configuration
    dialers,    \* dialers: those not removed
    used,       \* [dialer]: dialersUsed: how often in this period, and is the period over
    fails,      \* [dialer]: dialersUsed: failures since the last success
    hostUsed,   \* [dialer][host]: dialersHostUsed
    req,        \* [request]: the goroutine in Dial: the rest of its list, how many copies of
                \* a name are next to each other in it, what it dials
    failed,     \* [request][dialer]: how often it failed for this request
    crashed     \* a nil dialer was called

balanceVars == <<conf, dialers, used, fails, hostUsed, req, failed, crashed>>

(***************************************************************************)
(* The list of a round.                                                    *)
(***************************************************************************)
Fresh == [used |-> 0, over |-> TRUE]

\* How often a name gets through a limit: a count whose period is over is set to 0 and
\* listed, and after that it is below its limit, and listed again.
Passes_Unlimited(u, limit) == IF u.over THEN 2 ELSE 1

Passes(u, limit) ==
    CASE limit = 0 -> 1
      [] limit > 0 /\ u.over -> 2
      [] OTHER -> IF u.used < limit THEN 1 ELSE 0

Limited_Always(r, n) == IF n \in dialers THEN Passes(used[n], conf.limit[n]) ELSE 0

\* a dialer that failed three times is not tried again
Limited(r, n) ==
    IF n \in dialers /\ failed[r][n] <= 2 THEN Passes(used[n], conf.limit[n]) ELSE 0
Copies(r, n) == Limited(r, n) * Passes(hostUsed[n][HostOf[r]], conf.policy)

UsedAfter(r) ==
    [n \in Dialers |-> IF Limited(r, n) > 0 /\ (conf.limit[n] = 0 \/ used[n].over)
                       THEN [used[n] EXCEPT !.used = 0] ELSE used[n]]
HostUsedAfter(r) ==
    [n \in Dialers |-> [h \in Hosts |->
       IF Limited(r, n) > 0 /\ h = HostOf[r] /\ conf.policy > 0 /\ hostUsed[n][h].over
       THEN [hostUsed[n][h] EXCEPT !.used = 0] ELSE hostUsed[n][h]]]

\* The names that get through, sorted by use.
Orders(r) ==
    LET names == {n \in dialers : Copies(r, n) > 0} IN
    {s \in [1 .. Cardinality(names) -> names] :
        \A i, j \in DOMAIN s : i < j => s[i] # s[j] /\ used[s[i]].used <= used[s[j]].used}

Nothing == [n \in Dialers |-> 0]

(***************************************************************************)
(* Going through the list, with the lock held: up to the next dialer that  *)
(* matches, which is counted and dialed without the lock; to a dialer that *)
(* was removed meanwhile, which is nil; or to the end, and to sleep.       *)
(***************************************************************************)
Counted(u) == [used |-> u.used + 1, over |-> u.over /\ u.used > 0]

Stops(r, list, left) ==
    {i \in DOMAIN list : /\ list[i] \notin left \/ list[i] \in Matching[r]
                         /\ \A j \in 1 .. i - 1 : list[j] \in left \ Matching[r]}

GoThrough(r, list, copies, left, u, hu) ==
    \/ /\ Stops(r, list, left) = {}
       /\ req' = [req EXCEPT ![r] = [pc |-> "sleep", list |-> <<>>, copies |-> Nothing,
                                     dialer |-> "none", round |-> req[r].round]]
       /\ used' = u /\ hostUsed' = hu
       /\ UNCHANGED crashed
    \/ \E i \in Stops(r, list, left) : LET n == list[i] IN
         IF n \notin left
         THEN /\ crashed' = TRUE
              /\ used' = u /\ hostUsed' = hu
              /\ UNCHANGED req
         ELSE /\ req' = [req EXCEPT ![r] =
                          [pc |-> "dial", dialer |-> n, round |-> req[r].round,
                           list |-> SubSeq(list, IF copies[n] > 1 THEN i ELSE i + 1, Len(list)),
                           copies |-> [copies EXCEPT ![n] = copies[n] - 1]]]
              /\ used' = [u EXCEPT ![n] = Counted(u[n])]
              /\ hostUsed' = IF conf.policy = 0 THEN hu
                             ELSE [hu EXCEPT ![n][HostOf[r]] = Counted(@)]
              /\ UNCHANGED crashed

(***************************************************************************)
(* Dial.                                                                   *)
(***************************************************************************)
NoDial == [pc |-> "idle", list |-> <<>>, copies |-> Nothing, dialer |-> "none", round |-> 0]

\* What Dial knows is gone when it returns.
Returns(r, pc) ==
    /\ req' = [req EXCEPT ![r] = [NoDial EXCEPT !.pc = pc]]
    /\ failed' = [failed EXCEPT ![r] = Nothing]

\* A filter that denies access, or a uri that cannot be parsed, ends the request.
BalanceBegin(r) ==
    /\ req[r].pc = "idle"
    /\ \E pc \in {"check", "failed"} : req' = [req EXCEPT ![r].pc = pc]
    /\ UNCHANGED <<conf, dialers, used, fails, hostUsed, failed, crashed>>

\* the head of the loop, before the lock is taken
RoundTimeout(r) ==
    /\ req[r].pc = "check" /\ req[r].round > 0
    /\ Returns(r, "failed")
    /\ UNCHANGED <<conf, dialers, used, fails, hostUsed, crashed>>

RoundBegin(r) ==
    /\ req[r].pc = "check" /\ req[r].round < Rounds
    /\ \E order \in Orders(r) :
         GoThrough(r, order, [n \in Dialers |-> Copies(r, n)], dialers, UsedAfter(r), HostUsedAfter(r))
    /\ UNCHANGED <<conf, dialers, fails, failed>>

DialSucceeds(r) ==
    LET n == req[r].dialer IN
    /\ req[r].pc = "dial"
    /\ Returns(r, "ok")
    /\ fails' = [fails EXCEPT ![n] = 0]
    /\ UNCHANGED <<conf, dialers, used, hostUsed, crashed>>

\* The dialer goes when it failed too often in a row, and the request to its next entry.
DialFails(r) ==
    LET n == req[r].dialer
        gone == n \notin dialers \/ (conf.remove[n] > 0 /\ fails[n] + 1 >= conf.remove[n]) IN
    /\ req[r].pc = "dial"
    /\ failed' = [failed EXCEPT ![r][n] = @ + 1]
    /\ fails' = IF gone \/ conf.remove[n] = 0 THEN fails ELSE [fails EXCEPT ![n] = @ + 1]
    /\ dialers' = IF gone THEN dialers \ {n} ELSE dialers
    /\ GoThrough(r, req[r].list, req[r].copies, dialers', used, hostUsed)
    /\ UNCHANGED conf

Wakes_BeginsAnew(r) ==
    /\ req[r].pc = "sleep"
    /\ req' = [req EXCEPT ![r] = [req[r] EXCEPT !.pc = "check", !.round = 0]]
    /\ UNCHANGED <<conf, dialers, used, fails, hostUsed, failed, crashed>>

Wakes(r) ==
    /\ req[r].pc = "sleep"
    /\ req' = [req EXCEPT ![r] = [req[r] EXCEPT !.pc = "check", !.round = req[r].round + 1]]
    /\ UNCHANGED <<conf, dialers, used, fails, hostUsed, failed, crashed>>

\* Time goes by.
PeriodEnds(n) ==
    /\ conf.limit[n] > 0 /\ n \in dialers /\ ~used[n].over
    /\ used' = [used EXCEPT ![n].over = TRUE]
    /\ UNCHANGED <<conf, dialers, fails, hostUsed, req, failed, crashed>>

HostPeriodEnds(n, h) ==
    /\ conf.policy > 0 /\ n \in dialers /\ ~hostUsed[n][h].over
    /\ hostUsed' = [hostUsed EXCEPT ![n][h].over = TRUE]
    /\ UNCHANGED <<conf, dialers, used, fails, req, failed, crashed>>

(***************************************************************************)
(* Specification; a call of a nil dialer ends the process.                 *)
(***************************************************************************)
BalanceInit ==
    /\ conf \in Confs
    /\ dialers = conf.dialers
    /\ used = [n \in Dialers |-> Fresh]
    /\ fails = [n \in Dialers |-> 0]
    /\ hostUsed = [n \in Dialers |-> [h \in Hosts |-> Fresh]]
    /\ req = [r \in Requests |-> NoDial]
    /\ failed = [r \in Requests |-> [n \in Dialers |-> 0]]
    /\ crashed = FALSE

DialSteps(r) == RoundTimeout(r) \/ RoundBegin(r) \/ DialSucceeds(r) \/ DialFails(r) \/ Wakes(r)
TimeSteps == \E n \in Dialers : PeriodEnds(n) \/ \E h \in Hosts : HostPeriodEnds(n, h)

BalanceNext ==
    /\ ~crashed
    /\ TimeSteps \/ \E r \in Requests : BalanceBegin(r) \/ DialSteps(r)

BalanceSpec == BalanceInit /\ [][BalanceNext]_balanceVars

(***************************************************************************)
(* Properties.                                                             *)
(***************************************************************************)
Counts == [used : Nat, over : BOOLEAN]

BalanceTypeOK ==
    /\ conf \in Confs
    /\ dialers \subseteq Dialers
    /\ used \in [Dialers -> Counts]
    /\ fails \in [Dialers -> Nat]
    /\ hostUsed \in [Dialers -> [Hosts -> Counts]]
    /\ req \in [Requests -> [pc : {"idle", "check", "dial", "sleep", "ok", "failed"},
                             list : Seq(Dialers), copies : [Dialers -> Nat],
                             dialer : Dialers \cup {"none"}, round : Nat]]
    /\ failed \in [Requests -> [Dialers -> Nat]]
    /\ crashed \in BOOLEAN

\* A request dials one dialer as often as it may fail (three times, then it is skipped),
\* and the rest of the copies the list had of it when that was found out: six times in
\* all.  The request stops asking a dialer that does not work, however many rounds it has.
TriesBounded == \A r \in Requests, n \in Dialers : failed[r][n] <= 6

\* A count goes past its limit only by what was listed before it got there, which is at
\* most the two copies every request may hold of a name whose period was over.
LimitSlack ==
    \A n \in Dialers : conf.limit[n] > 0 /\ conf.policy = 0 =>
        used[n].used < conf.limit[n] + 2 * Cardinality(Requests)
=============================================================================
