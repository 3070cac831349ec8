----------------------------- MODULE MCSession -----------------------------
(***************************************************************************)
(* Small networks of routers for TLC: a client C, a master M, a slaver S.  *)
(***************************************************************************)
EXTENDS Session, TLC

CONSTANTS C, M, S, cm, ms, k1, k2

\* C -- M -- S, one channel each; both calls go from C to S.
LineEndA == cm :> C @@ ms :> M
LineEndB == cm :> M @@ ms :> S
LineCid  == C :> (cm :> 1 @@ ms :> 0) @@ M :> (cm :> 1 @@ ms :> 2)
            @@ S :> (cm :> 0 @@ ms :> 1)
LineSid0 == C :> 1 @@ M :> 2 @@ S :> 1
LineCaller == [k \in Calls |-> C]
LineRoute  == [k \in Calls |-> <<M, S>>]

\* k1 and k2 can be exchanged when they have the same caller and route.
CallSymmetry == Permutations({k1, k2})

NoData   == [dialer \in BOOLEAN |-> 0]
OneEach  == [dialer \in BOOLEAN |-> 1]
TwoAhead == [dialer \in BOOLEAN |-> IF dialer THEN 2 ELSE 1]

\* C -- M alone, calling each other.
PairEndA == cm :> C
PairEndB == cm :> M
PairCid  == C :> (cm :> 1) @@ M :> (cm :> 1)
PairCaller == [k \in Calls |-> IF k = k1 THEN C ELSE M]
PairRoute  == [k \in Calls |-> IF k = k1 THEN <<M>> ELSE <<C>>]

\* The two counters go on from the same value.
MeetingSid0 == C :> 1 @@ M :> 1
=============================================================================
