------------------------------ MODULE MCPool -------------------------------
(***************************************************************************)
(* Two requests for one host and two balanced dialers for TLC, of which    *)
(* the second request matches only one; the balanced dialer and the web    *)
(* dialer, which share nothing but the session, have most of the setups    *)
(* for themselves.                                                         *)
(***************************************************************************)
EXTENDS Pool, TLC

CONSTANTS r1, r2, d1, d2, h

MCHostOf == [r \in Requests |-> h]
MCMatching == [r \in Requests |-> IF r = r1 THEN Dialers ELSE {d1}]

\* d1 has a limit; either the host has one, too, or d2 is removed after a failure.
HostLimit == [dialers |-> {d1}, limit |-> d1 :> 1 @@ d2 :> 0, remove |-> d1 :> 0 @@ d2 :> 0, policy |-> 2]
Removing  == [dialers |-> {d1, d2}, limit |-> d1 :> 1 @@ d2 :> 0, remove |-> d1 :> 0 @@ d2 :> 1, policy |-> 0]
MCConfs == {HostLimit, Removing}

Dial2(k1, k2) == r1 :> k1 @@ r2 :> k2
MCSetups ==
    { [conf |-> Removing, kind |-> Dial2("balance", "balance"), close |-> {}],
      [conf |-> HostLimit, kind |-> Dial2("balance", "balance"), close |-> {}],
      [conf |-> Removing, kind |-> Dial2("unmatched", "balance"), close |-> {r2}],
      [conf |-> Removing, kind |-> Dial2("web", "web"), close |-> {r1, r2}] }
=============================================================================
