------------------------------- MODULE Latch -------------------------------
(***************************************************************************)
(* What a connection that is being dialled promises its dialer: one        *)
(* outcome, decided once, which every waiter is told and nobody is told    *)
(* before.  A connection closed before its dial was answered tells "nil",  *)
(* as RawConn.Wait of src/router/router.go does.                           *)
(***************************************************************************)
CONSTANTS Waiters

VARIABLES
    outcome,    \* "none", or what was decided: "ok", "failed" or "closed"
    told        \* [w]: "none" until Wait returns, then "nil" or "error"

vars == <<outcome, told>>

Outcomes == {"ok", "failed", "closed"}
ErrorOf(o) == IF o = "failed" THEN "error" ELSE "nil"

Init == outcome = "none" /\ told = [w \in Waiters |-> "none"]

Decide ==
    /\ outcome = "none"
    /\ outcome' \in Outcomes
    /\ UNCHANGED told

Tell(w) ==
    /\ outcome # "none" /\ told[w] = "none"
    /\ told' = [told EXCEPT ![w] = ErrorOf(outcome)]
    /\ UNCHANGED outcome

Next == Decide \/ \E w \in Waiters : Tell(w)

\* Who waits is told, once there is something to tell.
Spec == Init /\ [][Next]_vars /\ \A w \in Waiters : WF_vars(Tell(w))
=============================================================================
