------------------------- MODULE MCDemandLifecycle --------------------------
(* Small instances of DemandLifecycle: one demand, an administrator who works *)
(* on demands and a manager, and two handlers in flight at the same time.     *)
EXTENDS DemandLifecycle, TLC

CONSTANTS d1, u1, u2, r1, r2

OneDemand == {d1}
OnePerson == {u1}
TwoPeople == {u1, u2}
TheAdmin == {u1}
TheManager == {u2}
TwoRequests == {r1, r2}

\* Handlers are interchangeable; no liveness property is checked under it.
Symmetric == Permutations(Request)
=============================================================================
