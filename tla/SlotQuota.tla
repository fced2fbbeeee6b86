----------------------------- MODULE SlotQuota -----------------------------
(***************************************************************************)
(* What a limit promises, whatever enforces it: at any moment at most      *)
(* Quota of the Users hold a place, and places are taken and given back    *)
(* one at a time.  limits.max_connections and limits.upstream_pool_size    *)
(* are both shown to implement it (module Admission).                      *)
(***************************************************************************)
EXTENDS Naturals, FiniteSets

CONSTANTS Users,   \* whoever may hold a place
          Quota    \* how many may hold one at the same time

VARIABLE holders   \* the users that hold a place now

Init == holders = {}

Take(u) ==
    /\ u \notin holders
    /\ Cardinality(holders) < Quota
    /\ holders' = holders \cup {u}

GiveBack(u) ==
    /\ u \in holders
    /\ holders' = holders \ {u}

\* Every session ends at once when the process exits.
Vanish == holders' = {}

Next == Vanish \/ \E u \in Users : Take(u) \/ GiveBack(u)

Spec == Init /\ [][Next]_holders
=============================================================================
