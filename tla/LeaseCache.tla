----------------------------- MODULE LeaseCache -----------------------------
(***************************************************************************)
(* What the central resource cache promises to the code that uses it: a    *)
(* lease keeps its resource resident.  Nothing is said of budgets, groups, *)
(* pins or eviction order; ResourceManager implements this specification.  *)
(***************************************************************************)
CONSTANTS Resources,    \* cache ids
          Leases,       \* lease objects
          NoResource    \* what an inactive lease stands for

VARIABLES resident,     \* the cache ids whose bytes are in memory
          holds         \* the resource each lease keeps

vars == <<resident, holds>>

Held == { holds[l] : l \in Leases } \ {NoResource}

Init ==
  /\ resident = {}
  /\ holds = [l \in Leases |-> NoResource]

\* A lease is granted on a resource that is resident from now on; room may
\* have been made for it by dropping resources nobody holds.
Grant(l, r, dropped) ==
  /\ holds[l] = NoResource
  /\ dropped \subseteq resident \ Held
  /\ resident' = (resident \ dropped) \cup {r}
  /\ holds' = [holds EXCEPT ![l] = r]

Return(l) ==
  /\ holds[l] # NoResource
  /\ holds' = [holds EXCEPT ![l] = NoResource]
  /\ UNCHANGED resident

Drop(dropped) ==
  /\ dropped \subseteq resident \ Held
  /\ resident' = resident \ dropped
  /\ UNCHANGED holds

Next ==
  \/ \E l \in Leases, r \in Resources, dropped \in SUBSET resident : Grant(l, r, dropped)
  \/ \E l \in Leases : Return(l)
  \/ \E dropped \in SUBSET resident : Drop(dropped)

Spec == Init /\ [][Next]_vars
=============================================================================
