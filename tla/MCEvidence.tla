------------------------------ MODULE MCEvidence ------------------------------
(* Bounded instance of the evidence chain: sessions and cases as model     *)
(* values, with their symmetry.  One session at a time is between its      *)
(* start and its receipt; the others wait, have a receipt or have ended.   *)
EXTENDS EvidenceChain, TLC, FiniteSets

Symmetry == Permutations(Sessions) \cup Permutations(Cases)

(* A session that ended without facts leaves nothing a later one could be  *)
(* given, and is not followed by another.                                  *)
OneAtATime ==
    /\ \A s, x \in Sessions :
          pc[s] = "failed" /\ facts[s] = None /\ x # s => pc[x] # "policy"
    /\ Cardinality({s \in Sessions :
          pc[s] \notin {"new", "finalize", "failed", "done"}}) <= 1
=============================================================================
