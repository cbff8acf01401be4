----------------------------- MODULE MCMonitor ------------------------------
(* Instances of Monitor for TLC: two monitors, every command and a fault, or one
   monitor that nothing happens to. *)
EXTENDS Monitor

CONSTANTS m1, m2, p1

\* m1 appears in every chunk; m2 in any, with false positives everywhere or nowhere.
MCInit ==
    /\ Init
    /\ hits[m1] = Chunks
    /\ blooms[m2] \in {hits[m2], Chunks}

MCFairSpec == MCInit /\ [][Next]_vars /\ Fairness
=============================================================================
