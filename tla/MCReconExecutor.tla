--------------------------- MODULE MCReconExecutor ---------------------------
(* Small instances of ReconExecutor: one run with two WMS corrections, an    *)
(* assign and a clear, so that a throttled system has items left and both    *)
(* W1 branches occur.                                                        *)
EXTENDS ReconExecutor, TLC

CONSTANTS w1, w2, r1, t1

MCWorkers == {w1, w2}
MCOneWorker == {w1}
MCRuns == {r1}
MCTrucks == {t1}
MCItems == {1, 2}
MCRunOf == [i \in MCItems |-> r1]
MCRunKind == [r \in MCRuns |-> "nightly"]
MCTruckOf == [i \in MCItems |-> t1]
MCSystemOf == [i \in MCItems |-> "wms"]
MCActionOf == (1 :> "assign") @@ (2 :> "clear")
MCSymmetry == Permutations(MCWorkers)
=============================================================================
