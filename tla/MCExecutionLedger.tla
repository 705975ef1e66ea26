------------------------ MODULE MCExecutionLedger ------------------------
(***************************************************************************)
(* Small instances of ExecutionLedger: two consumer loops, which are       *)
(* interchangeable.                                                        *)
(***************************************************************************)
EXTENDS ExecutionLedger, TLC

CONSTANTS h1, h2

MCHandlers == {h1, h2}
MCSlurm == {[backend |-> "slurm", outputRequired |-> FALSE]}

\* Only on Slurm may verified outputs be required (ensure_publisher_delivery_supported).
MCBoth == {[backend |-> "slurm", outputRequired |-> TRUE],
           [backend |-> "daliuge", outputRequired |-> FALSE]}
MCDeployments == MCSlurm \cup MCBoth

MCSymmetry == Permutations(MCHandlers)
=============================================================================
