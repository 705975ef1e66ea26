----------------------------- MODULE MCSlurmRemote -----------------------------
(***************************************************************************)
(* How the jobs of the instances of SlurmRemote end: with steps that agree *)
(* with their job or with one another or do not, and a root row that       *)
(* accounting always has or may omit.                                      *)
(***************************************************************************)
EXTENDS SlurmRemote

Rooted(state, steps) == [state |-> state, steps |-> steps, rootless |-> FALSE]
Rootless(state, steps) == [state |-> state, steps |-> steps, rootless |-> TRUE]

\* A failed step of a job that succeeded, whose root row is there; no failed step of
\* one that failed, and steps that differ, where the root row may be omitted.
MCJobEnds ==
    {Rooted("succeeded", {"succeeded", "failed"}),
     Rootless("failed", {"succeeded"}),
     Rootless("cancelled", {"succeeded", "failed"})}

\* All steps end as their job does.
MCAgreed == {Rooted(state, {state}) : state \in Ended}
===============================================================================
