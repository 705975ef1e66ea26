---------------------------- MODULE FencedLease ----------------------------
(***************************************************************************)
(* What the job queue promises its callers, without workers, processes or  *)
(* a clock: each job has at most one holder, named by the token of its     *)
(* latest grant; a new grant needs the lease of the previous one to have   *)
(* run out; and only the current holder ever settles a job.  JobQueue      *)
(* implements it (docs: boilerplate_docs/operations/workers-scheduling.md, *)
(* "Fencing prevents a stale worker from committing after another worker   *)
(* has recovered the job").                                                *)
(***************************************************************************)
EXTENDS Naturals

CONSTANT Jobs

VARIABLES
    holder,     \* the token of the grant that holds the job, 0 for none
    live,       \* the jobs whose lease has not run out
    issued,     \* the number of tokens granted so far
    settled     \* the tokens under which a job was settled

Init ==
    /\ holder = [j \in Jobs |-> 0]
    /\ live = {}
    /\ issued = 0
    /\ settled = {}

Grant(j) ==
    /\ j \notin live
    /\ issued' = issued + 1
    /\ holder' = [holder EXCEPT ![j] = issued + 1]
    /\ live' = live \cup {j}
    /\ UNCHANGED settled

Settle(j) ==
    /\ holder[j] # 0
    /\ settled' = settled \cup {holder[j]}
    /\ holder' = [holder EXCEPT ![j] = 0]
    /\ live' = live \ {j}
    /\ UNCHANGED issued

\* The job is taken away from its holder for good: its execution was cancelled
\* or abandoned.
Revoke(j) ==
    /\ holder[j] # 0
    /\ holder' = [holder EXCEPT ![j] = 0]
    /\ live' = live \ {j}
    /\ UNCHANGED <<issued, settled>>

\* Leases run out.
Expire ==
    /\ live' \in SUBSET live
    /\ UNCHANGED <<holder, issued, settled>>

Next ==
    \/ \E j \in Jobs : Grant(j) \/ Settle(j) \/ Revoke(j)
    \/ Expire

Spec == Init /\ [][Next]_<<holder, live, issued, settled>>
=============================================================================
