-------------------------- MODULE SingleSubmission --------------------------
(***************************************************************************)
(* What the submission protocol promises of one execution, without         *)
(* handlers, leases, polls, retries or a cluster: of all the submissions   *)
(* it ever makes at most one can have left work outside, and an end it     *)
(* records is the end some submitted work had.  The claim is what keeps    *)
(* others out (begin_execution_submission); nothing gives it back while    *)
(* work may be outside.  ExecutionLedger implements it, where a call to    *)
(* the backend is one step, and so does SlurmRemote, where it is the       *)
(* commands the call is made of.                                           *)
(***************************************************************************)

CONSTANT Submissions

VARIABLES
    work,       \* what became of each submission outside
    claim,      \* free, open for the one submission it stands for, or used
    known       \* the end the execution has on record, or none

Ended == {"succeeded", "failed", "cancelled"}

Quiet == \A s \in Submissions : work[s] \in {"none", "refused"}

Init ==
    /\ work = [s \in Submissions |-> "none"]
    /\ claim = "free"
    /\ known = "none"

\* The claim may be taken some time before the submission is made.
Claim ==
    /\ claim = "free"
    /\ claim' = "open"
    /\ UNCHANGED <<work, known>>

Submit(s) ==
    /\ claim # "used"
    /\ work[s] = "none"
    /\ work' = [work EXCEPT ![s] = "asked"]
    /\ claim' = "used"
    /\ UNCHANGED known

\* The claim is taken to be used: by a submitter that gave up, for one.
Spend ==
    /\ claim' = "used"
    /\ UNCHANGED <<work, known>>

Release ==
    /\ Quiet
    /\ claim' = "free"
    /\ UNCHANGED <<work, known>>

Answer(s) ==
    /\ work[s] = "asked"
    /\ \E w \in {"refused", "active"} : work' = [work EXCEPT ![s] = w]
    /\ UNCHANGED <<claim, known>>

End(s) ==
    /\ work[s] = "active"
    /\ \E w \in Ended : work' = [work EXCEPT ![s] = w]
    /\ UNCHANGED <<claim, known>>

Learn(s) ==
    /\ work[s] \in Ended
    /\ known' = work[s]
    /\ UNCHANGED <<work, claim>>

\* An end on record may be given up for a later answer that says less.
Forget ==
    /\ known' = "none"
    /\ UNCHANGED <<work, claim>>

Next ==
    \/ Claim \/ Spend \/ Release \/ Forget
    \/ \E s \in Submissions : Submit(s) \/ Answer(s) \/ End(s) \/ Learn(s)

Spec == Init /\ [][Next]_<<work, claim, known>>
=============================================================================
