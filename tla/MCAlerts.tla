---- MODULE MCAlerts ----
(***************************************************************************)
(* Instances of Alerts for TLC: a scheduled rule, a digest with a window   *)
(* longer than its cooldown, and an immediate rule, over a channel that    *)
(* works and one that refuses and may be slow or silent.                   *)
(***************************************************************************)
EXTENDS Alerts

CONSTANTS good, bad, w1, w2, e1

MCKinds == <<"pending_backlog", "daily_summary", "execution_terminal">>
MCCooldown == <<1, 0, 1>>

\* Either operators are done and both workers serve, or one is stopped.
MCInit ==
    /\ Init
    /\ work[w1] = Idle
    /\ edits = MaxEdits <=> work[w2] = Idle

MCSpec == MCInit /\ [][Next]_vars /\ Fairness
====
