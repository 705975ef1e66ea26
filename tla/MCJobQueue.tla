---- MODULE MCJobQueue ----
(***************************************************************************)
(* Instances of JobQueue for TLC.                                          *)
(***************************************************************************)
EXTENDS JobQueue, TLC

CONSTANTS w1, w2, a1, a2, b1, j1, j2

MCOneSlotEach == (a1 :> w1) @@ (b1 :> w2)
MCPools == {"default"}
MCTwoPools == {"default", "gpu"}
MCPoolOf == [w \in Workers |-> "default"]
MCSplitPools == (w1 :> "default") @@ (w2 :> "gpu")
MCAllCapable == [w \in Workers |-> Jobs]
MCKindOne == (j1 :> "execute")
MCKindRecurring == (j1 :> "tick") @@ (j2 :> "poll_tick")
====
