---- MODULE MCPreparation ----
(***************************************************************************)
(* Instances of Preparation for TLC: the second version of the archive has *)
(* the records of the first in another form, the third some more, the      *)
(* fourth none.                                                            *)
(***************************************************************************)
EXTENDS Preparation, TLC

CONSTANTS h1, h2

MCHandlers == {h1, h2}
One == {[group |-> "a", id |-> 1], [group |-> "b", id |-> 1]}
Two == One \cup {[group |-> "b", id |-> 2], [group |-> "other", id |-> 1]}
MCContent == <<One, One, Two, {}>>
MCSelected == {"a", "b"}
MCEnrichments == <<FALSE>>
MCSymmetry == Permutations(MCHandlers)
====
