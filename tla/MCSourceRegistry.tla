---- MODULE MCSourceRegistry ----
(***************************************************************************)
(* Instances of SourceRegistry for TLC.                                    *)
(***************************************************************************)
EXTENDS SourceRegistry, TLC

CONSTANTS s1, b1, b2, r1, r2, k1, e1, e2
====
