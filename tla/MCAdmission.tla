------------------------------ MODULE MCAdmission ------------------------------
EXTENDS Admission

CONSTANTS c1, s1, k1, k2, p1

MCCallers == {c1, s1}
=============================================================================
