--------------------------- MODULE MCDaliugeRemote ---------------------------
EXTENDS DaliugeRemote, TLC

CONSTANTS p1, p2

PollersSymmetry == Permutations(Pollers)

\* An application starts the graph; what it writes is on another node.
Pipeline ==
    [ingest |-> [on |-> "n1", kind |-> "app",  inputs |-> {}, outputs |-> {"image"}],
     image  |-> [on |-> "n2", kind |-> "data", inputs |-> {"ingest"}, outputs |-> {}]]
=============================================================================
