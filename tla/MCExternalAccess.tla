------------------------- MODULE MCExternalAccess -------------------------
EXTENDS ExternalAccess, TLC

CONSTANT t1

OneTarget == [g \in Grant |-> t1]

Interchangeable == Permutations(Visit) \cup Permutations(Grant)
=============================================================================
