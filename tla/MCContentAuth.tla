---------------------------- MODULE MCContentAuth ----------------------------
EXTENDS ContentAuth, TLC

CONSTANTS t1, t2, n1, o1, o2, d1

\* A tenant's id is also the name of its legacy namespace.
MCNamespace == {t1, t2, n1}

\* Operation ids are only compared for equality.
Symmetry == Permutations({o1, o2})
=============================================================================
