---------------------------- MODULE MCLvmKvPool ----------------------------
(* LvmKvPool on small pools.                                               *)
EXTENDS LvmKvPool, TLC

CONSTANTS r1, r2, b1, b2, s1, s2, s3

MCRids == {r1, r2}
MCReqSlots == {b1, b2}
MCKvSlots == {s1, s2, s3}

Symmetry == Permutations(MCRids) \cup Permutations(MCReqSlots)
              \cup Permutations(MCKvSlots)
=============================================================================
