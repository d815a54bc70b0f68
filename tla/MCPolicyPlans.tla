--------------------------- MODULE MCPolicyPlans ---------------------------
(* Small instances of PolicyPlans: two files, requests for one and for both. *)
EXTENDS PolicyPlansStore, TLC

CONSTANTS t1, t2

ProcSymmetry == Permutations(Procs)
BothFiles == {<<t1, t2>>}
=============================================================================
