----------------------------- MODULE MCFdsPipeline -----------------------------
(* FdsPipeline on a small instance. The sessions, transactions and clock   *)
(* readings are interchangeable, so TLC may treat them as symmetric.       *)
EXTENDS FdsPipeline, TLC

Symmetry == Permutations(RestSession) \union Permutations(Tx) \union Permutations(Stamp)

(* The user already has a profile row.                                     *)
InitProfile == Init /\ profile # None
================================================================================
