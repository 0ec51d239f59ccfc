----------------------------- MODULE MCOnboarding -----------------------------
(* Onboarding on a small instance. Requests, questions and codes are       *)
(* interchangeable.                                                        *)
EXTENDS Onboarding, TLC

Symmetry == Permutations(Request) \union Permutations(Question) \union Permutations(Code)
===============================================================================
