------------------------------ MODULE MCApiKeys ------------------------------
(* ApiKeys with keys and calls as interchangeable model values.            *)
EXTENDS ApiKeys, TLC

MCSymmetry == Permutations(Key) \cup Permutations(Call)
==============================================================================
