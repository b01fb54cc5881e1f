------------------------------- MODULE MCFamily -------------------------------
(* The family registry for TLC.  Keys, values and requests are alike, and  *)
(* the instance configures every key.                                      *)
EXTENDS FamilyRegistry, TLC

Symmetry == Permutations(Keys) \cup Permutations(Values) \cup Permutations(Clients)

===============================================================================
