---------------------------- MODULE MCUserVerify ----------------------------
(* The instance of UserVerify for TLC: two names that the collation takes    *)
(* for the same, and one that is not plain, as is one of the passwords.      *)
EXTENDS UserVerify

Symmetry == Permutations(Worker)

Names == {"ann", "ANN", "quoted"}
Passwords == {"x", "quoted"}
PlainNames == {"ann", "ANN"}
PlainPasswords == {"x"}
Collation == [n \in Names |-> IF n = "ANN" THEN "ann" ELSE n]
=============================================================================
