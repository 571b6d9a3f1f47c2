---------------------------- MODULE MCBulkImport ----------------------------
(* Names and rows for the TLC instances of ImportRows and ImportHistory. *)
EXTENDS BulkImport, TLC

CONSTANTS a, b

Good(n) == [name |-> n, gender |-> "good", age |-> "good", country |-> "good",
            gp |-> "empty", cp |-> "good"]

MCNames == {a, b}

(* Two names to fight over. *)
MCGoodRows == {Good(a), Good(b)}

(* And a row that cannot be stored, and an invalid one. *)
MCRows == MCGoodRows \cup {[Good(b) EXCEPT !.cp = "nan"], [Good(a) EXCEPT !.gp = "bad"]}

MCSymmetry == Permutations(Uploads)
=============================================================================
