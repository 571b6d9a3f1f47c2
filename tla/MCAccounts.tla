----------------------------- MODULE MCAccounts -----------------------------
(* TLC instance of Accounts: one GitHub account, which may go by a name of *)
(* the allow-list or by the one direct logins ask for.                     *)
EXTENDS Accounts, TLC

MCSymmetry == Permutations(Reqs)
=============================================================================
