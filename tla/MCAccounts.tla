----------------------------- MODULE MCAccounts -----------------------------
(* Three accounts with every choice of roles; the password of account 1    *)
(* changes, whatever its role is.                                          *)
EXTENDS Accounts, TLC, ReportChecks

CONSTANTS t1, t2

FirstOnly == {1}
TxSymmetry == Permutations(Txs)
=============================================================================
