----------------------------- MODULE MCAccounts -----------------------------
EXTENDS Accounts, TLC
TabSymmetry == Permutations(Tabs)
=============================================================================
