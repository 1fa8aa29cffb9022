---------------------------- MODULE TxManagerMC ----------------------------
EXTENDS TxRefinement, TLC

\* Transactions of the user are alike: nothing orders them.
UserSymmetry == Permutations(UserTxs)
=============================================================================
