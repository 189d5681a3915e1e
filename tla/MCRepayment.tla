---------------------------- MODULE MCRepayment ----------------------------
EXTENDS Repayment, TLC

\* Transactions, installments and auto debits are interchangeable ids.
Symmetry == Permutations(Txns) \union Permutations(Installments)
                \union Permutations(AutoDebits)
=============================================================================
