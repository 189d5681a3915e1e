------------------------------- MODULE MCLedger -------------------------------
EXTENDS Ledger

\* The line lists are chosen for the checks they pass and fail: one that is off
\* by the tolerance, which is the most that is accepted, one that is off by more
\* on the credit side, and one that balances.
Cash == "1000"
CashOnly == {Cash}
TwoLines(debit, credit) == <<[code |-> Cash, debit |-> debit, credit |-> 0],
                             [code |-> Cash, debit |-> 0, credit |-> credit]>>
NearlyBalanced == {TwoLines(2, 1), TwoLines(1, 3)}
Exact == {TwoLines(2, 2)}

Symmetry == Permutations(EntryIds) \union Permutations(Users)
=============================================================================
