--------------------------- MODULE CollateralManager ---------------------------
(***************************************************************************)
(* CollateralManager.sol: what each user has deposited of each token, how  *)
(* much of it is locked behind credits, and the tokens the contract holds. *)
(* Amounts count whole tokens.                                             *)
(***************************************************************************)
EXTENDS ContractBase, FiniteSetsExt

CONSTANT Tokens

VARIABLES
    userCollateral,       \* [amount, lockedAmount] per user and token
    held,                 \* the contract's own balance of each token
    supportedCollateral,
    price                 \* what the price feed answers, per whole token

managerVars == <<userCollateral, held, supportedCollateral, price>>

BASIS_POINTS == 10000
LIQUIDATION_BONUS == 500

Info == [amount : Nat, lockedAmount : Nat]
info(u, t) == userCollateral[u][t]

\* amount - lockedAmount, which reverts when more is locked than is there.
Available(u, t) == info(u, t).amount - info(u, t).lockedAmount

getCollateralValue(u) ==
    SumFunction([t \in supportedCollateral |-> info(u, t).amount * price[t]])

-----------------------------------------------------------------------------
depositCollateral(u, t, a) ==
    /\ ~paused["manager"]
    /\ t \in supportedCollateral
    /\ a > 0
    /\ userCollateral' = [userCollateral EXCEPT ![u][t].amount = @ + a]
    /\ held' = [held EXCEPT ![t] = @ + a]
    /\ UNCHANGED <<supportedCollateral, price, baseVars>>

withdrawCollateral(u, t, a) ==
    /\ ~paused["manager"]
    /\ info(u, t).amount >= a
    /\ Available(u, t) >= 0 /\ Available(u, t) >= a
    /\ held[t] >= a
    /\ userCollateral' = [userCollateral EXCEPT ![u][t].amount = @ - a]
    /\ held' = [held EXCEPT ![t] = @ - a]
    /\ UNCHANGED <<supportedCollateral, price, baseVars>>

\* The three operations for authorised contracts and the owner look neither at
\* the pause nor at the list of supported tokens.
lockCollateral(u, t, a) ==
    /\ info(u, t).amount >= info(u, t).lockedAmount + a
    /\ userCollateral' = [userCollateral EXCEPT ![u][t].lockedAmount = @ + a]
    /\ UNCHANGED <<held, supportedCollateral, price, baseVars>>

\* Faulty variant: the tokens stay locked.
releaseNothing(u, t, a) ==
    /\ info(u, t).lockedAmount >= a
    /\ UNCHANGED <<managerVars, baseVars>>

releaseCollateral(u, t, a) ==
    /\ info(u, t).lockedAmount >= a
    /\ userCollateral' = [userCollateral EXCEPT ![u][t].lockedAmount = @ - a]
    /\ UNCHANGED <<held, supportedCollateral, price, baseVars>>

\* The liquidator gets the amount and a bonus of at most what is left, locked
\* behind another credit or not.
Bonus(u, t, a) == Min({(a * LIQUIDATION_BONUS) \div BASIS_POINTS, info(u, t).amount - a})

\* Faulty variant: the bonus is paid out but not taken from the borrower.
liquidateForFree(u, t, a) ==
    /\ info(u, t).lockedAmount >= a
    /\ info(u, t).amount >= a
    /\ held[t] >= a + Bonus(u, t, a)
    /\ userCollateral' = [userCollateral EXCEPT
           ![u][t].amount = @ - a, ![u][t].lockedAmount = @ - a]
    /\ held' = [held EXCEPT ![t] = @ - (a + Bonus(u, t, a))]
    /\ UNCHANGED <<supportedCollateral, price, baseVars>>

liquidateCollateral(u, t, a) ==
    /\ info(u, t).lockedAmount >= a
    /\ info(u, t).amount >= a
    /\ held[t] >= a + Bonus(u, t, a)
    /\ userCollateral' = [userCollateral EXCEPT
           ![u][t].amount = @ - (a + Bonus(u, t, a)), ![u][t].lockedAmount = @ - a]
    /\ held' = [held EXCEPT ![t] = @ - (a + Bonus(u, t, a))]
    /\ UNCHANGED <<supportedCollateral, price, baseVars>>

\* Faulty variant: the prices the wrong way round.
SwapOutInverted(from, to, a) == (((a * price[to]) \div price[from]) * 9970) \div BASIS_POINTS

\* _executeSwap only computes an amount from the prices: no token moves.
SwapOut(from, to, a) == (((a * price[from]) \div price[to]) * 9970) \div BASIS_POINTS

swapCollateral(u, from, to, a) ==
    /\ ~paused["manager"]
    /\ {from, to} \subseteq supportedCollateral
    /\ Available(u, from) >= 0 /\ Available(u, from) >= a
    /\ price[to] > 0
    /\ userCollateral' = [[userCollateral EXCEPT ![u][from].amount = @ - a]
                              EXCEPT ![u][to].amount = @ + SwapOut(from, to, a)]
    /\ UNCHANGED <<held, supportedCollateral, price, baseVars>>

addSupportedCollateral(t) ==
    /\ t \notin supportedCollateral
    /\ supportedCollateral' = supportedCollateral \union {t}
    /\ UNCHANGED <<userCollateral, held, price, baseVars>>

removeSupportedCollateral(t) ==
    /\ t \in supportedCollateral
    /\ supportedCollateral' = supportedCollateral \ {t}
    /\ UNCHANGED <<userCollateral, held, price, baseVars>>

emergencyWithdraw(t, a) ==
    /\ held[t] >= a
    /\ held' = [held EXCEPT ![t] = @ - a]
    /\ UNCHANGED <<userCollateral, supportedCollateral, price, baseVars>>

\* The external price feed moves.
SetPrice(t, p) ==
    /\ price[t] # p
    /\ price' = [price EXCEPT ![t] = p]
    /\ UNCHANGED <<userCollateral, held, supportedCollateral, baseVars>>

-----------------------------------------------------------------------------
ManagerTypeOK ==
    /\ userCollateral \in [Users -> [Tokens -> Info]]
    /\ held \in [Tokens -> Nat]
    /\ supportedCollateral \subseteq Tokens
    /\ price \in [Tokens -> Nat]
=============================================================================
