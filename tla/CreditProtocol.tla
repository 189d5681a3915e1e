---------------------------- MODULE CreditProtocol ----------------------------
(***************************************************************************)
(* CreditAggregator.sol over the two contracts it calls: a credit locks    *)
(* collateral, a repayment releases it and a liquidation hands it out, and *)
(* both report to the scoring oracle, all in one transaction.              *)
(***************************************************************************)
EXTENDS CollateralManager, CreditScoringOracle, FiniteSets

CONSTANTS
    CreditIds,     \* the ids that _creditIdCounter yields, 1..N
    Deposits,      \* amounts that users deposit and withdraw
    Locks,         \* collateral amounts that requests offer
    Principals, Durations, Prices, MinimumScore,
    MaxHeld        \* bound on the tokens in the contract and of a user

VARIABLE creditPositions

vars == <<userCollateral, held, supportedCollateral, price, creditHistory, userFirstBorrowTime,
          userTotalCreditLimit, creditPositions, paused, now>>

ASSUME ProtocolAssumption ==
    /\ IsFiniteSet(Users) /\ IsFiniteSet(CreditIds) /\ CreditIds = 1..Cardinality(CreditIds)
    /\ Deposits \subseteq Nat /\ Locks \subseteq Nat /\ MinimumScore \in Nat
    /\ Principals \subseteq Nat \ {0} /\ Durations \subseteq Nat \ {0} /\ Prices \subseteq Nat

Position == [borrower : Users, principal : Nat, interestRate : Nat, collateralAmount : Nat,
             collateralToken : Tokens, startTime : Nat, duration : Nat,
             status : {"Active", "Repaid", "Liquidated"}]
NoPosition == [status |-> "none"]

-----------------------------------------------------------------------------
InterestRate(score) == 500 + (IF score > 700 THEN 0 ELSE (700 - score) * 10)

TotalOwed(c) ==
    LET p == creditPositions[c]
    IN  p.principal
        + (p.principal * p.interestRate * (now - p.startTime) * DaysPerTick) \div (365 * 10000)

\* Faulty variant: a credit is overdue on its last day.
OverdueOnTime(c) == now >= creditPositions[c].startTime + creditPositions[c].duration

Overdue(c) == now > creditPositions[c].startTime + creditPositions[c].duration

\* The ratio sets all of the borrower's collateral against this credit alone.
Liquidatable(c) ==
    \/ Overdue(c)
    \/ (getCollateralValue(creditPositions[c].borrower) * 10000) \div TotalOwed(c) < 12000

Init ==
    /\ userCollateral = [u \in Users |-> [t \in Tokens |-> [amount |-> 0, lockedAmount |-> 0]]]
    /\ held = [t \in Tokens |-> 0]
    /\ supportedCollateral = {}
    /\ price \in [Tokens -> Prices]
    /\ BaseInit
    /\ OracleInit
    /\ creditPositions = [c \in CreditIds |-> NoPosition]

\* The collateral asked for is the borrower's choice, zero included.
requestCredit(c, u, principal, t, collateral, duration) ==
    /\ ~paused["aggregator"]
    /\ creditPositions[c] = NoPosition
    /\ \A d \in CreditIds : d < c => creditPositions[d] # NoPosition
    /\ calculateCreditScore(u) >= MinimumScore
    /\ lockCollateral(u, t, collateral)
    /\ creditPositions' = [creditPositions EXCEPT ![c] =
           [borrower         |-> u,
            principal        |-> principal,
            interestRate     |-> InterestRate(calculateCreditScore(u)),
            collateralAmount |-> collateral,
            collateralToken  |-> t,
            startTime        |-> now,
            duration         |-> duration,
            status           |-> "Active"]]
    /\ UNCHANGED oracleVars

\* Any payment of at least the debt, however late, is reported as on time.
repayCredit(c, value) ==
    LET p == creditPositions[c]
    IN  /\ p.status = "Active"
        /\ value >= TotalOwed(c)
        /\ creditPositions' = [creditPositions EXCEPT ![c].status = "Repaid"]
        /\ releaseCollateral(p.borrower, p.collateralToken, p.collateralAmount)
        /\ updateCreditMetrics(p.borrower, "OnTimePayment", value)

\* Faulty variant: the status check is missing.
liquidateAgain(c) ==
    LET p == creditPositions[c]
    IN  /\ p.status # "none"
        /\ Liquidatable(c)
        /\ creditPositions' = [creditPositions EXCEPT ![c].status = "Liquidated"]
        /\ liquidateCollateral(p.borrower, p.collateralToken, p.collateralAmount)
        /\ updateCreditMetrics(p.borrower, "Default", p.principal)

\* Anyone may liquidate, and gets the collateral.
liquidate(c) ==
    LET p == creditPositions[c]
    IN  /\ p.status = "Active"
        /\ Liquidatable(c)
        /\ creditPositions' = [creditPositions EXCEPT ![c].status = "Liquidated"]
        /\ liquidateCollateral(p.borrower, p.collateralToken, p.collateralAmount)
        /\ updateCreditMetrics(p.borrower, "Default", p.principal)

-----------------------------------------------------------------------------
\* The users, the clock, the price feed and the owner's list of tokens.
ManagerStep ==
    /\ \/ \E u \in Users, t \in Tokens, a \in Deposits :
             \/ depositCollateral(u, t, a) /\ held'[t] <= MaxHeld /\ info(u, t)'.amount <= MaxHeld
             \/ withdrawCollateral(u, t, a)
       \/ \E t \in Tokens : addSupportedCollateral(t) \/ removeSupportedCollateral(t)
       \/ \E t \in Tokens, p \in Prices : SetPrice(t, p)
    /\ UNCHANGED <<creditPositions, oracleVars>>

CreditStep ==
    \/ \E c \in CreditIds, u \in Users, principal \in Principals, t \in Tokens,
          collateral \in Locks, duration \in Durations :
          requestCredit(c, u, principal, t, collateral, duration)
    \/ \E c \in CreditIds :
          /\ creditPositions[c] # NoPosition
          /\ \/ repayCredit(c, TotalOwed(c))
             \/ liquidate(c)

PassTime == Tick /\ UNCHANGED <<managerVars, oracleVars, creditPositions>>

Next == ManagerStep \/ CreditStep \/ PassTime

\* The owner's switches and hands on the funds, and swaps.
OwnerStep ==
    \/ \E t \in Tokens, a \in Deposits :
          emergencyWithdraw(t, a) /\ UNCHANGED <<creditPositions, oracleVars>>
    \/ \E u \in Users, t1, t2 \in Tokens, a \in Deposits :
          /\ swapCollateral(u, t1, t2, a) /\ info(u, t2)'.amount <= MaxHeld
          /\ UNCHANGED <<creditPositions, oracleVars>>
    \/ \E k \in Contracts, p \in BOOLEAN :
          SetPaused(k, p) /\ UNCHANGED <<managerVars, oracleVars, creditPositions>>

Spec == Init /\ [][Next]_vars
OwnerSpec == Init /\ [][Next \/ OwnerStep]_vars
-----------------------------------------------------------------------------
TypeOK ==
    /\ BaseTypeOK
    /\ ManagerTypeOK
    /\ OracleTypeOK
    /\ creditPositions \in [CreditIds -> Position \union {NoPosition}]

Active(u, t) == {c \in CreditIds : /\ creditPositions[c].status = "Active"
                                   /\ creditPositions[c].borrower = u
                                   /\ creditPositions[c].collateralToken = t}

\* Across the two contracts: what the manager has locked of a user's token is
\* exactly the collateral of the user's active credits in it.
LockedBacksActiveCredits ==
    \A u \in Users, t \in Tokens :
        info(u, t).lockedAmount =
            SumFunction([c \in Active(u, t) |-> creditPositions[c].collateralAmount])

\* Without swaps and emergency withdrawals the contract holds exactly what its
\* users have deposited and not yet withdrawn or lost to a liquidator.
ManagerIsSolvent ==
    \A t \in Tokens : held[t] = SumFunction([u \in Users |-> info(u, t).amount])

\* The oracle's history tells what became of the user's credits: one payment on
\* time per repaid credit, one default per liquidated credit.
HistoryMatchesCredits ==
    \A u \in Users :
        LET Settled(status) == Cardinality({c \in CreditIds :
                /\ creditPositions[c].status = status
                /\ creditPositions[c].borrower = u})
        IN  /\ creditHistory[u].onTimePayments = Settled("Repaid")
            /\ creditHistory[u].defaultCount = Settled("Liquidated")

\* A settled credit is settled for good, and a credit is liquidated before its
\* term is over only when the borrower's collateral is worth less than 120% of it.
CreditsSettleOnce ==
    [][\A c \in CreditIds :
        creditPositions'[c] # creditPositions[c] =>
            /\ creditPositions[c].status \in {"none", "Active"}
            /\ creditPositions'[c].status = "Liquidated" =>
                  \/ now > creditPositions[c].startTime + creditPositions[c].duration
                  \/ 10 * getCollateralValue(creditPositions[c].borrower) < 12 * TotalOwed(c)]_vars

\* Whoever swaps never has more value than before, at the prices of the swap.
SwapsGainNothing ==
    [][\A u \in Users :
        UNCHANGED <<held, price>> => getCollateralValue(u)' <= getCollateralValue(u)
                                     \/ supportedCollateral' # supportedCollateral]_vars
=============================================================================
