-------------------------- MODULE CreditScoringOracle --------------------------
(***************************************************************************)
(* CreditScoringOracle.sol: the credit history of each borrower and the    *)
(* score computed from it.                                                 *)
(***************************************************************************)
EXTENDS ContractBase

CONSTANTS
    Values,       \* amounts that updates report
    Limits,       \* credit limits that updaters set
    Scores,       \* scores the owner gives to initializeUser and emergencyResetScore
    MixFull       \* the 100,000 tokens that earn the whole credit mix weight

VARIABLES
    creditHistory,        \* CreditData per user
    userFirstBorrowTime,  \* 0 until the first update
    userTotalCreditLimit

oracleVars == <<creditHistory, userFirstBorrowTime, userTotalCreditLimit>>

ASSUME OracleAssumption ==
    /\ Values \subseteq Nat /\ Limits \subseteq Nat /\ Scores \subseteq Nat
    /\ MixFull \in Nat \ {0}

MAX_SCORE == 1000
MIN_SCORE == 100
INITIAL_SCORE == 500
PAYMENT_HISTORY_WEIGHT == 4000
UTILIZATION_WEIGHT == 3000
HISTORY_LENGTH_WEIGHT == 1500
CREDIT_MIX_WEIGHT == 1000
DEFAULT_PENALTY_WEIGHT == 500

\* "known" stands for lastUpdateBlock # 0.
CreditData == [score : Nat, totalBorrowed : Nat, totalRepaid : Nat, defaultCount : Nat,
               onTimePayments : Nat, utilizationRate : Nat, known : BOOLEAN]
UpdateTypes == {"OnTimePayment", "LatePayment", "Default", "NewBorrow", "Repayment"}

NewHistory == [score |-> 0, totalBorrowed |-> 0, totalRepaid |-> 0, defaultCount |-> 0,
               onTimePayments |-> 0, utilizationRate |-> 0, known |-> FALSE]

\* Faulty variant: the shares of on time payments and of defaults swapped.
PaymentHistoryScoreSwapped(data) ==
    IF data.onTimePayments + data.defaultCount = 0
    THEN (INITIAL_SCORE * PAYMENT_HISTORY_WEIGHT) \div 10000
    ELSE (((data.defaultCount * 100) \div (data.onTimePayments + data.defaultCount))
             * PAYMENT_HISTORY_WEIGHT) \div 100

-----------------------------------------------------------------------------
\* calculateCreditScore and its parts, in unsigned integer arithmetic.
PaymentHistoryScore(data) ==
    IF data.onTimePayments + data.defaultCount = 0
    THEN (INITIAL_SCORE * PAYMENT_HISTORY_WEIGHT) \div 10000
    ELSE (((data.onTimePayments * 100) \div (data.onTimePayments + data.defaultCount))
             * PAYMENT_HISTORY_WEIGHT) \div 100

UtilizationScore(data) ==
    CASE data.utilizationRate <= 30 -> UTILIZATION_WEIGHT
      [] data.utilizationRate > 30 /\ data.utilizationRate <= 70 ->
            UTILIZATION_WEIGHT - ((data.utilizationRate - 30) * UTILIZATION_WEIGHT) \div 40
      [] OTHER -> 0

HistoryLengthScore(firstBorrow, time) ==
    LET months == ((time - firstBorrow) * DaysPerTick) \div 30
    IN  IF firstBorrow = 0 THEN 0
        ELSE IF months > 24 THEN HISTORY_LENGTH_WEIGHT
        ELSE (months * HISTORY_LENGTH_WEIGHT) \div 24

CreditMixScore(data) ==
    IF data.totalBorrowed > MixFull THEN CREDIT_MIX_WEIGHT
    ELSE (data.totalBorrowed * CREDIT_MIX_WEIGHT) \div MixFull

ApplyDefaultPenalty(data, score) ==
    LET penalty == data.defaultCount * (DEFAULT_PENALTY_WEIGHT \div 10)
    IN  IF data.defaultCount = 0 THEN score
        ELSE IF score > penalty THEN score - penalty ELSE MIN_SCORE

Clamp(score) ==
    IF score > MAX_SCORE THEN MAX_SCORE ELSE IF score < MIN_SCORE THEN MIN_SCORE ELSE score

ScoreOf(data, firstBorrow, time) ==
    IF ~data.known THEN INITIAL_SCORE
    ELSE Clamp(ApplyDefaultPenalty(data,
             PaymentHistoryScore(data) + UtilizationScore(data)
             + HistoryLengthScore(firstBorrow, time) + CreditMixScore(data)))

calculateCreditScore(u) == ScoreOf(creditHistory[u], userFirstBorrowTime[u], now)

-----------------------------------------------------------------------------
\* Faulty variant: the subtraction is unchecked.
UtilizationUnchecked(data, limit) == FALSE

\* _updateUtilizationRate: totalBorrowed - totalRepaid reverts on underflow,
\* unless no limit is set.
UtilizationReverts(data, limit) == limit # 0 /\ data.totalRepaid > data.totalBorrowed
WithUtilization(data, limit) ==
    [data EXCEPT !.utilizationRate =
        IF limit = 0 THEN 0
        ELSE ((data.totalBorrowed - data.totalRepaid) * 100) \div limit]

\* What an update changes in the history.  The points that _increaseScore and
\* _decreaseScore add or take are overwritten by the recalculation below.
Recorded(data, type, value) ==
    CASE type = "OnTimePayment" ->
            [data EXCEPT !.onTimePayments = @ + 1, !.totalRepaid = @ + value]
      [] type \in {"LatePayment", "Repayment"} -> [data EXCEPT !.totalRepaid = @ + value]
      [] type = "Default" -> [data EXCEPT !.defaultCount = @ + 1]
      [] type = "NewBorrow" -> [data EXCEPT !.totalBorrowed = @ + value]

updateCreditMetrics(u, type, value) ==
    LET recorded == [Recorded(creditHistory[u], type, value) EXCEPT !.known = TRUE]
        utilized == type \in {"NewBorrow", "Repayment"}
        data == IF utilized THEN WithUtilization(recorded, userTotalCreditLimit[u])
                            ELSE recorded
        first == IF creditHistory[u].known THEN userFirstBorrowTime[u] ELSE now
    IN  /\ ~paused["oracle"]
        /\ ~(utilized /\ UtilizationReverts(recorded, userTotalCreditLimit[u]))
        /\ userFirstBorrowTime' = [userFirstBorrowTime EXCEPT ![u] = first]
        /\ creditHistory' = [creditHistory EXCEPT ![u] =
                                [data EXCEPT !.score = ScoreOf(data, first, now)]]
        /\ UNCHANGED <<userTotalCreditLimit, baseVars>>

setCreditLimit(u, limit) ==
    /\ userTotalCreditLimit' = [userTotalCreditLimit EXCEPT ![u] = limit]
    /\ UNCHANGED <<creditHistory, userFirstBorrowTime, baseVars>>

\* One user of the batch: for an unknown user the initial score is stored.
batchUpdateScores(u) ==
    /\ creditHistory' = [creditHistory EXCEPT ![u].score = calculateCreditScore(u)]
    /\ UNCHANGED <<userFirstBorrowTime, userTotalCreditLimit, baseVars>>

\* The owner's import of a history: the score is stored as given.
initializeUser(u, score, borrowed, repaid, onTime, defaults) ==
    /\ ~creditHistory[u].known
    /\ creditHistory' = [creditHistory EXCEPT ![u] =
           [score |-> score, totalBorrowed |-> borrowed, totalRepaid |-> repaid,
            defaultCount |-> defaults, onTimePayments |-> onTime,
            utilizationRate |-> 0, known |-> TRUE]]
    /\ userFirstBorrowTime' = [userFirstBorrowTime EXCEPT ![u] = now]
    /\ UNCHANGED <<userTotalCreditLimit, baseVars>>

emergencyResetScore(u, score) ==
    /\ score >= MIN_SCORE /\ score <= MAX_SCORE
    /\ creditHistory' = [creditHistory EXCEPT ![u].score = score]
    /\ UNCHANGED <<userFirstBorrowTime, userTotalCreditLimit, baseVars>>

-----------------------------------------------------------------------------
OracleInit ==
    /\ creditHistory = [u \in Users |-> NewHistory]
    /\ userFirstBorrowTime = [u \in Users |-> 0]
    /\ userTotalCreditLimit = [u \in Users |-> 0]

OracleTypeOK ==
    /\ creditHistory \in [Users -> CreditData]
    /\ userFirstBorrowTime \in [Users -> Nat]
    /\ userTotalCreditLimit \in [Users -> Nat]
=============================================================================
