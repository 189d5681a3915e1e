-------------------------------- MODULE Scoring --------------------------------
(***************************************************************************)
(* Everything that scores a borrower, side by side: the oracle on chain,   *)
(* whose score grows out of a history of updates, and the services, which  *)
(* assess what they are told.  They have no state in common: a behaviour   *)
(* is one of the oracle's or a series of questions to the services.        *)
(*                                                                         *)
(* The oracle's authorised updaters report in any order and its owner      *)
(* administers it.  MaxUpdates bounds the exploration; "last" remembers    *)
(* the update that was made last.                                          *)
(***************************************************************************)
EXTENDS CreditScoringOracle, Assessments

CONSTANT MaxUpdates

VARIABLES updates, last

UpdatesVars == <<creditHistory, userFirstBorrowTime, userTotalCreditLimit, paused, now,
          updates, last>>

NoUpdate == [type |-> "none"]

UpdatesInit == BaseInit /\ OracleInit /\ updates = 0 /\ last = NoUpdate

\* Of an update: whether the user had a history, and by how much the update moved
\* the score that is computed from it.
Update(u, type, value) ==
    /\ updates < MaxUpdates
    /\ updateCreditMetrics(u, type, value)
    /\ updates' = updates + 1
    /\ last' = [type   |-> type,
                user   |-> u,
                known  |-> creditHistory[u].known,
                moved  |-> creditHistory'[u].score - calculateCreditScore(u)]

Administer(u) ==
    /\ updates < MaxUpdates
    /\ \/ \E limit \in Limits : setCreditLimit(u, limit)
       \/ batchUpdateScores(u)
       \/ \E score \in Scores : emergencyResetScore(u, score)
       \/ \E p \in BOOLEAN : SetPaused("oracle", p) /\ UNCHANGED oracleVars
    /\ updates' = updates + 1
    /\ last' = NoUpdate

Import(u) ==
    /\ updates < MaxUpdates
    /\ \E score \in Scores, borrowed, repaid \in Values, defaults, onTime \in {0, 1} :
          initializeUser(u, score, borrowed, repaid, onTime, defaults)
    /\ updates' = updates + 1
    /\ last' = NoUpdate

Wait == Tick /\ UNCHANGED <<oracleVars, updates>> /\ last' = NoUpdate

UpdatesNext ==
    \/ \E u \in Users, type \in UpdateTypes, value \in Values : Update(u, type, value)
    \/ \E u \in Users : Administer(u) \/ Import(u)
    \/ Wait

-----------------------------------------------------------------------------
ScoringTypeOK == BaseTypeOK /\ OracleTypeOK

\* Once a user has a history, a default never raises the score, a payment on
\* time never lowers it and a late payment leaves it, whatever the other weights
\* contribute and however the sum is clamped.
ScoreFollowsBehaviour ==
    last.type # "none" /\ last.known =>
        /\ last.type = "Default" => last.moved <= 0
        /\ last.type = "OnTimePayment" => last.moved >= 0
        /\ last.type = "LatePayment" => last.moved = 0

-----------------------------------------------------------------------------
\* The oracle beside the services.
OnChain == [of |-> "oracle"]
SmallBusinesses ==
    {[years |-> 1, revenue |-> 49999, employees |-> 0], [years |-> 3, revenue |-> 100000, employees |-> 5],
     [years |-> 5, revenue |-> 1000000, employees |-> 50]}
ScoringVars == <<UpdatesVars, question>>
ScoringInit == UpdatesInit /\ question \in {OnChain, Nobody}
ScoringNext ==
    \/ question = OnChain /\ UpdatesNext /\ UNCHANGED question
    \/ question # OnChain /\ AssessmentsNext /\ UNCHANGED UpdatesVars
ScoringSpec == ScoringInit /\ [][ScoringNext]_ScoringVars
=============================================================================
