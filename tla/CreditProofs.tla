------------------------------ MODULE CreditProofs ------------------------------
(***************************************************************************)
(* The credit contracts, for any number of users, tokens and credits: what *)
(* is locked backs the active credits, the manager holds what it has       *)
(* booked, a settled credit stays settled, a swap gains nothing, the       *)
(* oracle's counters tell what became of the credits, and the score it     *)
(* makes of them moves with the borrower's behaviour, for any histories,   *)
(* values, weights of the credit mix and times.  Then the engines of the   *)
(* services: a better applicant is treated no worse, a compliant one is    *)
(* documented.                                                             *)
(***************************************************************************)
EXTENDS CreditProtocol, Scoring, Sums

-----------------------------------------------------------------------------
\* The score.

\* The share of payments on time, in percent, of o payments and d defaults.
Share(o, d) == (o * 100) \div (o + d)

LEMMA ShareFacts ==
    ASSUME NEW o \in Nat, NEW d \in Nat, o + d > 0
    PROVE  Share(o, d) \in 0 .. 100 /\ (o + d) * Share(o, d) <= o * 100
<1> DEFINE q == Share(o, d)
<1>1. q \in Nat /\ (o + d) * q <= o * 100
  <2>1. o * 100 \in Nat /\ o + d \in Nat
    OBVIOUS
  <2> QED BY <2>1, DivFacts DEF Share
<1> HIDE DEF q
<1>2. q <= 100
  <2> SUFFICES ASSUME q >= 101 PROVE FALSE
    BY <1>1
  <2>1. PICK k \in Nat : q = 101 + k
    <3>1. q - 101 \in Nat
      BY <1>1
    <3> QED BY <1>1, <3>1
  <2>2. (o + d) * q = 101 * (o + d) + (o + d) * k /\ (o + d) * k >= 0
    BY <2>1
  <2> QED BY <1>1, <2>2
<1> QED BY <1>1, <1>2 DEF q

\* One more payment on time never lowers it, one more default never raises it.
LEMMA ShareMoves ==
    ASSUME NEW o \in Nat, NEW d \in Nat, o + d > 0
    PROVE  Share(o + 1, d) >= Share(o, d) /\ Share(o, d + 1) <= Share(o, d)
<1> DEFINE q == Share(o, d)
           p == Share(o, d + 1)
<1>1. q \in 0 .. 100 /\ (o + d) * q <= o * 100
  BY ShareFacts
<1>2. p \in 0 .. 100 /\ (o + (d + 1)) * p <= o * 100
  <2>1. PICK e \in Nat : e = d + 1
    OBVIOUS
  <2>2. o + e > 0
    BY <2>1
  <2>3. Share(o, e) \in 0 .. 100 /\ (o + e) * Share(o, e) <= o * 100
    BY <2>2, ShareFacts
  <2> QED BY <2>1, <2>3
<1> HIDE DEF q, p
<1>3. (o + 1 + d) * q <= (o + 1) * 100
  <2>1. (o + 1 + d) * q = (o + d) * q + q
    BY <1>1
  <2> QED BY <1>1, <2>1
<1>4. q <= Share(o + 1, d)
  BY <1>1, <1>3, DivMax DEF Share
<1>5. (o + d) * p <= o * 100
  <2>1. (o + (d + 1)) * p = (o + d) * p + p
    BY <1>2
  <2>2. (o + d) * p \in Int
    BY <1>2
  <2> QED BY <1>2, <2>1, <2>2
<1>6. p <= Share(o, d)
  BY <1>2, <1>5, DivMax DEF Share
<1>7. Share(o + 1, d) \in Int /\ Share(o, d) \in Int
  <2>1. o + 1 \in Nat /\ (o + 1) + d > 0
    OBVIOUS
  <2>2. Share(o + 1, d) \in 0 .. 100
    BY <2>1, ShareFacts
  <2>3. Share(o, d) \in 0 .. 100
    BY ShareFacts
  <2> QED BY <2>2, <2>3
<1> QED BY <1>1, <1>2, <1>4, <1>6, <1>7 DEF q, p

-----------------------------------------------------------------------------
\* The parts of a score are numbers, and move with the history.

LEMMA PaymentHistoryFacts ==
    ASSUME NEW h \in CreditData
    PROVE  PaymentHistoryScore(h) \in Int
<1>1. h.onTimePayments \in Nat /\ h.defaultCount \in Nat
  BY DEF CreditData
<1>2. CASE h.onTimePayments + h.defaultCount = 0
  BY <1>2 DEF PaymentHistoryScore, INITIAL_SCORE, PAYMENT_HISTORY_WEIGHT
<1>3. CASE h.onTimePayments + h.defaultCount # 0
  <2> DEFINE q == Share(h.onTimePayments, h.defaultCount)
  <2>1. q \in 0 .. 100
    <3>1. h.onTimePayments + h.defaultCount > 0
      BY <1>1, <1>3
    <3> QED BY <1>1, <3>1, ShareFacts
  <2>2. PaymentHistoryScore(h) = (q * 4000) \div 100
    BY <1>3 DEF PaymentHistoryScore, PAYMENT_HISTORY_WEIGHT, Share
  <2> HIDE DEF q
  <2> QED BY <2>1, <2>2
<1> QED BY <1>2, <1>3

LEMMA PaymentHistoryMoves ==
    ASSUME NEW h \in CreditData, NEW n \in CreditData
    PROVE  /\ n.onTimePayments = h.onTimePayments + 1 /\ n.defaultCount = h.defaultCount
              => PaymentHistoryScore(n) >= PaymentHistoryScore(h)
           /\ n.onTimePayments = h.onTimePayments /\ n.defaultCount = h.defaultCount + 1
              => PaymentHistoryScore(n) <= PaymentHistoryScore(h)
<1> DEFINE o == h.onTimePayments
           d == h.defaultCount
<1>1. o \in Nat /\ d \in Nat
  BY DEF CreditData
<1>2. ASSUME NEW x \in CreditData, x.onTimePayments + x.defaultCount # 0
      PROVE  /\ PaymentHistoryScore(x) = (Share(x.onTimePayments, x.defaultCount) * 4000) \div 100
             /\ Share(x.onTimePayments, x.defaultCount) \in 0 .. 100
  <2>1. x.onTimePayments \in Nat /\ x.defaultCount \in Nat
    BY DEF CreditData
  <2>2. x.onTimePayments + x.defaultCount > 0
    BY <1>2, <2>1
  <2>3. Share(x.onTimePayments, x.defaultCount) \in 0 .. 100
    BY <2>1, <2>2, ShareFacts
  <2>4. PaymentHistoryScore(x) = (Share(x.onTimePayments, x.defaultCount) * 4000) \div 100
    BY <1>2 DEF PaymentHistoryScore, PAYMENT_HISTORY_WEIGHT, Share
  <2> QED BY <2>3, <2>4
<1>3. CASE o + d = 0
  <2>1. o = 0 /\ d = 0 /\ PaymentHistoryScore(h) = 200
    BY <1>1, <1>3 DEF PaymentHistoryScore, INITIAL_SCORE, PAYMENT_HISTORY_WEIGHT
  <2>2. Share(1, 0) = 100 /\ Share(0, 1) = 0
    BY DEF Share
  <2> QED BY <1>2, <2>1, <2>2
<1>4. CASE o + d # 0
  <2> DEFINE q == Share(o, d)
  <2>1. Share(o + 1, d) >= q /\ Share(o, d + 1) <= q
    BY <1>1, <1>4, ShareMoves
  <2>2. PaymentHistoryScore(h) = (q * 4000) \div 100 /\ q \in 0 .. 100
    BY <1>2, <1>4
  <2>3. ASSUME n.onTimePayments = o + 1, n.defaultCount = d PROVE PaymentHistoryScore(n) >= PaymentHistoryScore(h)
    <3>1. PaymentHistoryScore(n) = (Share(o + 1, d) * 4000) \div 100 /\ Share(o + 1, d) \in 0 .. 100
      BY <1>1, <1>2, <2>3
    <3> HIDE DEF q
    <3> QED BY <2>1, <2>2, <3>1
  <2>4. ASSUME n.onTimePayments = o, n.defaultCount = d + 1 PROVE PaymentHistoryScore(n) <= PaymentHistoryScore(h)
    <3>1. PaymentHistoryScore(n) = (Share(o, d + 1) * 4000) \div 100 /\ Share(o, d + 1) \in 0 .. 100
      BY <1>1, <1>2, <2>4
    <3> HIDE DEF q
    <3> QED BY <2>1, <2>2, <3>1
  <2> QED BY <2>3, <2>4
<1> QED BY <1>3, <1>4

\* What a history scores beyond its payments, and the times and amounts that this depends on.
Beyond(h, first, time) == UtilizationScore(h) + HistoryLengthScore(first, time) + CreditMixScore(h)

LEMMA BeyondFacts ==
    ASSUME NEW h \in CreditData, NEW first \in Nat, NEW time \in Nat
    PROVE  /\ UtilizationScore(h) \in Int /\ HistoryLengthScore(first, time) \in Int /\ CreditMixScore(h) \in Int
           /\ Beyond(h, first, time) \in Int
<1>1. h.utilizationRate \in Nat /\ h.totalBorrowed \in Nat
  BY DEF CreditData
<1>2. UtilizationScore(h) \in Int
  BY <1>1 DEF UtilizationScore, UTILIZATION_WEIGHT
<1>3. HistoryLengthScore(first, time) \in Int
  <2> DEFINE days == (time - first) * DaysPerTick
             months == days \div 30
  <2>1. days \in Int
    BY BaseAssumption
  <2>2. months \in Int
    <3> HIDE DEF days
    <3> QED BY <2>1
  <2>3. HistoryLengthScore(first, time) = IF first = 0 THEN 0 ELSE IF months > 24 THEN 1500 ELSE (months * 1500) \div 24
    BY DEF HistoryLengthScore, HISTORY_LENGTH_WEIGHT
  <2> HIDE DEF months
  <2> QED BY <2>2, <2>3
<1>4. CreditMixScore(h) \in Int
  <2>1. h.totalBorrowed * 1000 \in Nat /\ MixFull \in Nat /\ MixFull > 0
    BY <1>1, OracleAssumption
  <2>2. (h.totalBorrowed * 1000) \div MixFull \in Nat
    BY <2>1, DivFacts
  <2> QED BY <2>2 DEF CreditMixScore, CREDIT_MIX_WEIGHT
<1> QED BY <1>2, <1>3, <1>4 DEF Beyond

LEMMA ScoreFacts ==
    ASSUME NEW h \in CreditData, NEW first \in Nat, NEW time \in Nat
    PROVE  /\ ScoreOf(h, first, time) \in Nat
           /\ h.known => ScoreOf(h, first, time)
                         = Clamp(ApplyDefaultPenalty(h, PaymentHistoryScore(h) + Beyond(h, first, time)))
<1> DEFINE sum == PaymentHistoryScore(h) + Beyond(h, first, time)
<1>1. /\ PaymentHistoryScore(h) \in Int /\ UtilizationScore(h) \in Int
      /\ HistoryLengthScore(first, time) \in Int /\ CreditMixScore(h) \in Int
  BY PaymentHistoryFacts, BeyondFacts
<1>2. h.defaultCount \in Nat
  BY DEF CreditData
<1>3. /\ sum \in Int
      /\ PaymentHistoryScore(h) + UtilizationScore(h) + HistoryLengthScore(first, time) + CreditMixScore(h) = sum
  BY <1>1 DEF Beyond
<1> HIDE DEF sum
<1>4. Clamp(ApplyDefaultPenalty(h, sum)) \in Nat
  BY <1>2, <1>3 DEF Clamp, ApplyDefaultPenalty, MAX_SCORE, MIN_SCORE, DEFAULT_PENALTY_WEIGHT
<1>5. h.known => ScoreOf(h, first, time) = Clamp(ApplyDefaultPenalty(h, sum))
  BY <1>3, Zenon DEF ScoreOf
<1>6. ~h.known => ScoreOf(h, first, time) = 500
  BY DEF ScoreOf, INITIAL_SCORE
<1> QED BY <1>4, <1>5, <1>6 DEF sum

-----------------------------------------------------------------------------
\* What an update makes of a history: the counts of its type, and all that the score is made of.

Moves(h, n, onTime, defaults) ==
    /\ n.onTimePayments = h.onTimePayments + onTime /\ n.defaultCount = h.defaultCount + defaults
    /\ n.totalBorrowed = h.totalBorrowed /\ n.utilizationRate = h.utilizationRate /\ n.known

\* A default costs more than it did before, and no less when there was less to lose.
LEMMA PenaltyMoves ==
    ASSUME NEW h \in CreditData, NEW n \in CreditData, NEW a \in Int, NEW b \in Int
    PROVE  /\ n.defaultCount = h.defaultCount /\ a <= b
              => Clamp(ApplyDefaultPenalty(h, a)) <= Clamp(ApplyDefaultPenalty(n, b))
           /\ n.defaultCount = h.defaultCount + 1 /\ b <= a
              => Clamp(ApplyDefaultPenalty(n, b)) <= Clamp(ApplyDefaultPenalty(h, a))
<1>1. h.defaultCount \in Nat /\ n.defaultCount \in Nat
  BY DEF CreditData
<1>2. \A x \in {h, n}, y \in Int :
        ApplyDefaultPenalty(x, y) = IF x.defaultCount = 0 THEN y
                                    ELSE IF y > x.defaultCount * 50 THEN y - x.defaultCount * 50 ELSE 100
  BY DEF ApplyDefaultPenalty, DEFAULT_PENALTY_WEIGHT, MIN_SCORE
<1>3. \A y \in Int : Clamp(y) = IF y > 1000 THEN 1000 ELSE IF y < 100 THEN 100 ELSE y
  BY DEF Clamp, MAX_SCORE, MIN_SCORE
<1> DEFINE pa == ApplyDefaultPenalty(h, a)
           pb == ApplyDefaultPenalty(n, b)
<1>4. pa = IF h.defaultCount = 0 THEN a ELSE IF a > h.defaultCount * 50 THEN a - h.defaultCount * 50 ELSE 100
  BY <1>2
<1>5. pb = IF n.defaultCount = 0 THEN b ELSE IF b > n.defaultCount * 50 THEN b - n.defaultCount * 50 ELSE 100
  BY <1>2
<1>6. pa \in Int /\ pb \in Int
  BY <1>1, <1>4, <1>5
<1> HIDE DEF pa, pb
<1>7. ASSUME n.defaultCount = h.defaultCount, a <= b PROVE Clamp(pa) <= Clamp(pb)
  BY <1>1, <1>3, <1>4, <1>5, <1>6, <1>7
<1>8. ASSUME n.defaultCount = h.defaultCount + 1, b <= a PROVE Clamp(pb) <= Clamp(pa)
  BY <1>1, <1>3, <1>4, <1>5, <1>6, <1>8
<1> QED BY <1>7, <1>8 DEF pa, pb

LEMMA ScoreMoves ==
    ASSUME NEW h \in CreditData, NEW n \in CreditData, h.known, NEW first \in Nat, NEW time \in Nat
    PROVE  /\ Moves(h, n, 1, 0) => ScoreOf(n, first, time) >= ScoreOf(h, first, time)
           /\ Moves(h, n, 0, 1) => ScoreOf(n, first, time) <= ScoreOf(h, first, time)
           /\ Moves(h, n, 0, 0) => ScoreOf(n, first, time) = ScoreOf(h, first, time)
<1>1. h.onTimePayments \in Nat /\ h.defaultCount \in Nat
  BY DEF CreditData
<1> DEFINE sh == PaymentHistoryScore(h) + Beyond(h, first, time)
           sn == PaymentHistoryScore(n) + Beyond(n, first, time)
<1>2. ScoreOf(h, first, time) = Clamp(ApplyDefaultPenalty(h, sh)) /\ ScoreOf(h, first, time) \in Nat
  BY ScoreFacts
<1>3. n.known => ScoreOf(n, first, time) = Clamp(ApplyDefaultPenalty(n, sn)) /\ ScoreOf(n, first, time) \in Nat
  BY ScoreFacts
<1>4. /\ PaymentHistoryScore(h) \in Int /\ PaymentHistoryScore(n) \in Int
      /\ Beyond(h, first, time) \in Int /\ Beyond(n, first, time) \in Int
  BY PaymentHistoryFacts, BeyondFacts
<1>5. sh \in Int /\ sn \in Int
  BY <1>4
<1>6. n.totalBorrowed = h.totalBorrowed /\ n.utilizationRate = h.utilizationRate
      => Beyond(n, first, time) = Beyond(h, first, time)
  BY DEF Beyond, UtilizationScore, CreditMixScore
<1>7. ASSUME Moves(h, n, 1, 0) PROVE ScoreOf(n, first, time) >= ScoreOf(h, first, time)
  <2>1. n.onTimePayments = h.onTimePayments + 1 /\ n.defaultCount = h.defaultCount /\ n.known
    BY <1>1, <1>7 DEF Moves
  <2>2. PaymentHistoryScore(n) >= PaymentHistoryScore(h)
    BY <2>1, PaymentHistoryMoves
  <2>3. sh <= sn
    BY <1>4, <1>6, <1>7, <2>2 DEF Moves
  <2> HIDE DEF sh, sn
  <2>4. Clamp(ApplyDefaultPenalty(h, sh)) <= Clamp(ApplyDefaultPenalty(n, sn))
    BY <1>5, <2>1, <2>3, PenaltyMoves
  <2> QED BY <1>2, <1>3, <2>1, <2>4
<1>8. ASSUME Moves(h, n, 0, 1) PROVE ScoreOf(n, first, time) <= ScoreOf(h, first, time)
  <2>1. n.onTimePayments = h.onTimePayments /\ n.defaultCount = h.defaultCount + 1 /\ n.known
    BY <1>1, <1>8 DEF Moves
  <2>2. PaymentHistoryScore(n) <= PaymentHistoryScore(h)
    BY <2>1, PaymentHistoryMoves
  <2>3. sn <= sh
    BY <1>4, <1>6, <1>8, <2>2 DEF Moves
  <2> HIDE DEF sh, sn
  <2>4. Clamp(ApplyDefaultPenalty(n, sn)) <= Clamp(ApplyDefaultPenalty(h, sh))
    BY <1>5, <2>1, <2>3, PenaltyMoves
  <2> QED BY <1>2, <1>3, <2>1, <2>4
<1>9. ASSUME Moves(h, n, 0, 0) PROVE ScoreOf(n, first, time) = ScoreOf(h, first, time)
  <2>1. n.onTimePayments = h.onTimePayments /\ n.defaultCount = h.defaultCount /\ n.known
    BY <1>1, <1>9 DEF Moves
  <2>2. PaymentHistoryScore(n) = PaymentHistoryScore(h)
    BY <2>1 DEF PaymentHistoryScore
  <2>3. sn = sh
    BY <1>6, <1>9, <2>2 DEF Moves
  <2>4. ApplyDefaultPenalty(n, sn) = ApplyDefaultPenalty(h, sn)
    BY <2>1 DEF ApplyDefaultPenalty
  <2> HIDE DEF sh, sn
  <2> QED BY <1>2, <1>3, <2>1, <2>3, <2>4
<1> QED BY <1>7, <1>8, <1>9

-----------------------------------------------------------------------------
\* The updates themselves.

LEMMA DataFields ==
    ASSUME NEW h \in CreditData
    PROVE  /\ h.score \in Nat /\ h.totalBorrowed \in Nat /\ h.totalRepaid \in Nat /\ h.defaultCount \in Nat
           /\ h.onTimePayments \in Nat /\ h.utilizationRate \in Nat /\ h.known \in BOOLEAN
BY DEF CreditData

LEMMA KnownIsData ==
    ASSUME NEW h \in CreditData
    PROVE  LET n == [h EXCEPT !.known = TRUE] IN
           /\ n \in CreditData /\ n.known /\ n.defaultCount = h.defaultCount /\ n.onTimePayments = h.onTimePayments
           /\ n.totalBorrowed = h.totalBorrowed /\ n.totalRepaid = h.totalRepaid
           /\ n.utilizationRate = h.utilizationRate
BY DEF CreditData

LEMMA ScoredIsData ==
    ASSUME NEW h \in CreditData, NEW score \in Nat
    PROVE  [h EXCEPT !.score = score] \in CreditData /\ [h EXCEPT !.score = score].score = score
BY DEF CreditData

LEMMA RecordedIsData ==
    ASSUME NEW h \in CreditData, NEW type \in UpdateTypes, NEW value \in Nat
    PROVE  LET n == Recorded(h, type, value) IN
           /\ n \in CreditData
           /\ type \in {"OnTimePayment", "Default", "LatePayment"} =>
                /\ n.onTimePayments = h.onTimePayments + (IF type = "OnTimePayment" THEN 1 ELSE 0)
                /\ n.defaultCount = h.defaultCount + (IF type = "Default" THEN 1 ELSE 0)
                /\ n.totalBorrowed = h.totalBorrowed /\ n.utilizationRate = h.utilizationRate
<1> USE DataFields
<1>1. CASE type = "OnTimePayment"
  <2>1. Recorded(h, type, value) = [h EXCEPT !.onTimePayments = @ + 1, !.totalRepaid = @ + value]
    BY <1>1 DEF Recorded
  <2>2. PICK g : g = [h EXCEPT !.onTimePayments = h.onTimePayments + 1]
    OBVIOUS
  <2>3. /\ g \in CreditData /\ g.onTimePayments = h.onTimePayments + 1 /\ g.totalRepaid = h.totalRepaid
        /\ g.defaultCount = h.defaultCount /\ g.totalBorrowed = h.totalBorrowed
        /\ g.utilizationRate = h.utilizationRate
    BY <2>2 DEF CreditData
  <2>4. PICK r : r = [g EXCEPT !.totalRepaid = g.totalRepaid + value]
    OBVIOUS
  <2>5. /\ r \in CreditData /\ r.onTimePayments = g.onTimePayments
        /\ r.defaultCount = g.defaultCount /\ r.totalBorrowed = g.totalBorrowed
        /\ r.utilizationRate = g.utilizationRate
    BY <2>3, <2>4 DEF CreditData
  <2>6. Recorded(h, type, value) = r
    BY <2>1, <2>2, <2>3, <2>4 DEF CreditData
  <2> QED BY <1>1, <2>3, <2>5, <2>6
<1>2. CASE type \in {"LatePayment", "Repayment"}
  <2>1. Recorded(h, type, value) = [h EXCEPT !.totalRepaid = @ + value]
    BY <1>2 DEF Recorded
  <2> QED BY <1>2, <2>1 DEF CreditData
<1>3. CASE type = "Default"
  <2>1. Recorded(h, type, value) = [h EXCEPT !.defaultCount = @ + 1]
    BY <1>3 DEF Recorded
  <2> QED BY <1>3, <2>1 DEF CreditData
<1>4. CASE type = "NewBorrow"
  <2>1. Recorded(h, type, value) = [h EXCEPT !.totalBorrowed = @ + value]
    BY <1>4 DEF Recorded
  <2> QED BY <1>4, <2>1 DEF CreditData
<1> QED BY <1>1, <1>2, <1>3, <1>4 DEF UpdateTypes

LEMMA UtilizedIsData ==
    ASSUME NEW h \in CreditData, NEW limit \in Nat, ~UtilizationReverts(h, limit)
    PROVE  WithUtilization(h, limit) \in CreditData
<1> DEFINE rate == IF limit = 0 THEN 0 ELSE ((h.totalBorrowed - h.totalRepaid) * 100) \div limit
<1>1. rate \in Nat
  <2>1. CASE limit = 0
    BY <2>1
  <2>2. CASE limit # 0
    <3>1. (h.totalBorrowed - h.totalRepaid) * 100 \in Nat /\ limit > 0
      BY <2>2, DataFields DEF UtilizationReverts
    <3> QED BY <2>2, <3>1, DivFacts
  <2> QED BY <2>1, <2>2
<1>2. WithUtilization(h, limit) = [h EXCEPT !.utilizationRate = rate]
  BY DEF WithUtilization
<1> HIDE DEF rate
<1> QED BY <1>1, <1>2 DEF CreditData

\* An update keeps the types, and moves the score of a known history in the direction of its type.
LEMMA MetricsKeep ==
    ASSUME OracleTypeOK, now \in Nat, NEW u \in Users, NEW type \in UpdateTypes, NEW value \in Nat,
           updateCreditMetrics(u, type, value)
    PROVE  /\ OracleTypeOK'
           /\ creditHistory[u].known =>
                /\ type = "Default" => creditHistory'[u].score <= calculateCreditScore(u)
                /\ type = "OnTimePayment" => creditHistory'[u].score >= calculateCreditScore(u)
                /\ type = "LatePayment" => creditHistory'[u].score = calculateCreditScore(u)
           /\ creditHistory'[u].score \in Nat /\ calculateCreditScore(u) \in Nat
<1> DEFINE utilized == type \in {"NewBorrow", "Repayment"}
           first == IF creditHistory[u].known THEN userFirstBorrowTime[u] ELSE now
           limit == userTotalCreditLimit[u]
<1>1. PICK h : h = creditHistory[u]
  OBVIOUS
<1>2. h \in CreditData /\ first \in Nat /\ limit \in Nat /\ userFirstBorrowTime[u] \in Nat
  BY <1>1 DEF OracleTypeOK
<1>3. PICK r : r = Recorded(h, type, value)
  OBVIOUS
<1>4. /\ r \in CreditData
      /\ type \in {"OnTimePayment", "Default", "LatePayment"} =>
                /\ r.onTimePayments = h.onTimePayments + (IF type = "OnTimePayment" THEN 1 ELSE 0)
                /\ r.defaultCount = h.defaultCount + (IF type = "Default" THEN 1 ELSE 0)
                /\ r.totalBorrowed = h.totalBorrowed /\ r.utilizationRate = h.utilizationRate
  BY <1>2, <1>3, RecordedIsData
<1>5. PICK m : m = [r EXCEPT !.known = TRUE]
  OBVIOUS
<1>6. /\ m \in CreditData /\ m.known /\ m.defaultCount = r.defaultCount /\ m.onTimePayments = r.onTimePayments
      /\ m.totalBorrowed = r.totalBorrowed /\ m.utilizationRate = r.utilizationRate
  BY <1>4, <1>5, KnownIsData, Zenon
<1>7. PICK data : data = IF utilized THEN WithUtilization(m, limit) ELSE m
  OBVIOUS
<1>8. /\ utilized => ~UtilizationReverts(m, limit)
      /\ userFirstBorrowTime' = [userFirstBorrowTime EXCEPT ![u] = first]
      /\ creditHistory' = [creditHistory EXCEPT ![u] = [data EXCEPT !.score = ScoreOf(data, first, now)]]
      /\ userTotalCreditLimit' = userTotalCreditLimit
  BY <1>1, <1>3, <1>5, <1>7, Zenon DEF updateCreditMetrics
<1>9. data \in CreditData
  BY <1>2, <1>6, <1>7, <1>8, UtilizedIsData
<1>10. ScoreOf(data, first, now) \in Nat
  BY <1>2, <1>9, ScoreFacts
<1> HIDE DEF first, limit, utilized
<1>11. PICK n : n = [data EXCEPT !.score = ScoreOf(data, first, now)]
  OBVIOUS
<1>12. n \in CreditData /\ n.score = ScoreOf(data, first, now)
  BY <1>9, <1>10, <1>11, ScoredIsData
<1>13. OracleTypeOK'
  BY <1>2, <1>8, <1>11, <1>12 DEF OracleTypeOK
<1>14. creditHistory'[u].score = ScoreOf(data, first, now)
  BY <1>8, <1>11, <1>12 DEF OracleTypeOK
<1>15. calculateCreditScore(u) = ScoreOf(h, userFirstBorrowTime[u], now) /\ calculateCreditScore(u) \in Nat
  BY <1>1, <1>2, ScoreFacts DEF calculateCreditScore
<1>16. ASSUME h.known, type \in {"OnTimePayment", "Default", "LatePayment"}
       PROVE  /\ type = "Default" => ScoreOf(data, first, now) <= ScoreOf(h, userFirstBorrowTime[u], now)
              /\ type = "OnTimePayment" => ScoreOf(data, first, now) >= ScoreOf(h, userFirstBorrowTime[u], now)
              /\ type = "LatePayment" => ScoreOf(data, first, now) = ScoreOf(h, userFirstBorrowTime[u], now)
  <2>1. first = userFirstBorrowTime[u] /\ data = m
    BY <1>1, <1>7, <1>16 DEF first, utilized
  <2>2. Moves(h, m, IF type = "OnTimePayment" THEN 1 ELSE 0, IF type = "Default" THEN 1 ELSE 0)
    BY <1>4, <1>6, <1>16 DEF Moves
  <2>3. CASE type = "Default"
    BY <1>2, <1>6, <1>16, <2>1, <2>2, <2>3, ScoreMoves
  <2>4. CASE type = "OnTimePayment"
    BY <1>2, <1>6, <1>16, <2>1, <2>2, <2>4, ScoreMoves
  <2>5. CASE type = "LatePayment"
    BY <1>2, <1>6, <1>16, <2>1, <2>2, <2>5, ScoreMoves
  <2> QED BY <1>16, <2>3, <2>4, <2>5
<1> QED BY <1>1, <1>10, <1>13, <1>14, <1>15, <1>16

-----------------------------------------------------------------------------
(***************************************************************************)
(* The oracle itself.  ScoringTypeOK and ScoreFollowsBehaviour are inductive      *)
(* together: an update needs numbers to compute with, and every other step *)
(* forgets the last update.                                                *)
(***************************************************************************)

OracleInv == ScoringTypeOK /\ ScoreFollowsBehaviour

LEMMA OtherStep ==
    ASSUME ScoringTypeOK', last' = NoUpdate
    PROVE  OracleInv'
BY DEF OracleInv, ScoreFollowsBehaviour, NoUpdate

LEMMA ScoreSetKeeps ==
    ASSUME OracleTypeOK, NEW u \in Users, NEW score \in Nat,
           creditHistory' = [creditHistory EXCEPT ![u].score = score],
           UNCHANGED <<userFirstBorrowTime, userTotalCreditLimit>>
    PROVE  OracleTypeOK'
<1>1. PICK h : h = [creditHistory[u] EXCEPT !.score = score]
  OBVIOUS
<1>2. h \in CreditData
  BY <1>1, ScoredIsData DEF OracleTypeOK
<1>3. creditHistory' = [creditHistory EXCEPT ![u] = h]
  BY <1>1
<1> QED BY <1>2, <1>3 DEF OracleTypeOK

LEMMA InitKeeps ==
    ASSUME UpdatesInit PROVE OracleInv
<1>1. NewHistory \in CreditData
  BY DEF NewHistory, CreditData
<1>2. ScoringTypeOK
  BY <1>1 DEF UpdatesInit, ScoringTypeOK, BaseInit, BaseTypeOK, OracleInit, OracleTypeOK
<1> QED BY <1>2 DEF UpdatesInit, OracleInv, ScoreFollowsBehaviour, NoUpdate

LEMMA UpdateKeeps ==
    ASSUME OracleInv, NEW u \in Users, NEW type \in UpdateTypes, NEW value \in Values,
           Update(u, type, value)
    PROVE  OracleInv'
<1>1. OracleTypeOK /\ BaseTypeOK /\ now \in Nat /\ value \in Nat
  BY OracleAssumption DEF OracleInv, ScoringTypeOK, BaseTypeOK
<1>2. updateCreditMetrics(u, type, value) /\ UNCHANGED baseVars
  BY DEF Update, updateCreditMetrics
<1>3. PICK before : before = calculateCreditScore(u)
  OBVIOUS
<1>4. PICK after : after = creditHistory'[u].score
  OBVIOUS
<1>5. /\ OracleTypeOK'
      /\ creditHistory[u].known =>
           /\ type = "Default" => after <= before
           /\ type = "OnTimePayment" => after >= before
           /\ type = "LatePayment" => after = before
      /\ after \in Nat /\ before \in Nat
  BY <1>1, <1>2, <1>3, <1>4, MetricsKeep, Zenon
<1>6. ScoringTypeOK'
  BY <1>1, <1>2, <1>5 DEF ScoringTypeOK, BaseTypeOK, baseVars
<1>7. last' = [type |-> type, user |-> u, known |-> creditHistory[u].known, moved |-> after - before]
  BY <1>3, <1>4 DEF Update
<1>8. last'.type = type /\ last'.known = creditHistory[u].known /\ last'.moved = after - before
  BY <1>7
<1>9. ScoreFollowsBehaviour'
  BY <1>5, <1>8 DEF ScoreFollowsBehaviour
<1> QED BY <1>6, <1>9 DEF OracleInv

LEMMA AdministerKeeps ==
    ASSUME OracleInv, NEW u \in Users, Administer(u)
    PROVE  OracleInv'
<1>1. OracleTypeOK /\ BaseTypeOK /\ now \in Nat /\ last' = NoUpdate
  BY DEF OracleInv, ScoringTypeOK, BaseTypeOK, Administer
<1> SUFFICES OracleTypeOK' /\ BaseTypeOK'
  BY <1>1, OtherStep DEF ScoringTypeOK
<1>2. ASSUME NEW limit \in Limits, setCreditLimit(u, limit)
      PROVE  OracleTypeOK' /\ BaseTypeOK'
  BY <1>1, <1>2, OracleAssumption DEF setCreditLimit, OracleTypeOK, BaseTypeOK, baseVars
<1>3. ASSUME batchUpdateScores(u)
      PROVE  OracleTypeOK' /\ BaseTypeOK'
  <2>1. creditHistory[u] \in CreditData /\ userFirstBorrowTime[u] \in Nat
    BY <1>1 DEF OracleTypeOK
  <2>2. PICK score : score = calculateCreditScore(u)
    OBVIOUS
  <2>3. score \in Nat
    BY <1>1, <2>1, <2>2, ScoreFacts DEF calculateCreditScore
  <2>4. /\ creditHistory' = [creditHistory EXCEPT ![u].score = score]
        /\ UNCHANGED <<userFirstBorrowTime, userTotalCreditLimit>> /\ UNCHANGED baseVars
    BY <1>3, <2>2 DEF batchUpdateScores
  <2> QED BY <1>1, <2>3, <2>4, ScoreSetKeeps DEF BaseTypeOK, baseVars
<1>4. ASSUME NEW score \in Scores, emergencyResetScore(u, score)
      PROVE  OracleTypeOK' /\ BaseTypeOK'
  <2>1. score \in Nat
    BY OracleAssumption
  <2>2. /\ creditHistory' = [creditHistory EXCEPT ![u].score = score]
        /\ UNCHANGED <<userFirstBorrowTime, userTotalCreditLimit>> /\ UNCHANGED baseVars
    BY <1>4 DEF emergencyResetScore
  <2> QED BY <1>1, <2>1, <2>2, ScoreSetKeeps DEF BaseTypeOK, baseVars
<1>5. ASSUME NEW p \in BOOLEAN, SetPaused("oracle", p), UNCHANGED oracleVars
      PROVE  OracleTypeOK' /\ BaseTypeOK'
  BY <1>1, <1>5 DEF SetPaused, oracleVars, OracleTypeOK, BaseTypeOK, Contracts
<1> QED BY <1>2, <1>3, <1>4, <1>5 DEF Administer

LEMMA ImportKeeps ==
    ASSUME OracleInv, NEW u \in Users, Import(u)
    PROVE  OracleInv'
<1>1. OracleTypeOK /\ BaseTypeOK /\ now \in Nat /\ last' = NoUpdate
  BY DEF OracleInv, ScoringTypeOK, BaseTypeOK, Import
<1>2. PICK score \in Scores, borrowed \in Values, repaid \in Values, defaults \in {0, 1}, onTime \in {0, 1} :
          initializeUser(u, score, borrowed, repaid, onTime, defaults)
  BY DEF Import
<1>3. PICK h : h = [score |-> score, totalBorrowed |-> borrowed, totalRepaid |-> repaid,
                    defaultCount |-> defaults, onTimePayments |-> onTime,
                    utilizationRate |-> 0, known |-> TRUE]
  OBVIOUS
<1>4. h \in CreditData
  BY <1>3, OracleAssumption DEF CreditData
<1>5. /\ creditHistory' = [creditHistory EXCEPT ![u] = h]
      /\ userFirstBorrowTime' = [userFirstBorrowTime EXCEPT ![u] = now]
      /\ UNCHANGED userTotalCreditLimit /\ UNCHANGED baseVars
  BY <1>2, <1>3 DEF initializeUser
<1>6. OracleTypeOK' /\ BaseTypeOK'
  BY <1>1, <1>4, <1>5 DEF OracleTypeOK, BaseTypeOK, baseVars
<1> QED BY <1>1, <1>6, OtherStep DEF ScoringTypeOK

LEMMA WaitKeeps ==
    ASSUME OracleInv, Wait
    PROVE  OracleInv'
<1>1. ScoringTypeOK' /\ last' = NoUpdate
  BY DEF Wait, Tick, OracleInv, ScoringTypeOK, BaseTypeOK, OracleTypeOK, oracleVars
<1> QED BY <1>1, OtherStep

LEMMA StutterKeeps ==
    ASSUME OracleInv, UNCHANGED UpdatesVars
    PROVE  OracleInv'
BY DEF OracleInv, ScoringTypeOK, BaseTypeOK, OracleTypeOK, ScoreFollowsBehaviour, UpdatesVars

LEMMA NextKeeps ==
    ASSUME OracleInv, UpdatesNext
    PROVE  OracleInv'
<1>1. CASE \E u \in Users, type \in UpdateTypes, value \in Values : Update(u, type, value)
  BY <1>1, UpdateKeeps
<1>2. CASE \E u \in Users : Administer(u) \/ Import(u)
  BY <1>2, AdministerKeeps, ImportKeeps
<1>3. CASE Wait
  BY <1>3, WaitKeeps
<1> QED BY <1>1, <1>2, <1>3 DEF UpdatesNext

LEMMA OracleInvariant == ScoringSpec => []OracleInv
<1>1. ScoringInit => OracleInv
  BY InitKeeps DEF ScoringInit
<1>2. OracleInv /\ [ScoringNext]_ScoringVars => OracleInv'
  <2> SUFFICES ASSUME OracleInv, [ScoringNext]_ScoringVars PROVE OracleInv'
    OBVIOUS
  <2>1. UpdatesNext \/ UNCHANGED UpdatesVars
    BY DEF ScoringNext, ScoringVars
  <2> QED BY <2>1, NextKeeps, StutterKeeps
<1> QED BY <1>1, <1>2, PTL DEF ScoringSpec

\* Every number the oracle keeps stays an unsigned integer: the subtractions and
\* divisions of _updateUtilizationRate and calculateCreditScore never leave them,
\* for any users, amounts, limits and scores.
THEOREM OracleTypeCorrect == ScoringSpec => []ScoringTypeOK
<1>1. OracleInv => ScoringTypeOK
  BY DEF OracleInv
<1> QED BY <1>1, OracleInvariant, PTL

\* Of a user with a history, updateCreditMetrics never raises the score for a
\* default, never lowers it for a payment on time and leaves it for a late one,
\* whatever the counts, the rounding of each part and the clamping of the sum.
THEOREM ScoresFollowBehaviour == ScoringSpec => []ScoreFollowsBehaviour
<1>1. OracleInv => ScoreFollowsBehaviour
  BY DEF OracleInv
<1> QED BY <1>1, OracleInvariant, PTL

-----------------------------------------------------------------------------
\* The engines.

\* The band that x falls into is unique when the thresholds descend.
Reaches(x, bands, k) == (k > Len(bands) \/ x >= bands[k][1]) /\ (k = 1 \/ x < bands[k - 1][1])
Descends(bands) == /\ \A i \in 1 .. Len(bands) : bands[i][1] \in Int
                   /\ \A i, j \in 1 .. Len(bands) : i <= j => bands[i][1] >= bands[j][1]

LEMMA ReachedOnce ==
    ASSUME NEW x \in Int, NEW bands, Len(bands) \in Nat, Descends(bands),
           NEW j \in 1 .. (Len(bands) + 1), NEW k \in 1 .. (Len(bands) + 1), j < k,
           Reaches(x, bands, j), Reaches(x, bands, k)
    PROVE  FALSE
<1>1. j \in 1 .. Len(bands) /\ k - 1 \in 1 .. Len(bands) /\ j <= k - 1
  OBVIOUS
<1>2. x >= bands[j][1] /\ x < bands[k - 1][1]
  BY <1>1 DEF Reaches
<1>3. bands[j][1] >= bands[k - 1][1] /\ bands[j][1] \in Int /\ bands[k - 1][1] \in Int
  BY <1>1 DEF Descends
<1> QED BY <1>2, <1>3

Falls(x, bands, k) == /\ x \in Int /\ Len(bands) \in Nat /\ Descends(bands)
                      /\ k \in 1 .. (Len(bands) + 1) /\ Reaches(x, bands, k)

LEMMA BandAt ==
    ASSUME NEW x, NEW bands, NEW otherwise, NEW k, Falls(x, bands, k)
    PROVE  Band(x, bands, otherwise) = IF k > Len(bands) THEN otherwise ELSE bands[k][2]
<1> DEFINE i == CHOOSE j \in 1 .. (Len(bands) + 1) : Reaches(x, bands, j)
<1>1. i \in 1 .. (Len(bands) + 1) /\ Reaches(x, bands, i)
  BY DEF Falls
<1>2. Band(x, bands, otherwise) = IF i > Len(bands) THEN otherwise ELSE bands[i][2]
  BY DEF Band, Reaches
<1> HIDE DEF i
<1>3. i = k
  <2>1. ~(i < k) /\ ~(k < i)
    BY <1>1, ReachedOnce DEF Falls
  <2> QED BY <1>1, <2>1 DEF Falls
<1> QED BY <1>2, <1>3

\* Tables of two to five thresholds, and what is found in them.
Bands2(a, p, b, q) == <<<<a, p>>, <<b, q>>>>

LEMMA TwoBands ==
    ASSUME NEW x \in Int, NEW a \in Int, NEW b \in Int,
           NEW p, NEW q, NEW otherwise, a >= b
    PROVE  Band(x, Bands2(a, p, b, q), otherwise)
             = IF x >= a THEN p ELSE IF x >= b THEN q ELSE otherwise
<1> DEFINE bands == <<<<a, p>>, <<b, q>>>>
<1>1. Len(bands) = 2 /\ bands[1] = <<a, p>> /\ bands[2] = <<b, q>>
  OBVIOUS
<1> HIDE DEF bands
<1>2. Len(bands) = 2
  BY <1>1
<1>3. bands[1][1] = a /\ bands[2][1] = b
  BY <1>1
<1>4. bands[1][2] = p /\ bands[2][2] = q
  BY <1>1
<1>5. Descends(bands)
  <2>1. \A i \in 1 .. 2 : i = 1 \/ i = 2
    OBVIOUS
  <2>2. \A i \in 1 .. 2 : bands[i][1] \in Int
    BY <1>3, <2>1
  <2>3. ASSUME NEW i \in 1 .. 2, NEW j \in 1 .. 2, i <= j PROVE bands[i][1] >= bands[j][1]
    <3>1. CASE i = 1
      BY <1>3, <2>1, <2>3, <3>1
    <3>2. CASE i = 2
      BY <1>3, <2>1, <2>3, <3>2
    <3> QED BY <2>1, <3>1, <3>2
  <2> QED BY <1>2, <2>2, <2>3 DEF Descends
<1>6. CASE x >= a
  <2>1. Falls(x, bands, 1)
    BY <1>2, <1>3, <1>5, <1>6 DEF Falls, Reaches
  <2>2. Band(x, bands, otherwise) = IF 1 > Len(bands) THEN otherwise ELSE bands[1][2]
    BY <2>1, BandAt
  <2> QED BY <1>2, <1>4, <1>6, <2>2 DEF bands, Bands2
<1>7. CASE x < a /\ x >= b
  <2>1. Falls(x, bands, 2)
    BY <1>2, <1>3, <1>5, <1>7 DEF Falls, Reaches
  <2>2. Band(x, bands, otherwise) = IF 2 > Len(bands) THEN otherwise ELSE bands[2][2]
    BY <2>1, BandAt
  <2> QED BY <1>2, <1>4, <1>7, <2>2 DEF bands, Bands2
<1>8. CASE x < b
  <2>1. Falls(x, bands, 3)
    BY <1>2, <1>3, <1>5, <1>8 DEF Falls, Reaches
  <2>2. Band(x, bands, otherwise) = IF 3 > Len(bands) THEN otherwise ELSE bands[3][2]
    BY <2>1, BandAt
  <2> QED BY <1>2, <1>4, <1>8, <2>2 DEF bands, Bands2
<1> QED BY <1>6, <1>7, <1>8

Bands3(a, p, b, q, c, r) == <<<<a, p>>, <<b, q>>, <<c, r>>>>

LEMMA ThreeBands ==
    ASSUME NEW x \in Int, NEW a \in Int, NEW b \in Int, NEW c \in Int,
           NEW p, NEW q, NEW r, NEW otherwise, a >= b /\ b >= c
    PROVE  Band(x, Bands3(a, p, b, q, c, r), otherwise)
             = IF x >= a THEN p ELSE IF x >= b THEN q ELSE IF x >= c THEN r ELSE otherwise
<1> DEFINE bands == <<<<a, p>>, <<b, q>>, <<c, r>>>>
<1>1. Len(bands) = 3 /\ bands[1] = <<a, p>> /\ bands[2] = <<b, q>> /\ bands[3] = <<c, r>>
  OBVIOUS
<1> HIDE DEF bands
<1>2. Len(bands) = 3
  BY <1>1
<1>3. bands[1][1] = a /\ bands[2][1] = b /\ bands[3][1] = c
  BY <1>1
<1>4. bands[1][2] = p /\ bands[2][2] = q /\ bands[3][2] = r
  BY <1>1
<1>5. Descends(bands)
  <2>1. \A i \in 1 .. 3 : i = 1 \/ i = 2 \/ i = 3
    OBVIOUS
  <2>2. \A i \in 1 .. 3 : bands[i][1] \in Int
    BY <1>3, <2>1
  <2>3. ASSUME NEW i \in 1 .. 3, NEW j \in 1 .. 3, i <= j PROVE bands[i][1] >= bands[j][1]
    <3>1. CASE i = 1
      BY <1>3, <2>1, <2>3, <3>1
    <3>2. CASE i = 2
      BY <1>3, <2>1, <2>3, <3>2
    <3>3. CASE i = 3
      BY <1>3, <2>1, <2>3, <3>3
    <3> QED BY <2>1, <3>1, <3>2, <3>3
  <2> QED BY <1>2, <2>2, <2>3 DEF Descends
<1>6. CASE x >= a
  <2>1. Falls(x, bands, 1)
    BY <1>2, <1>3, <1>5, <1>6 DEF Falls, Reaches
  <2>2. Band(x, bands, otherwise) = IF 1 > Len(bands) THEN otherwise ELSE bands[1][2]
    BY <2>1, BandAt
  <2> QED BY <1>2, <1>4, <1>6, <2>2 DEF bands, Bands3
<1>7. CASE x < a /\ x >= b
  <2>1. Falls(x, bands, 2)
    BY <1>2, <1>3, <1>5, <1>7 DEF Falls, Reaches
  <2>2. Band(x, bands, otherwise) = IF 2 > Len(bands) THEN otherwise ELSE bands[2][2]
    BY <2>1, BandAt
  <2> QED BY <1>2, <1>4, <1>7, <2>2 DEF bands, Bands3
<1>8. CASE x < b /\ x >= c
  <2>1. Falls(x, bands, 3)
    BY <1>2, <1>3, <1>5, <1>8 DEF Falls, Reaches
  <2>2. Band(x, bands, otherwise) = IF 3 > Len(bands) THEN otherwise ELSE bands[3][2]
    BY <2>1, BandAt
  <2> QED BY <1>2, <1>4, <1>8, <2>2 DEF bands, Bands3
<1>9. CASE x < c
  <2>1. Falls(x, bands, 4)
    BY <1>2, <1>3, <1>5, <1>9 DEF Falls, Reaches
  <2>2. Band(x, bands, otherwise) = IF 4 > Len(bands) THEN otherwise ELSE bands[4][2]
    BY <2>1, BandAt
  <2> QED BY <1>2, <1>4, <1>9, <2>2 DEF bands, Bands3
<1> QED BY <1>6, <1>7, <1>8, <1>9

Bands4(a, p, b, q, c, r, d, s) == <<<<a, p>>, <<b, q>>, <<c, r>>, <<d, s>>>>

LEMMA FourBands ==
    ASSUME NEW x \in Int, NEW a \in Int, NEW b \in Int, NEW c \in Int, NEW d \in Int,
           NEW p, NEW q, NEW r, NEW s, NEW otherwise, a >= b /\ b >= c /\ c >= d
    PROVE  Band(x, Bands4(a, p, b, q, c, r, d, s), otherwise)
             = IF x >= a THEN p ELSE IF x >= b THEN q ELSE IF x >= c THEN r ELSE IF x >= d THEN s ELSE otherwise
<1> DEFINE bands == <<<<a, p>>, <<b, q>>, <<c, r>>, <<d, s>>>>
<1>1. Len(bands) = 4 /\ bands[1] = <<a, p>> /\ bands[2] = <<b, q>> /\ bands[3] = <<c, r>> /\ bands[4] = <<d, s>>
  OBVIOUS
<1> HIDE DEF bands
<1>2. Len(bands) = 4
  BY <1>1
<1>3. bands[1][1] = a /\ bands[2][1] = b /\ bands[3][1] = c /\ bands[4][1] = d
  BY <1>1
<1>4. bands[1][2] = p /\ bands[2][2] = q /\ bands[3][2] = r /\ bands[4][2] = s
  BY <1>1
<1>5. Descends(bands)
  <2>1. \A i \in 1 .. 4 : i = 1 \/ i = 2 \/ i = 3 \/ i = 4
    OBVIOUS
  <2>2. \A i \in 1 .. 4 : bands[i][1] \in Int
    BY <1>3, <2>1
  <2>3. ASSUME NEW i \in 1 .. 4, NEW j \in 1 .. 4, i <= j PROVE bands[i][1] >= bands[j][1]
    <3>1. CASE i = 1
      BY <1>3, <2>1, <2>3, <3>1
    <3>2. CASE i = 2
      BY <1>3, <2>1, <2>3, <3>2
    <3>3. CASE i = 3
      BY <1>3, <2>1, <2>3, <3>3
    <3>4. CASE i = 4
      BY <1>3, <2>1, <2>3, <3>4
    <3> QED BY <2>1, <3>1, <3>2, <3>3, <3>4
  <2> QED BY <1>2, <2>2, <2>3 DEF Descends
<1>6. CASE x >= a
  <2>1. Falls(x, bands, 1)
    BY <1>2, <1>3, <1>5, <1>6 DEF Falls, Reaches
  <2>2. Band(x, bands, otherwise) = IF 1 > Len(bands) THEN otherwise ELSE bands[1][2]
    BY <2>1, BandAt
  <2> QED BY <1>2, <1>4, <1>6, <2>2 DEF bands, Bands4
<1>7. CASE x < a /\ x >= b
  <2>1. Falls(x, bands, 2)
    BY <1>2, <1>3, <1>5, <1>7 DEF Falls, Reaches
  <2>2. Band(x, bands, otherwise) = IF 2 > Len(bands) THEN otherwise ELSE bands[2][2]
    BY <2>1, BandAt
  <2> QED BY <1>2, <1>4, <1>7, <2>2 DEF bands, Bands4
<1>8. CASE x < b /\ x >= c
  <2>1. Falls(x, bands, 3)
    BY <1>2, <1>3, <1>5, <1>8 DEF Falls, Reaches
  <2>2. Band(x, bands, otherwise) = IF 3 > Len(bands) THEN otherwise ELSE bands[3][2]
    BY <2>1, BandAt
  <2> QED BY <1>2, <1>4, <1>8, <2>2 DEF bands, Bands4
<1>9. CASE x < c /\ x >= d
  <2>1. Falls(x, bands, 4)
    BY <1>2, <1>3, <1>5, <1>9 DEF Falls, Reaches
  <2>2. Band(x, bands, otherwise) = IF 4 > Len(bands) THEN otherwise ELSE bands[4][2]
    BY <2>1, BandAt
  <2> QED BY <1>2, <1>4, <1>9, <2>2 DEF bands, Bands4
<1>10. CASE x < d
  <2>1. Falls(x, bands, 5)
    BY <1>2, <1>3, <1>5, <1>10 DEF Falls, Reaches
  <2>2. Band(x, bands, otherwise) = IF 5 > Len(bands) THEN otherwise ELSE bands[5][2]
    BY <2>1, BandAt
  <2> QED BY <1>2, <1>4, <1>10, <2>2 DEF bands, Bands4
<1> QED BY <1>6, <1>7, <1>8, <1>9, <1>10

Bands5(a, p, b, q, c, r, d, s, e, t) == <<<<a, p>>, <<b, q>>, <<c, r>>, <<d, s>>, <<e, t>>>>

LEMMA FiveBands ==
    ASSUME NEW x \in Int, NEW a \in Int, NEW b \in Int, NEW c \in Int, NEW d \in Int, NEW e \in Int,
           NEW p, NEW q, NEW r, NEW s, NEW t, NEW otherwise, a >= b /\ b >= c /\ c >= d /\ d >= e
    PROVE  Band(x, Bands5(a, p, b, q, c, r, d, s, e, t), otherwise)
             = IF x >= a THEN p ELSE IF x >= b THEN q ELSE IF x >= c THEN r ELSE IF x >= d THEN s
               ELSE IF x >= e THEN t ELSE otherwise
<1> DEFINE bands == <<<<a, p>>, <<b, q>>, <<c, r>>, <<d, s>>, <<e, t>>>>
<1>1. /\ Len(bands) = 5 /\ bands[1] = <<a, p>> /\ bands[2] = <<b, q>> /\ bands[3] = <<c, r>> /\ bands[4] = <<d, s>>
      /\ bands[5] = <<e, t>>
  OBVIOUS
<1> HIDE DEF bands
<1>2. Len(bands) = 5
  BY <1>1
<1>3. bands[1][1] = a /\ bands[2][1] = b /\ bands[3][1] = c /\ bands[4][1] = d /\ bands[5][1] = e
  BY <1>1
<1>4. bands[1][2] = p /\ bands[2][2] = q /\ bands[3][2] = r /\ bands[4][2] = s /\ bands[5][2] = t
  BY <1>1
<1>5. Descends(bands)
  <2>1. \A i \in 1 .. 5 : i = 1 \/ i = 2 \/ i = 3 \/ i = 4 \/ i = 5
    OBVIOUS
  <2>2. \A i \in 1 .. 5 : bands[i][1] \in Int
    BY <1>3, <2>1
  <2>3. ASSUME NEW i \in 1 .. 5, NEW j \in 1 .. 5, i <= j PROVE bands[i][1] >= bands[j][1]
    <3>1. CASE i = 1
      BY <1>3, <2>1, <2>3, <3>1
    <3>2. CASE i = 2
      BY <1>3, <2>1, <2>3, <3>2
    <3>3. CASE i = 3
      BY <1>3, <2>1, <2>3, <3>3
    <3>4. CASE i = 4
      BY <1>3, <2>1, <2>3, <3>4
    <3>5. CASE i = 5
      BY <1>3, <2>1, <2>3, <3>5
    <3> QED BY <2>1, <3>1, <3>2, <3>3, <3>4, <3>5
  <2> QED BY <1>2, <2>2, <2>3 DEF Descends
<1>6. CASE x >= a
  <2>1. Falls(x, bands, 1)
    BY <1>2, <1>3, <1>5, <1>6 DEF Falls, Reaches
  <2>2. Band(x, bands, otherwise) = IF 1 > Len(bands) THEN otherwise ELSE bands[1][2]
    BY <2>1, BandAt
  <2> QED BY <1>2, <1>4, <1>6, <2>2 DEF bands, Bands5
<1>7. CASE x < a /\ x >= b
  <2>1. Falls(x, bands, 2)
    BY <1>2, <1>3, <1>5, <1>7 DEF Falls, Reaches
  <2>2. Band(x, bands, otherwise) = IF 2 > Len(bands) THEN otherwise ELSE bands[2][2]
    BY <2>1, BandAt
  <2> QED BY <1>2, <1>4, <1>7, <2>2 DEF bands, Bands5
<1>8. CASE x < b /\ x >= c
  <2>1. Falls(x, bands, 3)
    BY <1>2, <1>3, <1>5, <1>8 DEF Falls, Reaches
  <2>2. Band(x, bands, otherwise) = IF 3 > Len(bands) THEN otherwise ELSE bands[3][2]
    BY <2>1, BandAt
  <2> QED BY <1>2, <1>4, <1>8, <2>2 DEF bands, Bands5
<1>9. CASE x < c /\ x >= d
  <2>1. Falls(x, bands, 4)
    BY <1>2, <1>3, <1>5, <1>9 DEF Falls, Reaches
  <2>2. Band(x, bands, otherwise) = IF 4 > Len(bands) THEN otherwise ELSE bands[4][2]
    BY <2>1, BandAt
  <2> QED BY <1>2, <1>4, <1>9, <2>2 DEF bands, Bands5
<1>10. CASE x < d /\ x >= e
  <2>1. Falls(x, bands, 5)
    BY <1>2, <1>3, <1>5, <1>10 DEF Falls, Reaches
  <2>2. Band(x, bands, otherwise) = IF 5 > Len(bands) THEN otherwise ELSE bands[5][2]
    BY <2>1, BandAt
  <2> QED BY <1>2, <1>4, <1>10, <2>2 DEF bands, Bands5
<1>11. CASE x < e
  <2>1. Falls(x, bands, 6)
    BY <1>2, <1>3, <1>5, <1>11 DEF Falls, Reaches
  <2>2. Band(x, bands, otherwise) = IF 6 > Len(bands) THEN otherwise ELSE bands[6][2]
    BY <2>1, BandAt
  <2> QED BY <1>2, <1>4, <1>11, <2>2 DEF bands, Bands5
<1> QED BY <1>6, <1>7, <1>8, <1>9, <1>10, <1>11
LEMMA RoundGrows ==
    ASSUME NEW a \in Nat, NEW b \in Nat, NEW n \in Nat \ {0}, a <= b
    PROVE  Round(a, n) \in Nat /\ Round(b, n) \in Nat /\ Round(a, n) <= Round(b, n)
<1>1. 2 * a + n \in Nat /\ 2 * b + n \in Nat /\ 2 * n \in Nat \ {0} /\ 2 * a + n <= 2 * b + n
  OBVIOUS
<1> QED BY <1>1, DivGrows DEF Round

\* Underwriting.
LEMMA FactorsOf ==
    ASSUME NEW a \in Applicant
    PROVE  /\ a.income \in Nat /\ a.months \in Nat /\ a.amount \in Nat /\ a.verified \in BOOLEAN
           /\ calculateRiskFactors(a).debtToIncomeRatio = IF a.income > 0 THEN 0 ELSE 1000
           /\ calculateRiskFactors(a).creditUtilization = 0
           /\ calculateRiskFactors(a).paymentHistory = 800
           /\ calculateRiskFactors(a).months = a.months
BY AssessmentsAssumption DEF Applicant, calculateRiskFactors, debtToIncome

LEMMA RulesOf ==
    ASSUME NEW a \in Applicant
    PROVE  LET v == (IF a.income > 0 THEN 0 ELSE 1) + (IF a.verified THEN 0 ELSE 1)
               w == IF a.months < 3 THEN 1 ELSE 0 IN
           /\ applyBusinessRules(a, calculateRiskFactors(a)).score = 1000 - 300 * v - 100 * w
           /\ applyBusinessRules(a, calculateRiskFactors(a)).passed = (v = 0)
<1> DEFINE f == calculateRiskFactors(a)
           broken == {v \in {"debt", "kyc"} : IF v = "debt" THEN f.debtToIncomeRatio > 400 ELSE ~a.verified}
           v == (IF a.income > 0 THEN 0 ELSE 1) + (IF a.verified THEN 0 ELSE 1)
           w == IF a.months < 3 THEN 1 ELSE 0
<1>1. Cardinality(broken) = v
  <2>1. Cardinality({}) = 0 /\ Cardinality({"debt"}) = 1 /\ Cardinality({"kyc"}) = 1
    BY FS_EmptySet, FS_Singleton
  <2>2. Cardinality({"debt", "kyc"}) = 2
    <3>1. IsFiniteSet({"debt"}) /\ "kyc" \notin {"debt"} /\ {"debt"} \union {"kyc"} = {"debt", "kyc"}
      BY FS_Singleton
    <3> QED BY <2>1, <3>1, FS_AddElement
  <2>3. CASE a.income > 0 /\ a.verified
    <3>1. broken = {}
      BY <2>3, FactorsOf
    <3> QED BY <2>1, <2>3, <3>1
  <2>4. CASE a.income > 0 /\ ~a.verified
    <3>1. broken = {"kyc"}
      BY <2>4, FactorsOf
    <3> QED BY <2>1, <2>4, <3>1
  <2>5. CASE ~(a.income > 0) /\ a.verified
    <3>1. broken = {"debt"}
      BY <2>5, FactorsOf
    <3> QED BY <2>1, <2>5, <3>1
  <2>6. CASE ~(a.income > 0) /\ ~a.verified
    <3>1. broken = {"debt", "kyc"}
      BY <2>6, FactorsOf
    <3> QED BY <2>2, <2>6, <3>1
  <2> QED BY <2>3, <2>4, <2>5, <2>6
<1>2. applyBusinessRules(a, f) = [score |-> AtLeast(0, 1000 - 300 * v - 100 * w), passed |-> v = 0]
  BY <1>1, FactorsOf DEF applyBusinessRules
<1>3. v \in 0 .. 2 /\ w \in 0 .. 1
  OBVIOUS
<1> HIDE DEF v, w, f
<1>4. AtLeast(0, 1000 - 300 * v - 100 * w) = 1000 - 300 * v - 100 * w
  BY <1>3 DEF AtLeast
<1> QED BY <1>2, <1>4 DEF v, w, f

LEMMA HeuristicOf ==
    ASSUME NEW a \in Applicant
    PROVE  calculateHeuristicScore(calculateRiskFactors(a))
             = AtMost(1000, (IF a.income > 0 THEN 920 ELSE 420)
                              + (IF a.months >= 25 THEN 100 ELSE IF a.months >= 6 THEN 0 ELSE -200))
<1> DEFINE f == calculateRiskFactors(a)
           byDebt == Band(-f.debtToIncomeRatio, <<<<-199, 200>>, <<-299, 100>>, <<-500, 0>>>>, -300)
           byAge == Band(f.months, <<<<25, 100>>, <<6, 0>>>>, -200)
           byUse == Band(-f.creditUtilization, <<<<-299, 100>>, <<-800, 0>>>>, -200)
           byHistory == ((f.paymentHistory - 500) * 4) \div 10
<1>1. byDebt = IF a.income > 0 THEN 200 ELSE -300
  <2>1. -f.debtToIncomeRatio \in Int /\ byDebt = Band(-f.debtToIncomeRatio, Bands3(-199, 200, -299, 100, -500, 0), -300)
    BY FactorsOf DEF Bands3
  <2>2. byDebt = IF -f.debtToIncomeRatio >= -199 THEN 200 ELSE IF -f.debtToIncomeRatio >= -299 THEN 100
                 ELSE IF -f.debtToIncomeRatio >= -500 THEN 0 ELSE -300
    BY <2>1, ThreeBands
  <2> QED BY <2>2, FactorsOf
<1>2. byAge = IF a.months >= 25 THEN 100 ELSE IF a.months >= 6 THEN 0 ELSE -200
  <2>1. byAge = Band(a.months, Bands2(25, 100, 6, 0), -200) /\ a.months \in Int
    BY FactorsOf DEF Bands2
  <2> QED BY <2>1, TwoBands
<1>3. byUse = 100
  <2>1. -f.creditUtilization = 0 /\ byUse = Band(-f.creditUtilization, Bands2(-299, 100, -800, 0), -200)
    BY FactorsOf DEF Bands2
  <2>2. byUse = IF 0 >= -299 THEN 100 ELSE IF 0 >= -800 THEN 0 ELSE -200
    BY <2>1, TwoBands
  <2> QED BY <2>2
<1>4. byHistory = 120
  BY FactorsOf
<1>5. calculateHeuristicScore(f) = AtLeast(0, AtMost(1000, 500 + byDebt + byHistory + byAge + byUse))
  BY DEF calculateHeuristicScore
<1>6. a.months \in Nat /\ a.income \in Nat
  BY FactorsOf
<1> HIDE DEF byDebt, byAge, byUse, byHistory, f
<1> QED BY <1>1, <1>2, <1>3, <1>4, <1>5, <1>6 DEF AtLeast, AtMost, f

NoWorse(a, b) == b.income >= a.income /\ (a.verified => b.verified) /\ b.months >= a.months /\ b.amount = a.amount

LEMMA ScoresMove ==
    ASSUME NEW a \in Applicant, NEW b \in Applicant, NoWorse(a, b)
    PROVE  /\ assessCreditApplication(a).score \in Nat /\ assessCreditApplication(b).score \in Nat
           /\ assessCreditApplication(b).score >= assessCreditApplication(a).score
<1> DEFINE r(x) == applyBusinessRules(x, calculateRiskFactors(x)).score
           h(x) == calculateHeuristicScore(calculateRiskFactors(x))
<1>1. r(a) \in Nat /\ r(b) \in Nat /\ r(a) <= r(b)
  BY RulesOf, FactorsOf DEF NoWorse
<1>2. h(a) \in Nat /\ h(b) \in Nat /\ h(a) <= h(b)
  BY HeuristicOf, FactorsOf DEF NoWorse, AtMost
<1>3. \A x : assessCreditApplication(x).score = (6 * r(x) + 4 * h(x)) \div 10
  BY DEF assessCreditApplication
<1> HIDE DEF r, h
<1>4. 6 * r(a) + 4 * h(a) \in Nat /\ 6 * r(b) + 4 * h(b) \in Nat /\ 6 * r(a) + 4 * h(a) <= 6 * r(b) + 4 * h(b)
  BY <1>1, <1>2
<1> QED BY <1>3, <1>4, DivGrows

\* A higher score has no dearer a rate and no smaller an amount.
LEMMA TermsMove ==
    ASSUME NEW s \in Nat, NEW t \in Nat, s <= t, NEW amount \in Nat
    PROVE  LET x == calculateRecommendedTerms(amount, s)
               y == calculateRecommendedTerms(amount, t) IN
           y.rate <= x.rate /\ x.amount \in Nat /\ y.amount \in Nat /\ y.amount >= x.amount
<1> DEFINE share(n) == Band(n, <<<<700, 10>>, <<600, 7>>>>, 5)
           rate(n) == Band(n, <<<<800, 800>>, <<700, 1200>>, <<600, 1800>>, <<500, 2500>>>>, 3500)
<1>1. \A n \in Nat : share(n) = IF n >= 700 THEN 10 ELSE IF n >= 600 THEN 7 ELSE 5
  <2>1. \A n : share(n) = Band(n, Bands2(700, 10, 600, 7), 5)
    BY DEF Bands2
  <2> HIDE DEF share
  <2> QED BY <2>1, TwoBands
<1>2. \A n \in Nat : rate(n) = IF n >= 800 THEN 800 ELSE IF n >= 700 THEN 1200 ELSE IF n >= 600 THEN 1800
                               ELSE IF n >= 500 THEN 2500 ELSE 3500
  <2>1. \A n : rate(n) = Band(n, Bands4(800, 800, 700, 1200, 600, 1800, 500, 2500), 3500)
    BY DEF Bands4
  <2> HIDE DEF rate
  <2> QED BY <2>1, FourBands
<1>3. \A n : /\ calculateRecommendedTerms(amount, n).amount = Round(amount * share(n), 10)
             /\ calculateRecommendedTerms(amount, n).rate = rate(n)
  BY DEF calculateRecommendedTerms
<1> HIDE DEF share, rate
<1>4. rate(t) <= rate(s)
  BY <1>2
<1>5. amount * share(s) \in Nat /\ amount * share(t) \in Nat /\ amount * share(s) <= amount * share(t)
  <2>1. share(s) \in {5, 7, 10} /\ share(t) \in {5, 7, 10} /\ share(s) <= share(t)
    BY <1>1
  <2> QED BY <2>1
<1>6. Round(amount * share(s), 10) \in Nat /\ Round(amount * share(t), 10) \in Nat
      /\ Round(amount * share(s), 10) <= Round(amount * share(t), 10)
  BY <1>5, RoundGrows, 10 \in Nat \ {0}
<1> QED BY <1>3, <1>4, <1>6

\* Offers.
LEMMA RatesMove ==
    ASSUME NEW s \in Nat, NEW t \in Nat, s <= t
    PROVE  /\ riskPremiums[calculateRiskGrade(s)] \in Nat /\ riskPremiums[calculateRiskGrade(t)] \in Nat
           /\ riskPremiums[calculateRiskGrade(t)] <= riskPremiums[calculateRiskGrade(s)]
<1>1. \A n : calculateRiskGrade(n) = Band(n, Bands4(800, "A", 700, "B", 600, "C", 500, "D"), "E")
  BY DEF calculateRiskGrade, Bands4
<1>2. \A n \in Nat : calculateRiskGrade(n) = IF n >= 800 THEN "A" ELSE IF n >= 700 THEN "B"
                                             ELSE IF n >= 600 THEN "C" ELSE IF n >= 500 THEN "D" ELSE "E"
  BY <1>1, FourBands
<1>3. /\ riskPremiums["A"] = 200 /\ riskPremiums["B"] = 500 /\ riskPremiums["C"] = 800
      /\ riskPremiums["D"] = 1200 /\ riskPremiums["E"] = 1800
  BY DEF riskPremiums
<1> QED BY <1>2, <1>3

LEMMA LenderFacts ==
    /\ \A p \in Lenders : /\ p.minAmount \in Nat \ {0} /\ p.least \in Nat /\ p.most \in Nat /\ p.least < p.most
                         /\ p.hours \in {4, 48}
    /\ \A p, q \in Lenders : p.id = q.id => p = q
BY SMT DEF Lenders

\* The nearer to the lender's least rate, the better the match.
RateScore(r, least, most) == AtLeast(0, 1000 - (1000 * (r - least)) \div (most - least))

LEMMA RateScoreMoves ==
    ASSUME NEW least \in Nat, NEW most \in Nat, least < most,
           NEW r1 \in Nat, NEW r2 \in Nat, least <= r2, r2 <= r1, r1 <= most
    PROVE  /\ RateScore(r1, least, most) \in Nat /\ RateScore(r2, least, most) \in Nat
           /\ RateScore(r1, least, most) <= RateScore(r2, least, most)
<1>1. PICK x \in Nat, y \in Nat, n \in Nat \ {0} : x = 1000 * (r1 - least) /\ y = 1000 * (r2 - least) /\ n = most - least
  <2>1. 1000 * (r1 - least) \in Nat /\ 1000 * (r2 - least) \in Nat /\ most - least \in Nat \ {0}
    OBVIOUS
  <2> QED BY <2>1
<1>2. y <= x
  BY <1>1
<1>3. x \div n \in Nat /\ y \div n \in Nat /\ y \div n <= x \div n
  BY <1>2, DivGrows
<1>4. RateScore(r1, least, most) = AtLeast(0, 1000 - x \div n) /\ RateScore(r2, least, most) = AtLeast(0, 1000 - y \div n)
  BY <1>1 DEF RateScore
<1> QED BY <1>3, <1>4 DEF AtLeast

LEMMA MatchingMoves ==
    ASSUME NEW p \in Lenders, NEW ask, ask.amount \in Nat \ {0},
           NEW r1 \in Nat, NEW r2 \in Nat, p.least <= r2, r2 <= r1, r1 <= p.most,
           NEW x \in Nat, NEW y \in Nat, x <= y
    PROVE  calculateMatchingScore(p, ask, r1, x) <= calculateMatchingScore(p, ask, r2, y)
<1> DEFINE part(z) == (1000 * z) \div ask.amount
           rate(r) == AtLeast(0, 1000 - (1000 * (r - p.least)) \div (p.most - p.least))
           speed == AtLeast(0, 1000 - (1000 * (p.hours - 1)) \div 168)
           whole(z, r) == 25 * 1000 + 15 * part(z) + 25 * rate(r) + 10 * speed + 10 * 800
<1>1. part(x) \in Nat /\ part(y) \in Nat /\ part(x) <= part(y)
  <2>1. 1000 * x \in Nat /\ 1000 * y \in Nat /\ 1000 * x <= 1000 * y
    OBVIOUS
  <2> QED BY <2>1, DivGrows
<1>2. rate(r1) \in Nat /\ rate(r2) \in Nat /\ rate(r1) <= rate(r2)
  <2>1. p.least \in Nat /\ p.most \in Nat /\ p.least < p.most
    BY LenderFacts
  <2>2. rate(r1) = RateScore(r1, p.least, p.most) /\ rate(r2) = RateScore(r2, p.least, p.most)
    BY DEF RateScore
  <2> HIDE DEF rate
  <2> QED BY <2>1, <2>2, RateScoreMoves
<1>3. speed \in Nat
  <2>1. (1000 * (p.hours - 1)) \div 168 \in Int
    BY LenderFacts
  <2> QED BY <2>1 DEF AtLeast
<1>4. \A r, z : calculateMatchingScore(p, ask, r, z) = Round(whole(z, r), 850)
  BY DEF calculateMatchingScore
<1> HIDE DEF part, rate, speed
<1>5. whole(x, r1) \in Nat /\ whole(y, r2) \in Nat /\ whole(x, r1) <= whole(y, r2)
  BY <1>1, <1>2, <1>3
<1> HIDE DEF whole
<1> QED BY <1>4, <1>5, RoundGrows, 850 \in Nat \ {0}

\* Each lender has at most one offer for an application, so offers of one lender can be compared.
LEMMA OffersMove ==
    ASSUME NEW a \in Applicant, NEW b \in Applicant, NoWorse(a, b), NEW months,
           NEW o \in generateOffers([amount |-> b.amount, months |-> months], assessCreditApplication(b)),
           NEW w \in generateOffers([amount |-> a.amount, months |-> months], assessCreditApplication(a)),
           o.lender = w.lender
    PROVE  o.rate <= w.rate /\ o.score >= w.score
<1> DEFINE ask == [amount |-> a.amount, months |-> months]
           A == assessCreditApplication(a)
           B == assessCreditApplication(b)
           rate(p, s) == AtLeast(p.least, AtMost(p.most, BaseRate + riskPremiums[s.grade]))
           amount(s) == AtMost(ask.amount, s.terms.amount)
<1>1. A.score \in Nat /\ B.score \in Nat /\ A.score <= B.score
  BY ScoresMove
<1>2. /\ A.grade = calculateRiskGrade(A.score) /\ B.grade = calculateRiskGrade(B.score)
      /\ A.terms = calculateRecommendedTerms(a.amount, A.score)
      /\ B.terms = calculateRecommendedTerms(a.amount, B.score)
  BY DEF assessCreditApplication, NoWorse
<1>3. ask = [amount |-> b.amount, months |-> months] /\ ask.amount = a.amount /\ a.amount \in Nat
  BY FactorsOf DEF NoWorse
<1>4. PICK p \in filterCompatibleProviders(ask, B) : o = generateSingleOffer(p, ask, B)
  BY <1>3 DEF generateOffers
<1>5. PICK q \in filterCompatibleProviders(ask, A) : w = generateSingleOffer(q, ask, A)
  BY DEF generateOffers
<1>6. p \in Lenders /\ p = q /\ ask.amount >= p.minAmount
  <2>1. p \in Lenders /\ q \in Lenders /\ ask.amount >= p.minAmount
    BY DEF filterCompatibleProviders
  <2>2. o.lender = p.id /\ w.lender = q.id
    BY <1>4, <1>5 DEF generateSingleOffer
  <2>3. \A x, y \in Lenders : x.id = y.id => x = y
    BY LenderFacts
  <2> QED BY <2>1, <2>2, <2>3
<1>7. ask.amount \in Nat \ {0}
  BY <1>3, <1>6, LenderFacts
<1>8. /\ o.rate = rate(p, B) /\ w.rate = rate(p, A)
      /\ o.score = calculateMatchingScore(p, ask, rate(p, B), amount(B))
      /\ w.score = calculateMatchingScore(p, ask, rate(p, A), amount(A))
  BY <1>4, <1>5, <1>6 DEF generateSingleOffer
<1>9. /\ rate(p, A) \in Nat /\ rate(p, B) \in Nat /\ p.least <= rate(p, B)
      /\ rate(p, B) <= rate(p, A) /\ rate(p, A) <= p.most
  <2>1. p.least \in Nat /\ p.most \in Nat /\ p.least <= p.most
    BY <1>6, LenderFacts
  <2>2. /\ riskPremiums[A.grade] \in Nat /\ riskPremiums[B.grade] \in Nat
        /\ riskPremiums[B.grade] <= riskPremiums[A.grade]
    BY <1>1, <1>2, RatesMove
  <2> HIDE DEF A, B
  <2> QED BY <2>1, <2>2 DEF AtLeast, AtMost, BaseRate
<1>10. amount(A) \in Nat /\ amount(B) \in Nat /\ amount(A) <= amount(B)
  <2>1. A.terms.amount \in Nat /\ B.terms.amount \in Nat /\ A.terms.amount <= B.terms.amount
    BY <1>1, <1>2, <1>3, TermsMove
  <2> HIDE DEF A, B
  <2> QED BY <2>1, <1>7 DEF AtMost
<1> HIDE DEF A, B, rate, amount, ask
<1> QED BY <1>6, <1>7, <1>8, <1>9, <1>10, MatchingMoves

\* The risk engine.
LEMMA IncomeMoves ==
    ASSUME NEW a, NEW b, b.employment = a.employment, b.income = a.income, a.income \in Nat,
           a.duration \in Nat, b.duration \in Nat, b.duration >= a.duration
    PROVE  /\ calculateIncomeStability(a) \in Nat /\ calculateIncomeStability(b) \in Nat
           /\ calculateIncomeStability(a) <= calculateIncomeStability(b)
<1> DEFINE job == CASE a.employment = "employed" -> 80 [] a.employment = "self_employed" -> 60
                    [] a.employment = "retired" -> 70 [] OTHER -> 20
           years(n) == Band(n, Bands3(24, 20, 12, 10, 6, 5), 0)
           pay == Band(a.income, Bands2(10000, 10, 5000, 5), 0)
<1>1. job \in Nat
  OBVIOUS
<1>2. \A n \in Nat : years(n) = IF n >= 24 THEN 20 ELSE IF n >= 12 THEN 10 ELSE IF n >= 6 THEN 5 ELSE 0
  BY ThreeBands
<1>3. pay \in Nat
  <2>1. pay = IF a.income >= 10000 THEN 10 ELSE IF a.income >= 5000 THEN 5 ELSE 0
    BY TwoBands
  <2> QED BY <2>1
<1>4. /\ calculateIncomeStability(a) = AtMost(100, job + years(a.duration) + pay)
      /\ calculateIncomeStability(b) = AtMost(100, job + years(b.duration) + pay)
  BY DEF calculateIncomeStability, Bands2, Bands3
<1> HIDE DEF job, years, pay
<1> QED BY <1>1, <1>2, <1>3, <1>4 DEF AtMost

LEMMA DebtMoves ==
    ASSUME NEW d \in Nat, NEW e \in Nat, e <= d
    PROVE  calculateDTIScore(d) \in Nat /\ calculateDTIScore(e) \in Nat /\ calculateDTIScore(d) <= calculateDTIScore(e)
<1>1. \A n : calculateDTIScore(n) = Band(-n, Bands5(-200, 100, -300, 80, -400, 60, -500, 40, -600, 20), 0)
  BY DEF calculateDTIScore, Bands5
<1>2. \A n \in Int : Band(n, Bands5(-200, 100, -300, 80, -400, 60, -500, 40, -600, 20), 0)
          = IF n >= -200 THEN 100 ELSE IF n >= -300 THEN 80 ELSE IF n >= -400 THEN 60
            ELSE IF n >= -500 THEN 40 ELSE IF n >= -600 THEN 20 ELSE 0
  BY FiveBands
<1>3. -d \in Int /\ -e \in Int /\ -d <= -e
  OBVIOUS
<1> QED BY <1>1, <1>2, <1>3

LEMMA EmploymentMoves ==
    ASSUME NEW a, NEW b, b.employment = a.employment,
           a.duration \in Nat, b.duration \in Nat, b.duration >= a.duration
    PROVE  /\ calculateEmploymentStability(a) \in Nat /\ calculateEmploymentStability(b) \in Nat
           /\ calculateEmploymentStability(a) <= calculateEmploymentStability(b)
<1> DEFINE stay(n) == Band(n, Bands4(36, 100, 24, 80, 12, 60, 6, 40), 20)
<1>1. \A n \in Nat : stay(n) = IF n >= 36 THEN 100 ELSE IF n >= 24 THEN 80 ELSE IF n >= 12 THEN 60
                               ELSE IF n >= 6 THEN 40 ELSE 20
  BY FourBands
<1>2. \A x : calculateEmploymentStability(x) = CASE x.employment = "unemployed" -> 0 [] x.employment = "retired" -> 70
                                                 [] OTHER -> stay(x.duration)
  BY DEF calculateEmploymentStability, Bands4
<1> HIDE DEF stay
<1> QED BY <1>1, <1>2

Business == [years : Nat, revenue : Nat, employees : Nat]

LEMMA BusinessScoreMoves ==
    ASSUME NEW c \in Business, NEW d \in Business, \A f \in DOMAIN d : d[f] >= c[f]
    PROVE  /\ calculateBusinessScore(c) \in Nat /\ calculateBusinessScore(d) \in Nat
           /\ calculateBusinessScore(c) <= calculateBusinessScore(d)
<1> DEFINE years(n) == Band(n, Bands3(5, 40, 3, 30, 1, 20), 10)
           revenue(n) == Band(n, Bands4(1000000, 30, 500000, 25, 100000, 20, 50000, 15), 10)
           staff(n) == Band(n, Bands4(50, 30, 10, 25, 5, 20, 1, 15), 10)
<1>1. \A n \in Nat : years(n) = IF n >= 5 THEN 40 ELSE IF n >= 3 THEN 30 ELSE IF n >= 1 THEN 20 ELSE 10
  BY ThreeBands
<1>2. \A n \in Nat : revenue(n) = IF n >= 1000000 THEN 30 ELSE IF n >= 500000 THEN 25 ELSE IF n >= 100000 THEN 20
                                  ELSE IF n >= 50000 THEN 15 ELSE 10
  BY FourBands
<1>3. \A n \in Nat : staff(n) = IF n >= 50 THEN 30 ELSE IF n >= 10 THEN 25 ELSE IF n >= 5 THEN 20
                                ELSE IF n >= 1 THEN 15 ELSE 10
  BY FourBands
<1>4. \A x : calculateBusinessScore(x) = years(x.years) + revenue(x.revenue) + staff(x.employees)
  BY DEF calculateBusinessScore, Bands3, Bands4
<1>5. /\ c.years \in Nat /\ c.revenue \in Nat /\ c.employees \in Nat
      /\ d.years \in Nat /\ d.revenue \in Nat /\ d.employees \in Nat
      /\ d.years >= c.years /\ d.revenue >= c.revenue /\ d.employees >= c.employees
  BY DEF Business
<1> HIDE DEF years, revenue, staff
<1>6. years(c.years) \in Nat /\ years(d.years) \in Nat /\ years(c.years) <= years(d.years)
  BY <1>1, <1>5
<1>7. revenue(c.revenue) \in Nat /\ revenue(d.revenue) \in Nat /\ revenue(c.revenue) <= revenue(d.revenue)
  BY <1>2, <1>5
<1>8. staff(c.employees) \in Nat /\ staff(d.employees) \in Nat /\ staff(c.employees) <= staff(d.employees)
  BY <1>3, <1>5
<1> QED BY <1>4, <1>6, <1>7, <1>8

LEMMA BusinessMoves ==
    ASSUME NEW a, NEW b, a.business \in Business \union {NoBusiness}, b.business \in Business,
           \A f \in DOMAIN b.business : b.business[f] >= a.business[f]
    PROVE  BusinessPoints(a) \in Nat /\ BusinessPoints(b) \in Nat /\ BusinessPoints(a) <= BusinessPoints(b)
<1>1. BusinessPoints(b) = calculateBusinessScore(b.business) /\ calculateBusinessScore(b.business) \in Nat
  <2>1. b.business.years \in Nat
    BY DEF Business
  <2>2. \A f \in DOMAIN b.business : b.business[f] >= b.business[f]
    BY DEF Business
  <2> QED BY <2>1, <2>2, BusinessScoreMoves DEF BusinessPoints
<1>2. CASE a.business = NoBusiness
  <2>1. BusinessPoints(a) = 0
    BY <1>2 DEF NoBusiness, BusinessPoints
  <2> QED BY <1>1, <2>1
<1>3. CASE a.business \in Business
  <2>1. a.business.years \in Nat
    BY <1>3 DEF Business
  <2>2. BusinessPoints(a) = calculateBusinessScore(a.business)
    BY <2>1 DEF BusinessPoints
  <2> QED BY <1>1, <1>3, <2>2, BusinessScoreMoves
<1> QED BY <1>2, <1>3

\* What may be better of an application while the rest stays.
Fields(a) == /\ a.history \in Nat /\ a.duration \in Nat /\ a.debt \in Nat /\ a.income \in Nat /\ a.amount \in Nat
             /\ a.months \in Nat /\ a.age \in Nat
NoRiskier(a, b) ==
    /\ b.employment = a.employment /\ b.income = a.income /\ b.age = a.age /\ b.amount = a.amount /\ b.months = a.months
    /\ b.history >= a.history /\ b.duration >= a.duration /\ b.debt <= a.debt
    /\ a.business \in Business \union {NoBusiness} /\ b.business \in Business
    /\ \A f \in DOMAIN b.business : b.business[f] >= a.business[f]

LEMMA RiskScoreMoves ==
    ASSUME NEW a, NEW b, Fields(a), Fields(b), NoRiskier(a, b)
    PROVE  /\ calculateRiskScore(a) \in Nat /\ calculateRiskScore(b) \in Nat
           /\ calculateRiskScore(a) <= calculateRiskScore(b)
<1> DEFINE whole(x) == 340 * 500 + 16 * AtMost(x.history, 850) + 85 * calculateIncomeStability(x)
                       + 68 * calculateDTIScore(x.debt) + 34 * calculateEmploymentStability(x)
                       + 17 * BusinessPoints(x) + 340 * calculateAgeScore(x.age)
<1>1. /\ AtMost(a.history, 850) \in Nat /\ AtMost(b.history, 850) \in Nat
      /\ AtMost(a.history, 850) <= AtMost(b.history, 850)
  BY DEF Fields, NoRiskier, AtMost
<1>2. /\ calculateIncomeStability(a) \in Nat /\ calculateIncomeStability(b) \in Nat
      /\ calculateIncomeStability(a) <= calculateIncomeStability(b)
  BY IncomeMoves DEF Fields, NoRiskier
<1>3. /\ calculateDTIScore(a.debt) \in Nat /\ calculateDTIScore(b.debt) \in Nat
      /\ calculateDTIScore(a.debt) <= calculateDTIScore(b.debt)
  BY DebtMoves DEF Fields, NoRiskier
<1>4. /\ calculateEmploymentStability(a) \in Nat /\ calculateEmploymentStability(b) \in Nat
      /\ calculateEmploymentStability(a) <= calculateEmploymentStability(b)
  BY EmploymentMoves DEF Fields, NoRiskier
<1>5. BusinessPoints(a) \in Nat /\ BusinessPoints(b) \in Nat /\ BusinessPoints(a) <= BusinessPoints(b)
  BY BusinessMoves DEF NoRiskier
<1>6. calculateAgeScore(b.age) = calculateAgeScore(a.age) /\ calculateAgeScore(a.age) \in Nat
  BY DEF NoRiskier, calculateAgeScore
<1>7. whole(a) \in Nat /\ whole(b) \in Nat /\ whole(a) <= whole(b)
  BY <1>1, <1>2, <1>3, <1>4, <1>5, <1>6
<1>8. \A x : calculateRiskScore(x) = AtMost(1000, Round(whole(x), 340))
  BY DEF calculateRiskScore
<1> HIDE DEF whole
<1>9. Round(whole(a), 340) \in Nat /\ Round(whole(b), 340) \in Nat /\ Round(whole(a), 340) <= Round(whole(b), 340)
  BY <1>7, RoundGrows, 340 \in Nat \ {0}
<1> QED BY <1>8, <1>9 DEF AtMost

LEMMA RiskMoves ==
    ASSUME NEW a, NEW b, Fields(a), Fields(b), NoRiskier(a, b)
    PROVE  LET x == assessCreditRisk(a)
               y == assessCreditRisk(b) IN
           y.score >= x.score /\ y.rate <= x.rate /\ y.amount >= x.amount
<1> DEFINE s == calculateRiskScore(a)
           t == calculateRiskScore(b)
           share(n) == Band(n, Bands5(700, 10, 600, 8, 500, 6, 400, 4, 300, 2), 0)
           rate(n) == Band(n, Bands5(700, 800, 600, 1200, 500, 1600, 400, 2000, 300, 2400), 3000)
           long == Band(a.months, Bands2(37, 200, 25, 100), 0)
<1>1. s \in Nat /\ t \in Nat /\ s <= t
  BY RiskScoreMoves
<1>2. \A n \in Nat : share(n) = IF n >= 700 THEN 10 ELSE IF n >= 600 THEN 8 ELSE IF n >= 500 THEN 6
                                ELSE IF n >= 400 THEN 4 ELSE IF n >= 300 THEN 2 ELSE 0
  BY FiveBands
<1>3. \A n \in Nat : rate(n) = IF n >= 700 THEN 800 ELSE IF n >= 600 THEN 1200 ELSE IF n >= 500 THEN 1600
                               ELSE IF n >= 400 THEN 2000 ELSE IF n >= 300 THEN 2400 ELSE 3000
  BY FiveBands
<1>4. long \in Nat
  <2>1. a.months \in Nat
    BY DEF Fields
  <2>2. long = IF a.months >= 37 THEN 200 ELSE IF a.months >= 25 THEN 100 ELSE 0
    BY <2>1, TwoBands
  <2> QED BY <2>2
<1>5. /\ assessCreditRisk(a).score = s /\ assessCreditRisk(b).score = t
      /\ assessCreditRisk(a).rate = rate(s) + long /\ assessCreditRisk(b).rate = rate(t) + long
      /\ assessCreditRisk(a).amount = AtMost(Round(a.amount * share(s), 10), 5 * a.income)
      /\ assessCreditRisk(b).amount = AtMost(Round(a.amount * share(t), 10), 5 * a.income)
  BY DEF assessCreditRisk, calculateInterestRate, calculateMaxApprovedAmount, NoRiskier, Bands2, Bands5
<1>6. a.amount \in Nat /\ a.income \in Nat
  BY DEF Fields
<1> HIDE DEF s, t, share, rate, long
<1>7. rate(s) \in Nat /\ rate(t) \in Nat /\ rate(t) <= rate(s)
  BY <1>1, <1>3
<1>8. a.amount * share(s) \in Nat /\ a.amount * share(t) \in Nat /\ a.amount * share(s) <= a.amount * share(t)
  <2>1. share(s) \in {0, 2, 4, 6, 8, 10} /\ share(t) \in {0, 2, 4, 6, 8, 10} /\ share(s) <= share(t)
    BY <1>1, <1>2
  <2> QED BY <1>6, <2>1
<1>9. /\ Round(a.amount * share(s), 10) \in Nat /\ Round(a.amount * share(t), 10) \in Nat
      /\ Round(a.amount * share(s), 10) <= Round(a.amount * share(t), 10)
  BY <1>8, RoundGrows, 10 \in Nat \ {0}
<1> QED BY <1>1, <1>4, <1>5, <1>6, <1>7, <1>9 DEF AtMost

\* The estimated rate.
LEMMA EstimateMoves ==
    ASSUME NEW s \in Nat, NEW t \in Nat, s <= t, NEW debt \in Nat, NEW cover \in Nat
    PROVE  EstimatedRate(t, debt, cover) <= EstimatedRate(s, debt, cover)
<1> DEFINE base(n) == Band(n, Bands4(750, 650, 700, 850, 650, 1200, 600, 1800), 2500)
           owed == Band(debt, Bands2(401, 300, 301, 150), 0)
           covered == Band(cover, Bands2(1200, 200, 1000, 100), 0)
<1>1. \A n \in Nat : base(n) = IF n >= 750 THEN 650 ELSE IF n >= 700 THEN 850 ELSE IF n >= 650 THEN 1200
                               ELSE IF n >= 600 THEN 1800 ELSE 2500
  BY FourBands
<1>2. owed \in Int
  <2>1. owed = IF debt >= 401 THEN 300 ELSE IF debt >= 301 THEN 150 ELSE 0
    BY TwoBands
  <2> QED BY <2>1
<1>3. covered \in Int
  <2>1. covered = IF cover >= 1200 THEN 200 ELSE IF cover >= 1000 THEN 100 ELSE 0
    BY TwoBands
  <2> QED BY <2>1
<1>4. \A n : EstimatedRate(n, debt, cover) = AtLeast(300, AtMost(5000, base(n) + owed - covered))
  BY DEF EstimatedRate, Bands2, Bands4
<1> HIDE DEF base, owed, covered
<1>5. base(s) \in Nat /\ base(t) \in Nat /\ base(t) <= base(s)
  BY <1>1
<1> QED BY <1>2, <1>3, <1>4, <1>5 DEF AtLeast, AtMost

\* The compliance engine.
LEMMA DocumentsAreFinite == IsFiniteSet(Documents)
<1> DEFINE dated(t) == [type |-> t, inDate |-> TRUE]
           stale(t) == [type |-> t, inDate |-> FALSE]
           of(t) == {dated(t)} \union {stale(t)}
<1>1. \A t : IsFiniteSet(of(t))
  <2> SUFFICES ASSUME NEW t PROVE IsFiniteSet(of(t))
    OBVIOUS
  <2>1. IsFiniteSet({dated(t)}) /\ IsFiniteSet({stale(t)})
    BY FS_Singleton
  <2> HIDE DEF dated, stale
  <2> QED BY <2>1, FS_Union
<1>2. Documents = (of("passport") \union of("utility_bill")) \union of("national_id")
  <2>1. ASSUME NEW d \in Documents PROVE d \in of("passport") \/ d \in of("utility_bill") \/ d \in of("national_id")
    <3>1. PICK t \in {"passport", "utility_bill", "national_id"}, f \in BOOLEAN : d = [type |-> t, inDate |-> f]
      BY DEF Documents
    <3>2. d \in of(t)
      BY <3>1
    <3> HIDE DEF of
    <3> QED BY <3>2
  <2>2. ASSUME NEW t \in {"passport", "utility_bill", "national_id"}, NEW d \in of(t) PROVE d \in Documents
    <3>1. PICK f \in BOOLEAN : d = [type |-> t, inDate |-> f]
      OBVIOUS
    <3> QED BY <3>1 DEF Documents
  <2> HIDE DEF of
  <2> QED BY <2>1, <2>2
<1> HIDE DEF of
<1>3. IsFiniteSet(of("passport") \union of("utility_bill"))
  BY <1>1, FS_Union
<1> QED BY <1>1, <1>2, <1>3, FS_Union

\* A utility bill alone is worth 80 points of 100, whatever else was shown.
LEMMA BillsCount ==
    ASSUME NEW docs \in SUBSET Documents, NEW d \in docs, d.type = "utility_bill"
    PROVE  verifyDocuments(docs) >= 80 /\ verifyDocuments(docs) \in Nat
<1> DEFINE points(e) == IF e.type \in {"utility_bill", "bank_statement"} \/ e.inDate THEN 80 ELSE 60
           good == {e \in docs : points(e) = 80}
           fair == {e \in docs : points(e) = 60}
<1>1. IsFiniteSet(good) /\ IsFiniteSet(fair)
  BY DocumentsAreFinite, FS_Subset
<1>2. d \in good
  OBVIOUS
<1>3. verifyDocuments(docs) = AtMost(100, 80 * Cardinality(good) + 60 * Cardinality(fair))
  BY DEF verifyDocuments
<1> HIDE DEF good, fair
<1>4. Cardinality(good) \in Nat /\ Cardinality(fair) \in Nat /\ Cardinality(good) # 0
  BY <1>1, <1>2, FS_CardinalityType, FS_EmptySet
<1> QED BY <1>3, <1>4 DEF AtMost

LEMMA ComplianceIs ==
    ASSUME NEW p \in Person, NEW docs \in SUBSET Documents
    PROVE  processKYCApplication(p, docs).overall = "compliant"
             <=> {"passport", "utility_bill"} \subseteq {d.type : d \in docs} /\ ~p.listed
<1> DEFINE kyc == verifyKYC(docs)
           aml == performAMLCheck(p)
<1>1. processKYCApplication(p, docs).overall = calculateOverallStatus(kyc, aml.status)
  BY DEF processKYCApplication
<1>2. aml.status = IF p.listed THEN "hit" ELSE "clean"
  BY DEF performAMLCheck
<1>3. p.listed \in BOOLEAN
  BY DEF Person
<1>4. calculateOverallStatus(kyc, aml.status) = "compliant" <=> kyc = "approved" /\ aml.status = "clean"
  BY DEF calculateOverallStatus
<1>5. kyc = "approved" <=> {"passport", "utility_bill"} \subseteq {d.type : d \in docs}
  <2>1. CASE \E t \in {"passport", "utility_bill"} : \A d \in docs : d.type # t
    <3>1. kyc = "pending"
      BY <2>1 DEF verifyKYC
    <3> QED BY <2>1, <3>1
  <2>2. CASE ~\E t \in {"passport", "utility_bill"} : \A d \in docs : d.type # t
    <3>1. \A t \in {"passport", "utility_bill"} : \E d \in docs : d.type = t
      BY <2>2
    <3>2. PICK d \in docs : d.type = "utility_bill"
      BY <3>1
    <3>3. verifyDocuments(docs) >= 80 /\ verifyDocuments(docs) \in Nat
      BY <3>2, BillsCount
    <3>4. kyc = Band(verifyDocuments(docs), Bands2(80, "approved", 60, "in_progress"), "rejected")
      BY <2>2 DEF verifyKYC, Bands2
    <3>5. kyc = "approved"
      BY <3>3, <3>4, TwoBands
    <3> QED BY <3>1, <3>5
  <2> QED BY <2>1, <2>2
<1> HIDE DEF kyc, aml
<1> QED BY <1>1, <1>2, <1>3, <1>4, <1>5

\* What is asked.
Asked ==
    \/ question \in {OnChain, Nobody}
    \/ \E a \in Applicant, months \in Terms : question = [of |-> "underwriting", applicant |-> a, term |-> months]
    \/ \E a \in RiskApplication : question = [of |-> "risk", applicant |-> a]
    \/ \E p \in Person, docs \in SUBSET Documents : question = [of |-> "compliance", person |-> p, docs |-> docs]
    \/ \E score \in CreditScores, debt \in DebtShares, cover \in {0, 1000, 1200} :
           question = [of |-> "rate", score |-> score, debt |-> debt, cover |-> cover]

LEMMA AskedHolds == ScoringSpec => []Asked
<1>1. ScoringInit => Asked
  BY DEF ScoringInit, Asked
<1>2. Asked /\ [ScoringNext]_ScoringVars => Asked'
  <2> SUFFICES ASSUME Asked, [ScoringNext]_ScoringVars PROVE Asked'
    OBVIOUS
  <2>1. CASE UNCHANGED question
    BY <2>1 DEF Asked
  <2>2. CASE AskCompliance
    BY <2>2 DEF AskCompliance, Asked
  <2>3. CASE AskRate
    BY <2>3 DEF AskRate, Asked
  <2>4. CASE AskUnderwriting
    BY <2>4 DEF AskUnderwriting, Asked
  <2>5. CASE AskRisk
    BY <2>5 DEF AskRisk, Asked
  <2>6. CASE question' = Nobody
    BY <2>6 DEF Asked
  <2> QED BY <2>1, <2>2, <2>3, <2>4, <2>5, <2>6 DEF ScoringNext, ScoringVars, AssessmentsNext
<1> QED BY <1>1, <1>2, PTL DEF ScoringSpec

\* For any applicants, amounts, terms, histories and businesses, and through every band, cap and
\* rounding: whoever is as good or better in everything is scored no lower by underwriting and by the
\* risk engine, charged no more, granted no less, and offered no dearer and no worse a match by the
\* same lender.
THEOREM BetterFareNoWorse == ScoringSpec => []BetterIsNeverWorse
<1>1. Asked => BetterIsNeverWorse
  <2> SUFFICES ASSUME Asked PROVE BetterIsNeverWorse
    OBVIOUS
  <2>1. ASSUME question.of = "underwriting", NEW b \in Applicant, NoWorse(question.applicant, b)
        PROVE  LET a == question.applicant
                   worse == assessCreditApplication(a)
                   better == assessCreditApplication(b)
                   offers(x, s) == generateOffers([amount |-> x.amount, months |-> question.term], s) IN
               /\ better.score >= worse.score
               /\ better.terms.rate <= worse.terms.rate /\ better.terms.amount >= worse.terms.amount
               /\ \A o \in offers(b, better), w \in offers(a, worse) :
                     o.lender = w.lender => o.rate <= w.rate /\ o.score >= w.score
    <3> DEFINE a == question.applicant
               A == assessCreditApplication(a)
               B == assessCreditApplication(b)
    <3>1. a \in Applicant
      BY <2>1 DEF Asked, OnChain, Nobody
    <3>2. A.score \in Nat /\ B.score \in Nat /\ A.score <= B.score
      BY <2>1, <3>1, ScoresMove
    <3>3. /\ A.terms = calculateRecommendedTerms(a.amount, A.score)
          /\ B.terms = calculateRecommendedTerms(a.amount, B.score)
      BY <2>1 DEF assessCreditApplication, NoWorse
    <3>4. a.amount \in Nat
      BY <3>1, FactorsOf
    <3>5. B.terms.rate <= A.terms.rate /\ B.terms.amount >= A.terms.amount
      BY <3>2, <3>3, <3>4, TermsMove
    <3>6. ASSUME NEW o \in generateOffers([amount |-> b.amount, months |-> question.term], B),
                 NEW w \in generateOffers([amount |-> a.amount, months |-> question.term], A), o.lender = w.lender
          PROVE  o.rate <= w.rate /\ o.score >= w.score
      BY <2>1, <3>1, <3>6, OffersMove
    <3> QED BY <3>2, <3>5, <3>6
  <2>2. ASSUME question.of = "risk", NEW history \in CreditScores, NEW duration \in JobDurations,
               NEW debt \in DebtShares, NEW business \in Businesses,
               history >= question.applicant.history, duration >= question.applicant.duration,
               debt <= question.applicant.debt,
               \A f \in DOMAIN business : business[f] >= question.applicant.business[f]
        PROVE  LET worse == assessCreditRisk(question.applicant)
                   better == assessCreditRisk([question.applicant EXCEPT !.history = history, !.duration = duration,
                                                                         !.debt = debt, !.business = business]) IN
               better.score >= worse.score /\ better.rate <= worse.rate /\ better.amount >= worse.amount
    <3> DEFINE a == question.applicant
               b == [a EXCEPT !.history = history, !.duration = duration, !.debt = debt, !.business = business]
    <3>1. a \in RiskApplication
      BY <2>2 DEF Asked, OnChain, Nobody
    <3>2. /\ b.history = history /\ b.duration = duration /\ b.debt = debt /\ b.business = business
          /\ b.employment = a.employment /\ b.income = a.income /\ b.age = a.age /\ b.amount = a.amount
          /\ b.months = a.months
      BY <3>1 DEF RiskApplication
    <3>3. Fields(a)
      BY <3>1, AssessmentsAssumption DEF RiskApplication, Fields
    <3>4. Fields(b)
      BY <3>2, <3>3, AssessmentsAssumption DEF Fields
    <3>5. a.business \in Business \union {NoBusiness} /\ business \in Business
      BY <3>1, AssessmentsAssumption DEF RiskApplication, Business
    <3> HIDE DEF a, b
    <3>6. NoRiskier(a, b)
      BY <2>2, <3>2, <3>5 DEF NoRiskier, a
    <3>7. LET x == assessCreditRisk(a) y == assessCreditRisk(b) IN
          y.score >= x.score /\ y.rate <= x.rate /\ y.amount >= x.amount
      BY <3>3, <3>4, <3>6, RiskMoves
    <3> QED BY <3>7 DEF a, b
  <2>3. ASSUME question.of = "rate", NEW score \in CreditScores, score >= question.score
        PROVE  EstimatedRate(score, question.debt, question.cover)
                 <= EstimatedRate(question.score, question.debt, question.cover)
    <3>1. question.score \in Nat /\ question.debt \in Nat /\ question.cover \in Nat /\ score \in Nat
      BY <2>3, AssessmentsAssumption DEF Asked, OnChain, Nobody
    <3> QED BY <2>3, <3>1, EstimateMoves
  <2>4. question.of = "underwriting" => LET a == question.applicant worse == assessCreditApplication(a) IN
          \A b \in Applicant :
            LET better == assessCreditApplication(b)
                offers(x, s) == generateOffers([amount |-> x.amount, months |-> question.term], s) IN
            (b.income >= a.income /\ (a.verified => b.verified) /\ b.months >= a.months /\ b.amount = a.amount)
              => /\ better.score >= worse.score
                 /\ better.terms.rate <= worse.terms.rate /\ better.terms.amount >= worse.terms.amount
                 /\ \A o \in offers(b, better), w \in offers(a, worse) :
                       o.lender = w.lender => o.rate <= w.rate /\ o.score >= w.score
    BY <2>1 DEF NoWorse
  <2> QED BY <2>2, <2>3, <2>4 DEF BetterIsNeverWorse
<1> QED BY <1>1, AskedHolds, PTL

\* For anybody and any set of documents: compliant is exactly whoever has shown a passport and a
\* utility bill and is on no list, however the points of the documents add up.
THEOREM CompliantAreDocumented == ScoringSpec => []CompliantIsDocumented
<1>1. Asked => CompliantIsDocumented
  <2> SUFFICES ASSUME Asked, question.of = "compliance"
               PROVE  processKYCApplication(question.person, question.docs).overall = "compliant"
                        <=> /\ {"passport", "utility_bill"} \subseteq {d.type : d \in question.docs}
                            /\ ~question.person.listed
    BY DEF CompliantIsDocumented
  <2>1. question.person \in Person /\ question.docs \in SUBSET Documents
    BY DEF Asked, OnChain, Nobody
  <2> QED BY <2>1, ComplianceIs
<1> QED BY <1>1, AskedHolds, PTL

-----------------------------------------------------------------------------
\* The protocol.

\* What a user holds of the tokens, and one entry of it set.
Holdings == [Users -> [Tokens -> Info]]
EntrySet(m, n, u, t, amount, locked) ==
    /\ n \in Holdings
    /\ n[u][t].amount = amount /\ n[u][t].lockedAmount = locked
    /\ \A v \in Users, s \in Tokens : ~(v = u /\ s = t) => n[v][s] = m[v][s]

LEMMA HoldingFields ==
    ASSUME NEW m \in Holdings, NEW u \in Users, NEW t \in Tokens
    PROVE  m[u][t] \in Info /\ m[u][t].amount \in Nat /\ m[u][t].lockedAmount \in Nat
BY DEF Holdings, Info

LEMMA EntryIsSet ==
    ASSUME NEW m \in Holdings, NEW u \in Users, NEW t \in Tokens, NEW i \in Info, NEW n,
           n = [m EXCEPT ![u][t] = i]
    PROVE  EntrySet(m, n, u, t, i.amount, i.lockedAmount)
<1>1. n[u][t] = i /\ \A v \in Users, s \in Tokens : ~(v = u /\ s = t) => n[v][s] = m[v][s]
  BY DEF Holdings
<1>2. n \in Holdings
  BY DEF Holdings
<1> QED BY <1>1, <1>2 DEF EntrySet

LEMMA AmountIsSet ==
    ASSUME NEW m \in Holdings, NEW u \in Users, NEW t \in Tokens, NEW x \in Nat, NEW n,
           n = [m EXCEPT ![u][t].amount = x]
    PROVE  EntrySet(m, n, u, t, x, m[u][t].lockedAmount)
<1>1. PICK i : i = [m[u][t] EXCEPT !.amount = x]
  OBVIOUS
<1>2. i \in Info /\ i.amount = x /\ i.lockedAmount = m[u][t].lockedAmount
  BY <1>1, HoldingFields DEF Info
<1>3. n = [m EXCEPT ![u][t] = i]
  BY <1>1 DEF Holdings
<1> QED BY <1>2, <1>3, EntryIsSet

LEMMA LockedIsSet ==
    ASSUME NEW m \in Holdings, NEW u \in Users, NEW t \in Tokens, NEW x \in Nat, NEW n,
           n = [m EXCEPT ![u][t].lockedAmount = x]
    PROVE  EntrySet(m, n, u, t, m[u][t].amount, x)
<1>1. PICK i : i = [m[u][t] EXCEPT !.lockedAmount = x]
  OBVIOUS
<1>2. i \in Info /\ i.lockedAmount = x /\ i.amount = m[u][t].amount
  BY <1>1, HoldingFields DEF Info
<1>3. n = [m EXCEPT ![u][t] = i]
  BY <1>1 DEF Holdings
<1> QED BY <1>2, <1>3, EntryIsSet

LEMMA BothAreSet ==
    ASSUME NEW m \in Holdings, NEW u \in Users, NEW t \in Tokens, NEW x \in Nat, NEW y \in Nat, NEW n,
           n = [m EXCEPT ![u][t].amount = x, ![u][t].lockedAmount = y]
    PROVE  EntrySet(m, n, u, t, x, y)
<1>1. PICK k : k = [m EXCEPT ![u][t].amount = x]
  OBVIOUS
<1>2. EntrySet(m, k, u, t, x, m[u][t].lockedAmount)
  BY <1>1, AmountIsSet
<1>3. k \in Holdings
  BY <1>2 DEF EntrySet
<1>4. n = [k EXCEPT ![u][t].lockedAmount = y]
  BY <1>1
<1>5. EntrySet(k, n, u, t, k[u][t].amount, y)
  BY <1>3, <1>4, LockedIsSet
<1>6. k[u][t].amount = x /\ \A v \in Users, s \in Tokens : ~(v = u /\ s = t) => k[v][s] = m[v][s]
  BY <1>2 DEF EntrySet
<1>7. /\ n \in Holdings /\ n[u][t].amount = k[u][t].amount /\ n[u][t].lockedAmount = y
      /\ \A v \in Users, s \in Tokens : ~(v = u /\ s = t) => n[v][s] = k[v][s]
  BY <1>5 DEF EntrySet
<1>8. \A v \in Users, s \in Tokens : ~(v = u /\ s = t) => n[v][s] = m[v][s]
  <2>1. TAKE v \in Users, s \in Tokens
  <2>2. HAVE ~(v = u /\ s = t)
  <2>3. k[v][s] = m[v][s]
    BY <1>6, <2>2
  <2>4. n[v][s] = k[v][s]
    BY <1>7, <2>2
  <2> QED BY <2>3, <2>4
<1>9. n \in Holdings /\ n[u][t].amount = x /\ n[u][t].lockedAmount = y
  BY <1>6, <1>7
<1> QED BY <1>8, <1>9 DEF EntrySet

-----------------------------------------------------------------------------
\* One entry moves by d in its amount and by l in what is locked of it.
Shifts(u, t, d, l) ==
    /\ d \in Int /\ l \in Int
    /\ info(u, t).amount + d \in Nat /\ info(u, t).lockedAmount + l \in Nat
    /\ EntrySet(userCollateral, userCollateral', u, t, info(u, t).amount + d, info(u, t).lockedAmount + l)
    /\ UNCHANGED <<supportedCollateral, price, baseVars>>

\* The contract's own balance moves as the entry does.
Pays(t, d) == held[t] + d \in Nat /\ held' = [held EXCEPT ![t] = held[t] + d]

LEMMA DepositShifts ==
    ASSUME ManagerTypeOK, NEW u \in Users, NEW t \in Tokens, NEW a \in Nat, depositCollateral(u, t, a)
    PROVE  Shifts(u, t, a, 0) /\ Pays(t, a) /\ a > 0
<1>1. PICK m, n : m = userCollateral /\ n = userCollateral'
  OBVIOUS
<1>2. m \in Holdings /\ m[u][t].amount \in Nat /\ m[u][t].lockedAmount \in Nat
  BY <1>1, HoldingFields DEF ManagerTypeOK, Holdings
<1>3. n = [m EXCEPT ![u][t].amount = m[u][t].amount + a] /\ m[u][t].amount + a \in Nat
  BY <1>1, <1>2 DEF depositCollateral
<1>4. EntrySet(m, n, u, t, m[u][t].amount + a, m[u][t].lockedAmount)
  BY <1>2, <1>3, AmountIsSet
<1>5. Shifts(u, t, a, 0)
  BY <1>1, <1>2, <1>4 DEF Shifts, EntrySet, info, depositCollateral
<1> QED BY <1>5 DEF Pays, depositCollateral, ManagerTypeOK

LEMMA WithdrawalShifts ==
    ASSUME ManagerTypeOK, NEW u \in Users, NEW t \in Tokens, NEW a \in Nat, withdrawCollateral(u, t, a)
    PROVE  Shifts(u, t, -a, 0) /\ Pays(t, -a)
<1>1. PICK m, n : m = userCollateral /\ n = userCollateral'
  OBVIOUS
<1>2. m \in Holdings /\ m[u][t].amount \in Nat /\ m[u][t].lockedAmount \in Nat
  BY <1>1, HoldingFields DEF ManagerTypeOK, Holdings
<1>3. n = [m EXCEPT ![u][t].amount = m[u][t].amount - a] /\ m[u][t].amount - a \in Nat
  BY <1>1, <1>2 DEF withdrawCollateral, info
<1>4. EntrySet(m, n, u, t, m[u][t].amount - a, m[u][t].lockedAmount)
  BY <1>2, <1>3, AmountIsSet
<1>5. Shifts(u, t, -a, 0)
  BY <1>1, <1>2, <1>3, <1>4 DEF Shifts, EntrySet, info, withdrawCollateral
<1>6. held[t] - a \in Nat /\ held' = [held EXCEPT ![t] = held[t] - a] /\ held[t] - a = held[t] + (-a)
  BY DEF withdrawCollateral, ManagerTypeOK
<1> QED BY <1>5, <1>6 DEF Pays

LEMMA LockShifts ==
    ASSUME ManagerTypeOK, NEW u \in Users, NEW t \in Tokens, NEW a \in Nat, lockCollateral(u, t, a)
    PROVE  Shifts(u, t, 0, a) /\ UNCHANGED held
<1>1. PICK m, n : m = userCollateral /\ n = userCollateral'
  OBVIOUS
<1>2. m \in Holdings /\ m[u][t].amount \in Nat /\ m[u][t].lockedAmount \in Nat
  BY <1>1, HoldingFields DEF ManagerTypeOK, Holdings
<1>3. n = [m EXCEPT ![u][t].lockedAmount = m[u][t].lockedAmount + a] /\ m[u][t].lockedAmount + a \in Nat
  BY <1>1, <1>2 DEF lockCollateral
<1>4. EntrySet(m, n, u, t, m[u][t].amount, m[u][t].lockedAmount + a)
  BY <1>2, <1>3, LockedIsSet
<1> QED BY <1>1, <1>2, <1>4 DEF Shifts, EntrySet, info, lockCollateral

LEMMA ReleaseShifts ==
    ASSUME ManagerTypeOK, NEW u \in Users, NEW t \in Tokens, NEW a \in Nat, releaseCollateral(u, t, a)
    PROVE  Shifts(u, t, 0, -a) /\ UNCHANGED held
<1>1. PICK m, n : m = userCollateral /\ n = userCollateral'
  OBVIOUS
<1>2. m \in Holdings /\ m[u][t].amount \in Nat /\ m[u][t].lockedAmount \in Nat
  BY <1>1, HoldingFields DEF ManagerTypeOK, Holdings
<1>3. n = [m EXCEPT ![u][t].lockedAmount = m[u][t].lockedAmount - a] /\ m[u][t].lockedAmount - a \in Nat
  BY <1>1, <1>2 DEF releaseCollateral, info
<1>4. EntrySet(m, n, u, t, m[u][t].amount, m[u][t].lockedAmount - a)
  BY <1>2, <1>3, LockedIsSet
<1> QED BY <1>1, <1>2, <1>3, <1>4 DEF Shifts, EntrySet, info, releaseCollateral

\* The bonus is never more than what is left.
LEMMA BonusFacts ==
    ASSUME ManagerTypeOK, NEW u \in Users, NEW t \in Tokens, NEW a \in Nat, info(u, t).amount >= a
    PROVE  Bonus(u, t, a) \in Nat /\ a + Bonus(u, t, a) <= info(u, t).amount
<1>1. PICK x, y : x = (a * 500) \div 10000 /\ y = info(u, t).amount - a
  OBVIOUS
<1>2. info(u, t).amount \in Nat
  BY HoldingFields DEF ManagerTypeOK, Holdings, info
<1>3. x \in Nat /\ y \in Nat
  BY <1>1, <1>2
<1>4. Bonus(u, t, a) = Min({x, y})
  BY <1>1 DEF Bonus, LIQUIDATION_BONUS, BASIS_POINTS
<1>5. Min({x, y}) \in {x, y} /\ Min({x, y}) <= y
  BY <1>3 DEF Min
<1> QED BY <1>1, <1>2, <1>3, <1>4, <1>5

LEMMA LiquidationShifts ==
    ASSUME ManagerTypeOK, NEW u \in Users, NEW t \in Tokens, NEW a \in Nat, liquidateCollateral(u, t, a)
    PROVE  \E x \in Nat : Shifts(u, t, -x, -a) /\ Pays(t, -x)
<1>1. PICK m, n : m = userCollateral /\ n = userCollateral'
  OBVIOUS
<1>2. m \in Holdings /\ m[u][t].amount \in Nat /\ m[u][t].lockedAmount \in Nat
  BY <1>1, HoldingFields DEF ManagerTypeOK, Holdings
<1>3. PICK x : x = a + Bonus(u, t, a)
  OBVIOUS
<1>4. x \in Nat /\ x <= m[u][t].amount /\ m[u][t].lockedAmount >= a
  BY <1>1, <1>3, BonusFacts DEF liquidateCollateral, info
<1>5. n = [m EXCEPT ![u][t].amount = m[u][t].amount - x, ![u][t].lockedAmount = m[u][t].lockedAmount - a]
  BY <1>1, <1>3 DEF liquidateCollateral
<1>6. EntrySet(m, n, u, t, m[u][t].amount - x, m[u][t].lockedAmount - a)
  <2>1. PICK y \in Nat, z \in Nat : y = m[u][t].amount - x /\ z = m[u][t].lockedAmount - a
    BY <1>2, <1>4
  <2>2. n = [m EXCEPT ![u][t].amount = y, ![u][t].lockedAmount = z]
    BY <1>5, <2>1
  <2>3. EntrySet(m, n, u, t, y, z)
    BY <1>2, <2>2, BothAreSet
  <2> QED BY <2>1, <2>3
<1>7. Shifts(u, t, -x, -a)
  <2>1. UNCHANGED <<supportedCollateral, price, baseVars>>
    BY DEF liquidateCollateral
  <2> QED BY <1>1, <1>2, <1>4, <1>6, <2>1 DEF Shifts, EntrySet, info
<1>8. held[t] - x \in Nat /\ held' = [held EXCEPT ![t] = held[t] - x] /\ held[t] - x = held[t] + (-x)
  BY <1>3, <1>4 DEF liquidateCollateral, ManagerTypeOK
<1> QED BY <1>4, <1>7, <1>8 DEF Pays

-----------------------------------------------------------------------------
\* What the kinds of steps do.  A credit that is open has begun and is for something.
CreditInv ==
    /\ TypeOK
    /\ IsFiniteSet(supportedCollateral)
    /\ \A c \in CreditIds : creditPositions[c] # NoPosition =>
           creditPositions[c].startTime <= now /\ creditPositions[c].principal > 0

\* Deposits and withdrawals.
Booking(u, t, d) == Shifts(u, t, d, 0) /\ Pays(t, d) /\ UNCHANGED <<creditPositions, oracleVars>>

Opening(c, p) ==
    /\ creditPositions[c] = NoPosition
    /\ p \in Position /\ p.status = "Active" /\ p.startTime = now /\ p.principal > 0
    /\ creditPositions' = [creditPositions EXCEPT ![c] = p]
    /\ Shifts(p.borrower, p.collateralToken, 0, p.collateralAmount)
    /\ UNCHANGED <<held, oracleVars>>

\* The borrower is left with no more than before.
Closing(c, status, d) ==
    LET p == creditPositions[c]
    IN  /\ p \in Position /\ p.status = "Active"
        /\ creditPositions' = [creditPositions EXCEPT ![c].status = status]
        /\ Shifts(p.borrower, p.collateralToken, d, -p.collateralAmount) /\ d <= 0
        /\ Pays(p.collateralToken, d)
        /\ OracleTypeOK'
        /\ status = "Liquidated" => Liquidatable(c)

\* Nobody's holdings or credits change.
Quiet ==
    /\ UNCHANGED <<userCollateral, creditPositions, oracleVars>>
    /\ held' \in [Tokens -> Nat] /\ price' \in [Tokens -> Nat]
    /\ supportedCollateral' \subseteq Tokens /\ IsFiniteSet(supportedCollateral')
    /\ BaseTypeOK' /\ now' >= now

LEMMA PositionFacts ==
    ASSUME CreditInv, NEW c \in CreditIds, creditPositions[c].status # "none"
    PROVE  /\ creditPositions[c] \in Position /\ creditPositions[c] # NoPosition
           /\ creditPositions[c].borrower \in Users /\ creditPositions[c].principal \in Nat
           /\ creditPositions[c].interestRate \in Nat /\ creditPositions[c].collateralAmount \in Nat
           /\ creditPositions[c].collateralToken \in Tokens /\ creditPositions[c].startTime \in Nat
           /\ creditPositions[c].duration \in Nat
<1>1. creditPositions[c] # NoPosition /\ creditPositions[c] \in Position
  BY DEF CreditInv, TypeOK, NoPosition
<1> QED BY <1>1 DEF Position

\* What is owed is a number, and something.
LEMMA OwedFacts ==
    ASSUME CreditInv, NEW c \in CreditIds, creditPositions[c].status # "none"
    PROVE  TotalOwed(c) \in Nat /\ TotalOwed(c) > 0
<1>1. PICK p : p = creditPositions[c]
  OBVIOUS
<1>2. p.principal \in Nat /\ p.interestRate \in Nat /\ p.startTime \in Nat /\ p.startTime <= now /\ p.principal > 0
  BY <1>1, PositionFacts DEF CreditInv
<1>3. now - p.startTime \in Nat /\ DaysPerTick \in Nat
  BY <1>2, BaseAssumption DEF CreditInv, TypeOK, BaseTypeOK
<1>4. PICK y : y = p.principal * p.interestRate * (now - p.startTime) * DaysPerTick
  OBVIOUS
<1>5. y \in Nat
  <2>1. p.principal * p.interestRate \in Nat
    BY <1>2
  <2>2. p.principal * p.interestRate * (now - p.startTime) \in Nat
    BY <1>3, <2>1
  <2> QED BY <1>3, <1>4, <2>2
<1>6. y \div 3650000 \in Nat
  BY <1>5
<1>7. TotalOwed(c) = p.principal + y \div (365 * 10000)
  BY <1>1, <1>4 DEF TotalOwed
<1> QED BY <1>2, <1>6, <1>7

LEMMA RequestOpens ==
    ASSUME CreditInv, NEW c \in CreditIds, NEW u \in Users, NEW principal \in Principals, NEW t \in Tokens,
           NEW collateral \in Locks, NEW duration \in Durations,
           requestCredit(c, u, principal, t, collateral, duration)
    PROVE  \E p \in Position : Opening(c, p)
<1>1. PICK score : score = calculateCreditScore(u)
  OBVIOUS
<1>2. score \in Nat
  <2>1. creditHistory[u] \in CreditData /\ userFirstBorrowTime[u] \in Nat /\ now \in Nat
    BY DEF CreditInv, TypeOK, OracleTypeOK, BaseTypeOK
  <2> QED BY <1>1, <2>1, ScoreFacts DEF calculateCreditScore
<1>3. InterestRate(score) \in Nat
  BY <1>2 DEF InterestRate
<1>4. PICK p : p = [borrower |-> u, principal |-> principal, interestRate |-> InterestRate(score),
                    collateralAmount |-> collateral, collateralToken |-> t, startTime |-> now,
                    duration |-> duration, status |-> "Active"]
  OBVIOUS
<1>5. /\ principal \in Nat \ {0} /\ collateral \in Nat /\ duration \in Nat /\ now \in Nat
  BY ProtocolAssumption DEF CreditInv, TypeOK, BaseTypeOK
<1>6. p \in Position
  BY <1>3, <1>4, <1>5 DEF Position
<1>7. p.status = "Active" /\ p.startTime = now /\ p.principal > 0 /\ p.borrower = u /\ p.collateralToken = t
      /\ p.collateralAmount = collateral
  BY <1>4, <1>5
<1>8. Shifts(u, t, 0, collateral) /\ UNCHANGED held
  BY <1>5, LockShifts DEF requestCredit, CreditInv, TypeOK
<1>9. /\ creditPositions[c] = NoPosition /\ UNCHANGED oracleVars
      /\ creditPositions' = [creditPositions EXCEPT ![c] = p]
  BY <1>1, <1>4 DEF requestCredit
<1> QED BY <1>6, <1>7, <1>8, <1>9 DEF Opening

LEMMA RepaymentCloses ==
    ASSUME CreditInv, NEW c \in CreditIds, repayCredit(c, TotalOwed(c))
    PROVE  Closing(c, "Repaid", 0)
<1>1. PICK p : p = creditPositions[c]
  OBVIOUS
<1>2. PICK value : value = TotalOwed(c)
  OBVIOUS
<1>3. /\ p.status = "Active" /\ creditPositions' = [creditPositions EXCEPT ![c].status = "Repaid"]
      /\ releaseCollateral(p.borrower, p.collateralToken, p.collateralAmount)
      /\ updateCreditMetrics(p.borrower, "OnTimePayment", value)
  BY <1>1, <1>2, Zenon DEF repayCredit
<1>4. value \in Nat /\ p \in Position
      /\ p.borrower \in Users /\ p.collateralToken \in Tokens /\ p.collateralAmount \in Nat
  BY <1>1, <1>2, <1>3, PositionFacts, OwedFacts
<1>5. /\ ManagerTypeOK /\ OracleTypeOK /\ now \in Nat /\ held \in [Tokens -> Nat]
  BY DEF CreditInv, TypeOK, BaseTypeOK, ManagerTypeOK
<1>6. Shifts(p.borrower, p.collateralToken, 0, -p.collateralAmount) /\ UNCHANGED held
  BY <1>3, <1>4, <1>5, ReleaseShifts
<1>7. Pays(p.collateralToken, 0)
  BY <1>4, <1>5, <1>6 DEF Pays
<1>8. OracleTypeOK'
  BY <1>3, <1>4, <1>5, MetricsKeep DEF UpdateTypes
<1> QED BY <1>1, <1>3, <1>4, <1>6, <1>7, <1>8 DEF Closing

LEMMA LiquidationCloses ==
    ASSUME CreditInv, NEW c \in CreditIds, liquidate(c)
    PROVE  \E d \in Int : Closing(c, "Liquidated", d)
<1>1. PICK p : p = creditPositions[c]
  OBVIOUS
<1>2. /\ p.status = "Active" /\ creditPositions' = [creditPositions EXCEPT ![c].status = "Liquidated"]
      /\ liquidateCollateral(p.borrower, p.collateralToken, p.collateralAmount)
      /\ updateCreditMetrics(p.borrower, "Default", p.principal) /\ Liquidatable(c)
  BY <1>1, Zenon DEF liquidate
<1>3. /\ p \in Position /\ p.borrower \in Users /\ p.collateralToken \in Tokens /\ p.collateralAmount \in Nat
      /\ p.principal \in Nat
  BY <1>1, <1>2, PositionFacts
<1>4. /\ ManagerTypeOK /\ OracleTypeOK /\ now \in Nat
  BY DEF CreditInv, TypeOK, BaseTypeOK
<1>5. PICK x \in Nat : Shifts(p.borrower, p.collateralToken, -x, -p.collateralAmount) /\ Pays(p.collateralToken, -x)
  BY <1>2, <1>3, <1>4, LiquidationShifts
<1>6. OracleTypeOK'
  BY <1>2, <1>3, <1>4, MetricsKeep DEF UpdateTypes
<1>7. -x \in Int /\ -x <= 0
  OBVIOUS
<1>8. Closing(c, "Liquidated", -x)
  BY <1>1, <1>2, <1>3, <1>5, <1>6, <1>7 DEF Closing
<1> QED BY <1>7, <1>8

LEMMA ListingIsQuiet ==
    ASSUME CreditInv, UNCHANGED <<creditPositions, oracleVars>>,
           \/ \E t \in Tokens : addSupportedCollateral(t) \/ removeSupportedCollateral(t)
           \/ \E t \in Tokens, p \in Prices : SetPrice(t, p)
    PROVE  Quiet /\ UNCHANGED held
<1>1. /\ ManagerTypeOK /\ BaseTypeOK /\ IsFiniteSet(supportedCollateral) /\ now \in Nat
  BY DEF CreditInv, TypeOK, BaseTypeOK
<1>2. ASSUME NEW t \in Tokens, addSupportedCollateral(t) PROVE Quiet /\ UNCHANGED held
  <2>1. IsFiniteSet(supportedCollateral')
    BY <1>1, <1>2, FS_AddElement DEF addSupportedCollateral
  <2> QED BY <1>1, <1>2, <2>1 DEF addSupportedCollateral, Quiet, ManagerTypeOK, BaseTypeOK, baseVars
<1>3. ASSUME NEW t \in Tokens, removeSupportedCollateral(t) PROVE Quiet /\ UNCHANGED held
  <2>1. IsFiniteSet(supportedCollateral')
    BY <1>1, <1>3, FS_RemoveElement DEF removeSupportedCollateral
  <2> QED BY <1>1, <1>3, <2>1 DEF removeSupportedCollateral, Quiet, ManagerTypeOK, BaseTypeOK, baseVars
<1>4. ASSUME NEW t \in Tokens, NEW p \in Prices, SetPrice(t, p) PROVE Quiet /\ UNCHANGED held
  <2>1. p \in Nat
    BY ProtocolAssumption
  <2> QED BY <1>1, <1>4, <2>1 DEF SetPrice, Quiet, ManagerTypeOK, BaseTypeOK, baseVars
<1> QED BY <1>2, <1>3, <1>4

LEMMA NextKinds ==
    ASSUME CreditInv, Next
    PROVE  \/ \E u \in Users, t \in Tokens, d \in Int : Booking(u, t, d) /\ (d > 0 => held' # held)
           \/ \E c \in CreditIds, p \in Position : Opening(c, p)
           \/ \E c \in CreditIds, status \in {"Repaid", "Liquidated"}, d \in Int : Closing(c, status, d)
           \/ Quiet /\ UNCHANGED held
<1>1. ManagerTypeOK /\ BaseTypeOK /\ Deposits \subseteq Nat /\ held \in [Tokens -> Nat]
  BY ProtocolAssumption DEF CreditInv, TypeOK, ManagerTypeOK
<1>2. CASE ManagerStep
  <2>1. ASSUME NEW u \in Users, NEW t \in Tokens, NEW a \in Deposits, depositCollateral(u, t, a)
        PROVE  Booking(u, t, a) /\ held' # held /\ a \in Int
    <3>1. a \in Nat /\ Shifts(u, t, a, 0) /\ Pays(t, a) /\ a > 0
      BY <1>1, <2>1, DepositShifts
    <3>2. held'[t] # held[t]
      BY <1>1, <3>1 DEF Pays
    <3> QED BY <1>2, <3>1, <3>2 DEF Booking, ManagerStep
  <2>2. ASSUME NEW u \in Users, NEW t \in Tokens, NEW a \in Deposits, withdrawCollateral(u, t, a)
        PROVE  Booking(u, t, -a) /\ -a \in Int /\ ~(-a > 0)
    <3>1. a \in Nat /\ Shifts(u, t, -a, 0) /\ Pays(t, -a)
      BY <1>1, <2>2, WithdrawalShifts
    <3> QED BY <1>2, <3>1 DEF Booking, ManagerStep
  <2>3. UNCHANGED <<creditPositions, oracleVars>>
    BY <1>2 DEF ManagerStep
  <2>4. CASE \E u \in Users, t \in Tokens, a \in Deposits : depositCollateral(u, t, a) \/ withdrawCollateral(u, t, a)
    BY <2>1, <2>2, <2>4
  <2>5. CASE \/ \E t \in Tokens : addSupportedCollateral(t) \/ removeSupportedCollateral(t)
             \/ \E t \in Tokens, p \in Prices : SetPrice(t, p)
    BY <2>3, <2>5, ListingIsQuiet
  <2> QED BY <1>2, <2>4, <2>5 DEF ManagerStep
<1>3. CASE CreditStep
  BY <1>3, RequestOpens, RepaymentCloses, LiquidationCloses DEF CreditStep
<1>4. CASE PassTime
  <2>1. Quiet
    BY <1>1, <1>4 DEF PassTime, Tick, Quiet, managerVars, ManagerTypeOK, CreditInv, TypeOK, BaseTypeOK
  <2> QED BY <1>4, <2>1 DEF PassTime, managerVars
<1> QED BY <1>2, <1>3, <1>4 DEF Next

LEMMA OwnerKinds ==
    ASSUME CreditInv, OwnerStep
    PROVE  \/ \E u \in Users, t1, t2 \in Tokens, a \in Deposits :
                 swapCollateral(u, t1, t2, a) /\ UNCHANGED <<creditPositions, oracleVars>>
           \/ Quiet
<1>1. ManagerTypeOK /\ BaseTypeOK /\ Deposits \subseteq Nat /\ IsFiniteSet(supportedCollateral) /\ now \in Nat
  BY ProtocolAssumption DEF CreditInv, TypeOK, BaseTypeOK
<1>2. ASSUME NEW t \in Tokens, NEW a \in Deposits, emergencyWithdraw(t, a), UNCHANGED <<creditPositions, oracleVars>>
      PROVE  Quiet
  BY <1>1, <1>2 DEF emergencyWithdraw, Quiet, ManagerTypeOK, BaseTypeOK, baseVars
<1>3. ASSUME NEW k \in Contracts, NEW p \in BOOLEAN, SetPaused(k, p),
             UNCHANGED <<managerVars, oracleVars, creditPositions>>
      PROVE  Quiet
  BY <1>1, <1>3 DEF SetPaused, Quiet, managerVars, ManagerTypeOK, BaseTypeOK
<1> QED BY <1>2, <1>3 DEF OwnerStep

-----------------------------------------------------------------------------
\* The types, and what open credits are.

LEMMA CreditInitially == ASSUME Init PROVE CreditInv
<1>1. NewHistory \in CreditData
  BY DEF NewHistory, CreditData
<1>2. OracleTypeOK /\ BaseTypeOK
  BY <1>1 DEF Init, BaseInit, BaseTypeOK, OracleInit, OracleTypeOK
<1>3. PICK i : i = [amount |-> 0, lockedAmount |-> 0]
  OBVIOUS
<1>4. i \in Info
  BY <1>3 DEF Info
<1>5. ManagerTypeOK
  BY <1>3, <1>4, ProtocolAssumption DEF Init, ManagerTypeOK
<1>6. \A c \in CreditIds : creditPositions[c] = NoPosition
  BY DEF Init
<1>7. creditPositions \in [CreditIds -> Position \union {NoPosition}]
  BY DEF Init
<1>8. IsFiniteSet(supportedCollateral)
  BY FS_EmptySet DEF Init
<1> QED BY <1>2, <1>5, <1>6, <1>7, <1>8 DEF CreditInv, TypeOK

LEMMA ShiftFacts ==
    ASSUME CreditInv, NEW u, NEW t, NEW d, NEW l, Shifts(u, t, d, l)
    PROVE  /\ userCollateral' \in Holdings /\ price' = price /\ supportedCollateral' = supportedCollateral
           /\ BaseTypeOK' /\ now' = now /\ IsFiniteSet(supportedCollateral')
BY DEF Shifts, EntrySet, CreditInv, TypeOK, BaseTypeOK, baseVars

LEMMA PaysFacts ==
    ASSUME CreditInv, NEW t \in Tokens, NEW d, Pays(t, d)
    PROVE  held' \in [Tokens -> Nat] /\ held'[t] = held[t] + d /\ (\A s \in Tokens \ {t} : held'[s] = held[s])
BY DEF Pays, CreditInv, TypeOK, ManagerTypeOK

LEMMA BookingKeeps ==
    ASSUME CreditInv, NEW u \in Users, NEW t \in Tokens, NEW d \in Int, Booking(u, t, d)
    PROVE  CreditInv'
<1>1. ManagerTypeOK' /\ BaseTypeOK' /\ now' = now /\ IsFiniteSet(supportedCollateral')
  BY ShiftFacts, PaysFacts DEF Booking, CreditInv, TypeOK, ManagerTypeOK, Holdings
<1>2. OracleTypeOK' /\ creditPositions' = creditPositions
  BY DEF Booking, CreditInv, TypeOK, OracleTypeOK, oracleVars
<1> QED BY <1>1, <1>2 DEF CreditInv, TypeOK

LEMMA QuietKeeps == ASSUME CreditInv, Quiet PROVE CreditInv'
<1>1. now \in Nat /\ now' \in Nat /\ now' >= now /\ creditPositions' = creditPositions
  BY DEF Quiet, CreditInv, TypeOK, BaseTypeOK
<1>2. TypeOK' /\ IsFiniteSet(supportedCollateral')
  BY DEF Quiet, CreditInv, TypeOK, OracleTypeOK, ManagerTypeOK, oracleVars
<1>3. ASSUME NEW c \in CreditIds, creditPositions[c] # NoPosition
      PROVE creditPositions[c].startTime <= now' /\ creditPositions[c].principal > 0
  <2>1. creditPositions[c].startTime \in Nat
    BY <1>3 DEF CreditInv, TypeOK, Position
  <2>2. creditPositions[c].startTime <= now /\ creditPositions[c].principal > 0
    BY <1>3 DEF CreditInv
  <2> QED BY <1>1, <2>1, <2>2
<1> QED BY <1>1, <1>2, <1>3 DEF CreditInv

LEMMA OpeningKeeps ==
    ASSUME CreditInv, NEW c \in CreditIds, NEW p, Opening(c, p)
    PROVE  CreditInv'
<1>1. BaseTypeOK' /\ now' = now /\ IsFiniteSet(supportedCollateral') /\ ManagerTypeOK'
  BY ShiftFacts DEF Opening, CreditInv, TypeOK, ManagerTypeOK, Holdings
<1>2. OracleTypeOK'
  BY DEF Opening, CreditInv, TypeOK, OracleTypeOK, oracleVars
<1>3. creditPositions' \in [CreditIds -> Position \union {NoPosition}]
  BY DEF Opening, CreditInv, TypeOK
<1>4. creditPositions'[c] = p /\ \A d \in CreditIds \ {c} : creditPositions'[d] = creditPositions[d]
  BY DEF Opening, CreditInv, TypeOK
<1>5. p.startTime = now /\ p.principal > 0 /\ now \in Nat
  BY DEF Opening, CreditInv, TypeOK, BaseTypeOK
<1>6. \A d \in CreditIds : creditPositions'[d] # NoPosition =>
          creditPositions'[d].startTime <= now' /\ creditPositions'[d].principal > 0
  BY <1>1, <1>4, <1>5 DEF CreditInv
<1> QED BY <1>1, <1>2, <1>3, <1>6 DEF CreditInv, TypeOK

\* What settling leaves of a credit.
LEMMA ClosedPosition ==
    ASSUME NEW p \in Position, NEW status \in {"Repaid", "Liquidated"}, NEW q, q = [p EXCEPT !.status = status]
    PROVE  /\ q \in Position /\ q.status = status /\ q.startTime = p.startTime /\ q.principal = p.principal
           /\ q.borrower = p.borrower /\ q.collateralToken = p.collateralToken
BY DEF Position

LEMMA ClosingFacts ==
    ASSUME CreditInv, NEW c \in CreditIds, NEW status \in {"Repaid", "Liquidated"}, NEW d \in Int,
           Closing(c, status, d)
    PROVE  /\ creditPositions'[c] \in Position /\ creditPositions'[c].status = status
           /\ creditPositions'[c].startTime = creditPositions[c].startTime
           /\ creditPositions'[c].principal = creditPositions[c].principal
           /\ \A e \in CreditIds \ {c} : creditPositions'[e] = creditPositions[e]
           /\ creditPositions' \in [CreditIds -> Position \union {NoPosition}]
<1>1. PICK p, q : p = creditPositions[c] /\ q = [p EXCEPT !.status = status]
  OBVIOUS
<1>2. p \in Position /\ creditPositions' = [creditPositions EXCEPT ![c] = q]
  BY <1>1 DEF Closing
<1>3. q \in Position /\ q.status = status /\ q.startTime = p.startTime /\ q.principal = p.principal
  BY <1>1, <1>2, ClosedPosition
<1>4. creditPositions'[c] = q /\ \A e \in CreditIds \ {c} : creditPositions'[e] = creditPositions[e]
  BY <1>2 DEF CreditInv, TypeOK
<1>5. creditPositions' \in [CreditIds -> Position \union {NoPosition}]
  BY <1>2, <1>3 DEF CreditInv, TypeOK
<1> QED BY <1>1, <1>3, <1>4, <1>5

LEMMA ClosingKeeps ==
    ASSUME CreditInv, NEW c \in CreditIds, NEW status \in {"Repaid", "Liquidated"}, NEW d \in Int,
           Closing(c, status, d)
    PROVE  CreditInv'
<1>1. PICK p : p = creditPositions[c]
  OBVIOUS
<1>2. p \in Position /\ p.status = "Active" /\ p.collateralToken \in Tokens /\ OracleTypeOK'
      /\ Shifts(p.borrower, p.collateralToken, d, -p.collateralAmount) /\ Pays(p.collateralToken, d)
  BY <1>1 DEF Closing, Position
<1>3. BaseTypeOK' /\ now' = now /\ IsFiniteSet(supportedCollateral') /\ ManagerTypeOK'
  BY <1>2, ShiftFacts, PaysFacts DEF CreditInv, TypeOK, ManagerTypeOK, Holdings
<1>4. creditPositions[c] # NoPosition
  BY <1>1, <1>2 DEF NoPosition
<1>5. \A e \in CreditIds : creditPositions'[e] # NoPosition =>
          creditPositions'[e].startTime <= now' /\ creditPositions'[e].principal > 0
  BY <1>3, <1>4, ClosingFacts DEF CreditInv
<1>6. TypeOK'
  BY <1>2, <1>3, ClosingFacts DEF TypeOK
<1> QED BY <1>3, <1>5, <1>6 DEF CreditInv

\* A swap is priced, so that what comes out is a number.
LEMMA SwapFacts ==
    ASSUME CreditInv, NEW u \in Users, NEW from \in Tokens, NEW to \in Tokens, NEW a \in Deposits,
           swapCollateral(u, from, to, a)
    PROVE  /\ SwapOut(from, to, a) \in Nat
           /\ price[to] \in Nat /\ price[from] \in Nat /\ a \in Nat
           /\ SwapOut(from, to, a) * price[to] <= a * price[from]
           /\ info(u, from).amount - a \in Nat
<1>1. price[to] \in Nat /\ price[from] \in Nat /\ a \in Nat /\ price[to] > 0
  BY ProtocolAssumption DEF swapCollateral, CreditInv, TypeOK, ManagerTypeOK
<1>2. PICK k, b, o : /\ k = price[to] /\ b = (a * price[from]) \div price[to]
                     /\ o = (b * 9970) \div 10000
  OBVIOUS
<1>3. a * price[from] \in Nat
  BY <1>1
<1>4. b \in Nat /\ k * b <= a * price[from]
  BY <1>1, <1>2, <1>3, DivFacts
<1>5. o \in Nat /\ o <= b
  BY <1>2, <1>4
<1>6. PICK r \in Nat : b = o + r
  <2>1. b - o \in Nat /\ b = o + (b - o)
    BY <1>4, <1>5
  <2> QED BY <2>1
<1>7. k * b = k * o + k * r /\ k * r >= 0 /\ k * o = o * k
  BY <1>1, <1>2, <1>5, <1>6
<1>8. k * o \in Int /\ k * r \in Int
  BY <1>1, <1>2, <1>5, <1>6
<1>9. o * k <= a * price[from]
  BY <1>3, <1>4, <1>7, <1>8
<1>10. SwapOut(from, to, a) = o
  BY <1>2 DEF SwapOut, BASIS_POINTS
<1>11. info(u, from).amount - a \in Nat
  <2>1. info(u, from).amount \in Nat /\ info(u, from).lockedAmount \in Nat
    BY HoldingFields DEF CreditInv, TypeOK, ManagerTypeOK, Holdings, info
  <2> QED BY <1>1, <2>1 DEF swapCollateral, Available
<1> QED BY <1>1, <1>2, <1>5, <1>9, <1>10, <1>11

\* k is what the user holds when the tokens given are gone.
LEMMA SwapShifts ==
    ASSUME CreditInv, NEW u \in Users, NEW from \in Tokens, NEW to \in Tokens, NEW a \in Deposits,
           swapCollateral(u, from, to, a)
    PROVE  \E k :
             /\ EntrySet(userCollateral, k, u, from, info(u, from).amount - a, info(u, from).lockedAmount)
             /\ EntrySet(k, userCollateral', u, to, k[u][to].amount + SwapOut(from, to, a), k[u][to].lockedAmount)
             /\ UNCHANGED <<held, supportedCollateral, price, baseVars>>
<1>1. PICK m, n, o : m = userCollateral /\ n = userCollateral' /\ o = SwapOut(from, to, a)
  OBVIOUS
<1>2. m \in Holdings /\ m[u][from].amount - a \in Nat /\ o \in Nat
  BY <1>1, SwapFacts DEF CreditInv, TypeOK, ManagerTypeOK, Holdings, info
<1>3. PICK k : k = [m EXCEPT ![u][from].amount = m[u][from].amount - a]
  OBVIOUS
<1>4. EntrySet(m, k, u, from, m[u][from].amount - a, m[u][from].lockedAmount)
  BY <1>2, <1>3, AmountIsSet
<1>5. n = [k EXCEPT ![u][to].amount = k[u][to].amount + o]
  BY <1>1, <1>3 DEF swapCollateral
<1>6. k \in Holdings
  BY <1>4 DEF EntrySet
<1>7. k[u][to].amount + o \in Nat
  BY <1>2, <1>6, HoldingFields
<1>8. EntrySet(k, n, u, to, k[u][to].amount + o, k[u][to].lockedAmount)
  BY <1>5, <1>6, <1>7, AmountIsSet
<1>9. UNCHANGED <<held, supportedCollateral, price, baseVars>>
  BY DEF swapCollateral
<1> QED BY <1>1, <1>4, <1>8, <1>9 DEF info

LEMMA SwapKeeps ==
    ASSUME CreditInv, NEW u \in Users, NEW from \in Tokens, NEW to \in Tokens, NEW a \in Deposits,
           swapCollateral(u, from, to, a), UNCHANGED <<creditPositions, oracleVars>>
    PROVE  CreditInv'
<1>1. userCollateral' \in Holdings /\ UNCHANGED <<held, supportedCollateral, price, baseVars>>
  BY SwapShifts DEF EntrySet
<1>2. ManagerTypeOK' /\ BaseTypeOK' /\ OracleTypeOK'
  BY <1>1 DEF CreditInv, TypeOK, ManagerTypeOK, BaseTypeOK, OracleTypeOK, Holdings, baseVars, oracleVars
<1> QED BY <1>1, <1>2 DEF CreditInv, TypeOK, baseVars

LEMMA CreditStutters == ASSUME CreditInv, UNCHANGED vars PROVE CreditInv'
BY DEF CreditInv, TypeOK, BaseTypeOK, ManagerTypeOK, OracleTypeOK, vars

LEMMA CreditSteps == CreditInv /\ [Next \/ OwnerStep]_vars => CreditInv'
<1> SUFFICES ASSUME CreditInv, [Next \/ OwnerStep]_vars PROVE CreditInv'
  OBVIOUS
<1>1. CASE Next
  BY <1>1, NextKinds, BookingKeeps, OpeningKeeps, ClosingKeeps, QuietKeeps
<1>2. CASE OwnerStep
  BY <1>2, OwnerKinds, SwapKeeps, QuietKeeps
<1> QED BY <1>1, <1>2, CreditStutters

LEMMA CreditInvariant == (Spec => []CreditInv) /\ (OwnerSpec => []CreditInv)
<1>1. Init => CreditInv
  BY CreditInitially
<1>2. [Next]_vars => [Next \/ OwnerStep]_vars
  OBVIOUS
<1> QED BY <1>1, <1>2, CreditSteps, PTL DEF Spec, OwnerSpec

\* Every amount, price, time and term stays an unsigned integer, swaps and liquidations
\* included: no subtraction of the manager and no division of the aggregator leaves them.
THEOREM CreditTypeCorrect == (Spec => []TypeOK) /\ (OwnerSpec => []TypeOK)
<1>1. CreditInv => TypeOK
  BY DEF CreditInv
<1> QED BY <1>1, CreditInvariant, PTL

-----------------------------------------------------------------------------
\* What is locked.

Locked(u, t) == [c \in Active(u, t) |-> creditPositions[c].collateralAmount]

LocksAreNumbers ==
    \A u \in Users, t \in Tokens :
        IsFiniteSet(Active(u, t)) /\ Active(u, t) \subseteq CreditIds /\ Locked(u, t) \in [Active(u, t) -> Int]

LEMMA ActiveFacts == CreditInv => LocksAreNumbers
<1> SUFFICES ASSUME CreditInv, NEW u \in Users, NEW t \in Tokens
             PROVE  /\ IsFiniteSet(Active(u, t)) /\ Active(u, t) \subseteq CreditIds
                    /\ Locked(u, t) \in [Active(u, t) -> Int]
  BY DEF LocksAreNumbers
<1>1. Active(u, t) \subseteq CreditIds /\ IsFiniteSet(Active(u, t))
  BY ProtocolAssumption, FS_Subset DEF Active
<1>2. ASSUME NEW c \in Active(u, t) PROVE creditPositions[c].collateralAmount \in Int
  <2>1. c \in CreditIds /\ creditPositions[c].status # "none"
    BY <1>2 DEF Active
  <2> QED BY <2>1, PositionFacts
<1> QED BY <1>1, <1>2 DEF Locked

\* A user's credits in a token are touched only by their own steps.
LEMMA OtherLocks ==
    ASSUME CreditInv, NEW c \in CreditIds, NEW u \in Users, NEW t \in Tokens,
           \A e \in CreditIds \ {c} : creditPositions'[e] = creditPositions[e],
           c \notin Active(u, t), c \notin Active(u, t)'
    PROVE  Active(u, t)' = Active(u, t) /\ Locked(u, t)' = Locked(u, t)
<1>1. Active(u, t)' = Active(u, t)
  BY DEF Active
<1>2. \A e \in Active(u, t) : creditPositions'[e] = creditPositions[e]
  BY DEF Active
<1> QED BY <1>1, <1>2 DEF Locked

LEMMA OpeningLocks ==
    ASSUME CreditInv, CreditInv', LockedBacksActiveCredits, NEW c \in CreditIds, NEW p, Opening(c, p)
    PROVE  LockedBacksActiveCredits'
<1> DEFINE u == p.borrower
           t == p.collateralToken
<1>1. p \in Position /\ p.status = "Active" /\ u \in Users /\ t \in Tokens /\ creditPositions[c] = NoPosition
      /\ p.collateralAmount \in Int
  BY DEF Opening, Position
<1>2. creditPositions'[c] = p /\ \A d \in CreditIds \ {c} : creditPositions'[d] = creditPositions[d]
  BY DEF Opening, CreditInv, TypeOK
<1>3. \A v \in Users, s \in Tokens : c \notin Active(v, s) /\ (c \in Active(v, s)' <=> v = u /\ s = t)
  BY <1>1, <1>2 DEF Active, NoPosition
<1>4. ASSUME NEW v \in Users, NEW s \in Tokens
      PROVE  info(v, s)'.lockedAmount = SumFunction(Locked(v, s)')
  <2>1. CASE ~(v = u /\ s = t)
    <3>1. Locked(v, s)' = Locked(v, s)
      BY <1>2, <1>3, <2>1, OtherLocks
    <3>2. info(v, s)'.lockedAmount = info(v, s).lockedAmount
      BY <2>1 DEF Opening, Shifts, EntrySet, info
    <3> QED BY <3>1, <3>2 DEF LockedBacksActiveCredits, Locked
  <2>2. CASE v = u /\ s = t
    <3>1. PICK A, f, g : A = Active(u, t) /\ f = Locked(u, t) /\ g = Locked(u, t)'
      OBVIOUS
    <3>2. IsFiniteSet(A) /\ f \in [A -> Int] /\ c \notin A
      BY <1>1, <1>3, <3>1, ActiveFacts DEF LocksAreNumbers
    <3>3. Active(u, t)' = A \union {c} /\ A \subseteq CreditIds
      BY <1>1, <1>2, <1>3, <3>1 DEF Active
    <3>4. g \in [A \union {c} -> Int]
      <4>1. LocksAreNumbers'
        BY ActiveFacts, PTL
      <4> QED BY <1>1, <3>1, <3>3, <4>1 DEF LocksAreNumbers
    <3>5. g[c] = p.collateralAmount /\ \A y \in A : g[y] = f[y]
      BY <1>2, <3>1, <3>2, <3>3 DEF Locked
    <3>6. SumFunction(g) = SumFunction(f) + g[c]
      BY <3>2, <3>4, <3>5, SumAdds
    <3>7. info(u, t)'.lockedAmount = info(u, t).lockedAmount + p.collateralAmount
      BY DEF Opening, Shifts, EntrySet, info
    <3>8. info(u, t).lockedAmount = SumFunction(f)
      BY <1>1, <3>1 DEF LockedBacksActiveCredits, Locked
    <3> QED BY <2>2, <3>1, <3>5, <3>6, <3>7, <3>8
  <2> QED BY <2>1, <2>2
<1> QED BY <1>4 DEF LockedBacksActiveCredits, Locked

LEMMA ClosingLocks ==
    ASSUME CreditInv, CreditInv', LockedBacksActiveCredits, NEW c \in CreditIds,
           NEW status \in {"Repaid", "Liquidated"}, NEW d \in Int, Closing(c, status, d)
    PROVE  LockedBacksActiveCredits'
<1>1. PICK p : p = creditPositions[c]
  OBVIOUS
<1> DEFINE u == p.borrower
           t == p.collateralToken
<1>2. p \in Position /\ p.status = "Active" /\ u \in Users /\ t \in Tokens /\ p.collateralAmount \in Int
      /\ Shifts(u, t, d, -p.collateralAmount)
  BY <1>1 DEF Closing, Position
<1>3. creditPositions'[c].status = status /\ \A e \in CreditIds \ {c} : creditPositions'[e] = creditPositions[e]
  BY ClosingFacts
<1>4. \A v \in Users, s \in Tokens : c \notin Active(v, s)' /\ (c \in Active(v, s) <=> v = u /\ s = t)
  BY <1>1, <1>2, <1>3 DEF Active
<1>5. ASSUME NEW v \in Users, NEW s \in Tokens
      PROVE  info(v, s)'.lockedAmount = SumFunction(Locked(v, s)')
  <2>1. CASE ~(v = u /\ s = t)
    <3>1. Locked(v, s)' = Locked(v, s)
      BY <1>3, <1>4, <2>1, OtherLocks
    <3>2. info(v, s)'.lockedAmount = info(v, s).lockedAmount
      BY <1>2, <2>1 DEF Shifts, EntrySet, info
    <3> QED BY <3>1, <3>2 DEF LockedBacksActiveCredits, Locked
  <2>2. CASE v = u /\ s = t
    <3>1. PICK A, f, g : A = Active(u, t)' /\ f = Locked(u, t) /\ g = Locked(u, t)'
      OBVIOUS
    <3>2. IsFiniteSet(A) /\ g \in [A -> Int] /\ c \notin A
      <4>1. LocksAreNumbers'
        BY ActiveFacts, PTL
      <4> QED BY <1>2, <1>4, <3>1, <4>1 DEF LocksAreNumbers
    <3>3. Active(u, t) = A \union {c} /\ A \subseteq CreditIds
      BY <1>2, <1>3, <1>4, <3>1 DEF Active
    <3>4. f \in [A \union {c} -> Int]
      BY <1>2, <3>1, <3>3, ActiveFacts DEF LocksAreNumbers
    <3>5. f[c] = p.collateralAmount /\ \A y \in A : f[y] = g[y]
      BY <1>1, <1>3, <3>1, <3>2, <3>3 DEF Locked
    <3>6. SumFunction(f) = SumFunction(g) + f[c]
      BY <3>2, <3>4, <3>5, SumAdds
    <3>7. info(u, t)'.lockedAmount = info(u, t).lockedAmount + -p.collateralAmount
      BY <1>2 DEF Shifts, EntrySet, info
    <3>8. info(u, t).lockedAmount = SumFunction(f)
      BY <1>2, <3>1 DEF LockedBacksActiveCredits, Locked
    <3>9. SumFunction(g) \in Int
      BY <3>2, SumFacts
    <3> QED BY <1>2, <2>2, <3>1, <3>5, <3>6, <3>7, <3>8, <3>9
  <2> QED BY <2>1, <2>2
<1> QED BY <1>5 DEF LockedBacksActiveCredits, Locked

\* The other steps leave both sides as they are.
LEMMA UnlockedSteps ==
    ASSUME LockedBacksActiveCredits, creditPositions' = creditPositions,
           \A u \in Users, t \in Tokens : info(u, t)'.lockedAmount = info(u, t).lockedAmount
    PROVE  LockedBacksActiveCredits'
<1>1. \A u \in Users, t \in Tokens : Locked(u, t)' = Locked(u, t)
  BY DEF Locked, Active
<1> QED BY <1>1 DEF LockedBacksActiveCredits, Locked

LEMMA LockedInitially == ASSUME Init PROVE LockedBacksActiveCredits
<1> SUFFICES ASSUME NEW u \in Users, NEW t \in Tokens
             PROVE  info(u, t).lockedAmount = SumFunction(Locked(u, t))
  BY DEF LockedBacksActiveCredits, Locked
<1>1. Active(u, t) = {}
  BY DEF Init, Active, NoPosition
<1>2. DOMAIN Locked(u, t) = {}
  BY <1>1 DEF Locked
<1>3. SumFunction(Locked(u, t)) = 0
  BY <1>2, SumOfNothing DEF SumFunction
<1>4. info(u, t).lockedAmount = 0
  BY DEF Init, info
<1> QED BY <1>3, <1>4

LEMMA LockedSteps ==
    ASSUME CreditInv, CreditInv', LockedBacksActiveCredits, [Next \/ OwnerStep]_vars
    PROVE  LockedBacksActiveCredits'
<1>1. ASSUME NEW u \in Users, NEW t \in Tokens, NEW d \in Int, Booking(u, t, d) PROVE LockedBacksActiveCredits'
  <2>1. \A v \in Users, s \in Tokens : info(v, s).lockedAmount \in Nat
    BY HoldingFields DEF CreditInv, TypeOK, ManagerTypeOK, Holdings, info
  <2>2. \A v \in Users, s \in Tokens : info(v, s)'.lockedAmount = info(v, s).lockedAmount
    BY <1>1, <2>1 DEF Booking, Shifts, EntrySet, info
  <2> QED BY <1>1, <2>2, UnlockedSteps DEF Booking
<1>2. ASSUME Quiet \/ UNCHANGED vars PROVE LockedBacksActiveCredits'
  <2>1. creditPositions' = creditPositions /\ userCollateral' = userCollateral
    BY <1>2 DEF Quiet, vars
  <2> QED BY <2>1, UnlockedSteps DEF info
<1>3. ASSUME NEW u \in Users, NEW from \in Tokens, NEW to \in Tokens, NEW a \in Deposits,
             swapCollateral(u, from, to, a), UNCHANGED <<creditPositions, oracleVars>>
      PROVE  LockedBacksActiveCredits'
  <2>1. \A v \in Users, s \in Tokens : info(v, s)'.lockedAmount = info(v, s).lockedAmount
    BY <1>3, SwapShifts DEF EntrySet, info
  <2> QED BY <1>3, <2>1, UnlockedSteps
<1>4. CASE Next
  BY <1>1, <1>2, <1>4, NextKinds, OpeningLocks, ClosingLocks
<1>5. CASE OwnerStep
  BY <1>2, <1>3, <1>5, OwnerKinds
<1> QED BY <1>2, <1>4, <1>5

\* For any users, tokens, credits and prices, swaps and the owner's withdrawals included: what
\* lockCollateral, releaseCollateral and liquidateCollateral leave locked of a user's token is the
\* sum of the collateral of the user's active credits in it, however these calls interleave.
THEOREM LocksBackCredits == (Spec => []LockedBacksActiveCredits) /\ (OwnerSpec => []LockedBacksActiveCredits)
<1>1. [Next]_vars => [Next \/ OwnerStep]_vars
  OBVIOUS
<1> QED BY <1>1, LockedInitially, LockedSteps, CreditInvariant, PTL DEF Spec, OwnerSpec

-----------------------------------------------------------------------------
\* What the contract holds.

Deposited(t) == [u \in Users |-> info(u, t).amount]

DepositsAreNumbers == \A t \in Tokens : Deposited(t) \in [Users -> Int]

LEMMA DepositedFacts == CreditInv => DepositsAreNumbers
BY HoldingFields DEF CreditInv, TypeOK, ManagerTypeOK, Holdings, info, Deposited, DepositsAreNumbers

LEMMA SolventShift ==
    ASSUME CreditInv, CreditInv', ManagerIsSolvent, NEW u \in Users, NEW t \in Tokens, NEW d \in Int, NEW l,
           Shifts(u, t, d, l), Pays(t, d)
    PROVE  ManagerIsSolvent'
<1> SUFFICES ASSUME NEW s \in Tokens PROVE held'[s] = SumFunction(Deposited(s)')
  BY DEF ManagerIsSolvent, Deposited
<1>1. PICK f, g : f = Deposited(s) /\ g = Deposited(s)'
  OBVIOUS
<1>2. f \in [Users -> Int] /\ g \in [Users -> Int]
  <2>1. DepositsAreNumbers /\ DepositsAreNumbers'
    BY DepositedFacts, PTL
  <2> QED BY <1>1, <2>1 DEF DepositsAreNumbers
<1>3. held[s] = SumFunction(f)
  BY <1>1 DEF ManagerIsSolvent, Deposited
<1>4. IsFiniteSet(Users)
  BY ProtocolAssumption
<1>5. CASE s # t
  <2>1. \A v \in Users : info(v, s)'.amount = info(v, s).amount
    BY <1>5 DEF Shifts, EntrySet, info
  <2>2. Deposited(s)' = Deposited(s)
    BY <2>1 DEF Deposited
  <2> QED BY <1>1, <1>3, <1>5, <2>2, PaysFacts
<1>6. CASE s = t
  <2>1. \A v \in Users \ {u} : g[v] = f[v]
    BY <1>1, <1>6 DEF Shifts, EntrySet, info, Deposited
  <2>2. g[u] = f[u] + d
    BY <1>1, <1>6 DEF Shifts, EntrySet, info, Deposited
  <2>3. SumFunction(g) = SumFunction(f) + g[u] - f[u]
    BY <1>2, <1>4, <2>1, SumMoves
  <2>4. SumFunction(f) \in Int
    BY <1>2, <1>4, SumFacts
  <2>5. SumFunction(g) = SumFunction(f) + d
    BY <1>2, <2>2, <2>3, <2>4
  <2> QED BY <1>1, <1>3, <1>6, <2>5, PaysFacts
<1> QED BY <1>5, <1>6

\* The other steps leave both sides as they are.
LEMMA SolventOtherwise ==
    ASSUME ManagerIsSolvent, held' = held, \A u \in Users, t \in Tokens : info(u, t)'.amount = info(u, t).amount
    PROVE  ManagerIsSolvent'
<1>1. \A t \in Tokens : Deposited(t)' = Deposited(t)
  BY DEF Deposited
<1> QED BY <1>1 DEF ManagerIsSolvent, Deposited

LEMMA SolventInitially == ASSUME Init PROVE ManagerIsSolvent
<1> SUFFICES ASSUME NEW t \in Tokens PROVE held[t] = SumFunction(Deposited(t))
  BY DEF ManagerIsSolvent, Deposited
<1>1. PICK f : f = Deposited(t)
  OBVIOUS
<1>2. DOMAIN f = Users /\ \A u \in Users : f[u] = 0
  BY <1>1 DEF Init, info, Deposited
<1>3. SumFunctionOnSet(f, Users) = 0
  BY <1>2, ProtocolAssumption, SumOfZeros
<1> QED BY <1>1, <1>2, <1>3 DEF Init, SumFunction

LEMMA SolventSteps ==
    ASSUME CreditInv, CreditInv', ManagerIsSolvent, [Next]_vars
    PROVE  ManagerIsSolvent'
<1>1. ASSUME NEW u \in Users, NEW t \in Tokens, NEW d \in Int, Booking(u, t, d) PROVE ManagerIsSolvent'
  BY <1>1, SolventShift DEF Booking
<1>2. ASSUME NEW c \in CreditIds, NEW p, Opening(c, p) PROVE ManagerIsSolvent'
  <2>1. \A v \in Users, s \in Tokens : info(v, s).amount \in Nat
    BY HoldingFields DEF CreditInv, TypeOK, ManagerTypeOK, Holdings, info
  <2>2. \A v \in Users, s \in Tokens : info(v, s)'.amount = info(v, s).amount
    BY <1>2, <2>1 DEF Opening, Shifts, EntrySet, info
  <2> QED BY <1>2, <2>2, SolventOtherwise DEF Opening
<1>3. ASSUME NEW c \in CreditIds, NEW status \in {"Repaid", "Liquidated"}, NEW d \in Int, Closing(c, status, d)
      PROVE  ManagerIsSolvent'
  <2>1. PICK p : p = creditPositions[c]
    OBVIOUS
  <2>2. /\ p.borrower \in Users /\ p.collateralToken \in Tokens
        /\ Shifts(p.borrower, p.collateralToken, d, -p.collateralAmount) /\ Pays(p.collateralToken, d)
    BY <1>3, <2>1 DEF Closing, Position
  <2> QED BY <2>2, SolventShift
<1>4. ASSUME Quiet, UNCHANGED held PROVE ManagerIsSolvent'
  BY <1>4, SolventOtherwise DEF Quiet, info
<1>5. CASE UNCHANGED vars
  BY <1>5, SolventOtherwise DEF vars, info
<1> QED BY <1>1, <1>2, <1>3, <1>4, <1>5, NextKinds

\* For any users, tokens, deposits, locks and liquidations: unless somebody swaps or the owner
\* withdraws, the tokens in the contract are exactly the sum of what it has booked for its users.
THEOREM ManagerStaysSolvent == Spec => []ManagerIsSolvent
BY SolventInitially, SolventSteps, CreditInvariant, PTL DEF Spec

-----------------------------------------------------------------------------
\* What a liquidation says of the collateral.

Worth(u) == [t \in supportedCollateral |-> info(u, t).amount * price[t]]
WorthIsNumbers == \A u \in Users : Worth(u) \in [supportedCollateral -> Nat] /\ getCollateralValue(u) \in Nat

LEMMA WorthFacts == CreditInv => WorthIsNumbers
<1> SUFFICES ASSUME CreditInv, NEW u \in Users
             PROVE  Worth(u) \in [supportedCollateral -> Nat] /\ getCollateralValue(u) \in Nat
  BY DEF WorthIsNumbers
<1>1. ASSUME NEW t \in supportedCollateral PROVE info(u, t).amount * price[t] \in Nat
  BY HoldingFields DEF CreditInv, TypeOK, ManagerTypeOK, Holdings, info
<1>2. PICK f : f = Worth(u)
  OBVIOUS
<1>3. f \in [supportedCollateral -> Nat]
  BY <1>1, <1>2 DEF Worth
<1>4. f \in [supportedCollateral -> Int] /\ \A t \in supportedCollateral : f[t] >= 0
  BY <1>3
<1>5. SumFunction(f) \in Nat
  BY <1>4, SumFacts DEF CreditInv
<1> QED BY <1>2, <1>3, <1>5 DEF getCollateralValue, Worth

\* Less than 12000 basis points is less than 120%.
LEMMA RatioFacts ==
    ASSUME NEW value \in Nat, NEW owed \in Nat, owed > 0, (value * 10000) \div owed < 12000
    PROVE  10 * value < 12 * owed
<1>1. PICK q : q = (value * 10000) \div owed
  OBVIOUS
<1>2. q \in Nat /\ value * 10000 < owed * q + owed /\ q < 12000
  <2>1. value * 10000 \in Nat
    OBVIOUS
  <2> QED BY <1>1, <2>1, DivFacts
<1>3. PICK k \in Nat : 12000 = q + 1 + k
  <2>1. 12000 - (q + 1) \in Nat
    BY <1>2
  <2> QED BY <1>2, <2>1
<1>4. owed * 12000 = owed * q + owed + owed * k /\ owed * k >= 0
  BY <1>2, <1>3
<1>5. owed * q \in Int /\ owed * k \in Int
  BY <1>2, <1>3
<1> QED BY <1>2, <1>4, <1>5

SettlesOnce ==
    \A c \in CreditIds :
        creditPositions'[c] # creditPositions[c] =>
            /\ creditPositions[c].status \in {"none", "Active"}
            /\ creditPositions'[c].status = "Liquidated" =>
                  \/ now > creditPositions[c].startTime + creditPositions[c].duration
                  \/ 10 * getCollateralValue(creditPositions[c].borrower) < 12 * TotalOwed(c)

LEMMA LiquidatableFacts ==
    ASSUME CreditInv, NEW c \in CreditIds, creditPositions[c].status = "Active", Liquidatable(c)
    PROVE  \/ now > creditPositions[c].startTime + creditPositions[c].duration
           \/ 10 * getCollateralValue(creditPositions[c].borrower) < 12 * TotalOwed(c)
<1>1. PICK value, owed : value = getCollateralValue(creditPositions[c].borrower) /\ owed = TotalOwed(c)
  OBVIOUS
<1>2. value \in Nat /\ owed \in Nat /\ owed > 0
  BY <1>1, PositionFacts, OwedFacts, WorthFacts DEF WorthIsNumbers
<1>3. CASE Overdue(c)
  BY <1>3 DEF Overdue
<1>4. CASE (value * 10000) \div owed < 12000
  BY <1>1, <1>2, <1>4, RatioFacts
<1> QED BY <1>1, <1>3, <1>4 DEF Liquidatable

LEMMA SettleSteps == CreditInv /\ [Next \/ OwnerStep]_vars => SettlesOnce
<1> SUFFICES ASSUME CreditInv, [Next \/ OwnerStep]_vars PROVE SettlesOnce
  OBVIOUS
<1>1. ASSUME creditPositions' = creditPositions PROVE SettlesOnce
  BY <1>1 DEF SettlesOnce
<1>2. ASSUME NEW c \in CreditIds, NEW p, Opening(c, p) PROVE SettlesOnce
  <2>1. creditPositions'[c] = p /\ (\A d \in CreditIds \ {c} : creditPositions'[d] = creditPositions[d])
        /\ creditPositions[c].status = "none" /\ p.status = "Active"
    BY <1>2 DEF Opening, CreditInv, TypeOK, NoPosition
  <2> QED BY <2>1 DEF SettlesOnce
<1>3. ASSUME NEW c \in CreditIds, NEW status \in {"Repaid", "Liquidated"}, NEW d \in Int, Closing(c, status, d)
      PROVE  SettlesOnce
  <2>1. creditPositions[c].status = "Active" /\ (status = "Liquidated" => Liquidatable(c))
    BY <1>3 DEF Closing
  <2>2. creditPositions'[c].status = status /\ \A e \in CreditIds \ {c} : creditPositions'[e] = creditPositions[e]
    BY <1>3, ClosingFacts
  <2> QED BY <2>1, <2>2, LiquidatableFacts DEF SettlesOnce
<1>4. CASE Next
  <2>1. \A u, t, d : Booking(u, t, d) => creditPositions' = creditPositions
    BY DEF Booking
  <2>2. Quiet => creditPositions' = creditPositions
    BY DEF Quiet
  <2> QED BY <1>1, <1>2, <1>3, <1>4, <2>1, <2>2, NextKinds
<1>5. CASE OwnerStep
  <2>1. creditPositions' = creditPositions
    BY <1>5, OwnerKinds DEF Quiet
  <2> QED BY <1>1, <2>1
<1> QED BY <1>1, <1>4, <1>5 DEF vars

\* For any users, prices and terms, whatever the owner does: a credit repaid or liquidated never
\* changes again, and liquidate takes only one that is past its term or whose borrower's collateral
\* is worth less than 120% of what is owed, rounding included.
THEOREM CreditsSettleForGood == (Spec => CreditsSettleOnce) /\ (OwnerSpec => CreditsSettleOnce)
<1>1. [Next]_vars => [Next \/ OwnerStep]_vars
  OBVIOUS
<1>2. CreditInv /\ [Next \/ OwnerStep]_vars => [SettlesOnce]_vars
  BY SettleSteps
<1> QED BY <1>1, <1>2, CreditInvariant, PTL DEF Spec, OwnerSpec, CreditsSettleOnce, SettlesOnce

-----------------------------------------------------------------------------
\* What swaps do to the value of a user's collateral.

GainsNothing ==
    \A u \in Users :
        UNCHANGED <<held, price>> => getCollateralValue(u)' <= getCollateralValue(u)
                                     \/ supportedCollateral' # supportedCollateral

\* No amount is greater than before.
LEMMA NoMoreWorth ==
    ASSUME CreditInv, CreditInv', NEW u \in Users, supportedCollateral' = supportedCollateral, price' = price,
           \A t \in supportedCollateral : info(u, t)'.amount <= info(u, t).amount
    PROVE  getCollateralValue(u)' <= getCollateralValue(u)
<1>1. PICK S, f, g : S = supportedCollateral /\ f = Worth(u)' /\ g = Worth(u)
  OBVIOUS
<1>2. f \in [S -> Nat] /\ g \in [S -> Nat]
  <2>1. WorthIsNumbers /\ WorthIsNumbers'
    BY WorthFacts, PTL
  <2> QED BY <1>1, <2>1 DEF WorthIsNumbers
<1>3. IsFiniteSet(S)
  BY <1>1 DEF CreditInv
<1>4. ASSUME NEW t \in S PROVE f[t] <= g[t]
  <2>1. PICK a, b, p : a = info(u, t)'.amount /\ b = info(u, t).amount /\ p = price[t]
    OBVIOUS
  <2>2. t \in Tokens /\ a \in Nat /\ b \in Nat /\ p \in Nat /\ a <= b
    <3>1. t \in Tokens /\ p \in Nat
      BY <1>1, <2>1 DEF CreditInv, TypeOK, ManagerTypeOK
    <3>2. userCollateral \in Holdings /\ userCollateral' \in Holdings
      BY DEF CreditInv, TypeOK, ManagerTypeOK, Holdings
    <3> QED BY <1>1, <2>1, <3>1, <3>2, HoldingFields DEF info
  <2>3. PICK d \in Nat : b = a + d
    <3>1. b - a \in Nat
      BY <2>2
    <3> QED BY <2>2, <3>1
  <2>4. f[t] = a * p /\ g[t] = b * p
    BY <1>1, <2>1 DEF Worth
  <2>5. b * p = a * p + d * p /\ d * p \in Nat /\ a * p \in Nat
    BY <2>2, <2>3
  <2> QED BY <2>4, <2>5
<1>5. SumFunction(f) <= SumFunction(g)
  <2>1. f \in [S -> Int] /\ g \in [S -> Int]
    BY <1>2
  <2> QED BY <1>3, <1>4, <2>1, SumFacts
<1> QED BY <1>1, <1>5 DEF getCollateralValue, Worth

\* What amounts are worth at prices.
Valued(S, m, p) == [s \in S |-> m[s] * p[s]]
Differs(S, m, n, t) == \A s \in S \ {t} : n[s] = m[s]
MovesWorth(S, m, n, p, t) ==
    SumFunction(Valued(S, n, p)) = SumFunction(Valued(S, m, p)) + n[t] * p[t] - m[t] * p[t]

\* What one entry contributes.
LEMMA EntryWorth ==
    ASSUME NEW S, IsFiniteSet(S), NEW t \in S, NEW m \in [S -> Nat], NEW n \in [S -> Nat], NEW p \in [S -> Nat],
           Differs(S, m, n, t)
    PROVE  MovesWorth(S, m, n, p, t)
<1>1. PICK f, g : f = Valued(S, m, p) /\ g = Valued(S, n, p)
  OBVIOUS
<1>2. ASSUME NEW s \in S PROVE m[s] * p[s] \in Int /\ n[s] * p[s] \in Int
  <2>1. m[s] \in Nat /\ n[s] \in Nat /\ p[s] \in Nat
    OBVIOUS
  <2> QED BY <2>1
<1>3. f \in [S -> Int] /\ g \in [S -> Int] /\ \A y \in S \ {t} : g[y] = f[y]
  BY <1>1, <1>2 DEF Valued, Differs
<1>4. SumFunction(g) = SumFunction(f) + g[t] - f[t]
  BY <1>3, SumMoves
<1>5. g[t] = n[t] * p[t] /\ f[t] = m[t] * p[t]
  BY <1>1 DEF Valued
<1> QED BY <1>1, <1>4, <1>5 DEF MovesWorth

\* Amounts m become k when a of one token is taken, and n when o of another is given for it.
LEMMA ExchangeWorth ==
    ASSUME NEW S, IsFiniteSet(S), NEW from \in S, NEW to \in S, NEW p \in [S -> Nat], NEW a \in Nat, NEW o \in Nat,
           NEW m \in [S -> Nat], NEW k \in [S -> Nat], NEW n \in [S -> Nat], o * p[to] <= a * p[from],
           k[from] = m[from] - a, n[to] = k[to] + o,
           Differs(S, m, k, from), Differs(S, k, n, to)
    PROVE  SumFunction(Valued(S, n, p)) <= SumFunction(Valued(S, m, p))
<1>1. PICK x, y, z : /\ x = SumFunction(Valued(S, m, p))
                     /\ y = SumFunction(Valued(S, k, p))
                     /\ z = SumFunction(Valued(S, n, p))
  OBVIOUS
<1>2. y = x + k[from] * p[from] - m[from] * p[from]
  <2>1. MovesWorth(S, m, k, p, from)
    BY EntryWorth
  <2> QED BY <1>1, <2>1, Zenon DEF MovesWorth
<1>3. z = y + n[to] * p[to] - k[to] * p[to]
  <2>1. MovesWorth(S, k, n, p, to)
    BY EntryWorth
  <2> QED BY <1>1, <2>1, Zenon DEF MovesWorth
<1>4. x \in Int
  <2>1. \A s \in S : m[s] * p[s] \in Int
    <3> TAKE s \in S
    <3>1. m[s] \in Nat /\ p[s] \in Nat
      OBVIOUS
    <3> QED BY <3>1
  <2>2. PICK f : f = Valued(S, m, p)
    OBVIOUS
  <2>3. f \in [S -> Int]
    BY <2>1, <2>2 DEF Valued
  <2> QED BY <1>1, <2>2, <2>3, SumFacts
<1>5. PICK kf, pf, kt, pt : kf = k[from] /\ pf = p[from] /\ kt = k[to] /\ pt = p[to]
  OBVIOUS
<1>6. kf \in Nat /\ pf \in Nat /\ kt \in Nat /\ pt \in Nat
  BY <1>5
<1>7. m[from] = kf + a /\ n[to] = kt + o /\ o * pt <= a * pf
  <2>1. m[from] \in Nat
    OBVIOUS
  <2> QED BY <1>5, <1>6, <2>1
<1>8. (kf + a) * pf = kf * pf + a * pf /\ (kt + o) * pt = kt * pt + o * pt
  BY <1>6
<1>9. kf * pf \in Int /\ a * pf \in Int /\ kt * pt \in Int /\ o * pt \in Int
  BY <1>6
<1>10. y = x - a * pf /\ z = y + o * pt
  BY <1>2, <1>3, <1>4, <1>5, <1>7, <1>8, <1>9
<1> QED BY <1>1, <1>4, <1>7, <1>9, <1>10

LEMMA SwapWorth ==
    ASSUME CreditInv, NEW v \in Users, NEW u \in Users, NEW from \in Tokens, NEW to \in Tokens, NEW a \in Deposits,
           swapCollateral(u, from, to, a), v = u
    PROVE  getCollateralValue(v)' <= getCollateralValue(v)
<1>1. PICK S, o : S = supportedCollateral /\ o = SwapOut(from, to, a)
  OBVIOUS
<1>2. from \in S /\ to \in S /\ S \subseteq Tokens /\ IsFiniteSet(S) /\ price \in [Tokens -> Nat]
  BY <1>1 DEF swapCollateral, CreditInv, TypeOK, ManagerTypeOK
<1>3. PICK h : /\ EntrySet(userCollateral, h, u, from, info(u, from).amount - a, info(u, from).lockedAmount)
               /\ EntrySet(h, userCollateral', u, to, h[u][to].amount + o, h[u][to].lockedAmount)
               /\ UNCHANGED <<supportedCollateral, price>>
  BY <1>1, SwapShifts
<1>4. userCollateral \in Holdings /\ h \in Holdings /\ userCollateral' \in Holdings
  BY <1>3 DEF EntrySet, CreditInv, TypeOK, ManagerTypeOK, Holdings
<1>5. PICK m, k, n, p : /\ m = [s \in S |-> userCollateral[u][s].amount] /\ k = [s \in S |-> h[u][s].amount]
                        /\ n = [s \in S |-> userCollateral'[u][s].amount] /\ p = [s \in S |-> price[s]]
  OBVIOUS
<1>6. m \in [S -> Nat] /\ k \in [S -> Nat] /\ n \in [S -> Nat] /\ p \in [S -> Nat]
  <2>1. \A s \in S : /\ userCollateral[u][s].amount \in Nat /\ h[u][s].amount \in Nat
                    /\ userCollateral'[u][s].amount \in Nat
    BY <1>2, <1>4, HoldingFields
  <2> QED BY <1>2, <1>5, <2>1
<1>7. k[from] = m[from] - a /\ Differs(S, m, k, from)
  BY <1>2, <1>3, <1>5 DEF EntrySet, info, Differs
<1>8. n[to] = k[to] + o /\ Differs(S, k, n, to)
  BY <1>2, <1>3, <1>5 DEF EntrySet, Differs
<1>9. o \in Nat /\ a \in Nat /\ o * p[to] <= a * p[from]
  BY <1>1, <1>2, <1>5, SwapFacts
<1>10. SumFunction(Valued(S, n, p)) <= SumFunction(Valued(S, m, p))
  BY <1>2, <1>6, <1>7, <1>8, <1>9, ExchangeWorth
<1>11. Valued(S, n, p) = Worth(u)' /\ Valued(S, m, p) = Worth(u)
  BY <1>1, <1>3, <1>5 DEF Worth, Valued, info
<1> QED BY <1>10, <1>11 DEF getCollateralValue, Worth

LEMMA GainSteps == CreditInv /\ CreditInv' /\ [Next \/ OwnerStep]_vars => GainsNothing
<1> SUFFICES ASSUME CreditInv, CreditInv', [Next \/ OwnerStep]_vars, NEW v \in Users,
                    UNCHANGED <<held, price, supportedCollateral>>
             PROVE  getCollateralValue(v)' <= getCollateralValue(v)
  BY DEF GainsNothing
<1>1. \A t \in Tokens : info(v, t).amount \in Nat
  BY HoldingFields DEF CreditInv, TypeOK, ManagerTypeOK, Holdings, info
<1>2. supportedCollateral \subseteq Tokens
  BY DEF CreditInv, TypeOK, ManagerTypeOK
<1>3. ASSUME NEW u, NEW t, NEW d \in Int, NEW l, Shifts(u, t, d, l), d <= 0
      PROVE  getCollateralValue(v)' <= getCollateralValue(v)
  <2>1. \A s \in Tokens : info(v, s)'.amount <= info(v, s).amount
    BY <1>1, <1>3 DEF Shifts, EntrySet, info
  <2> QED BY <1>2, <2>1, NoMoreWorth
<1>4. ASSUME userCollateral' = userCollateral PROVE getCollateralValue(v)' <= getCollateralValue(v)
  <2>1. \A s \in Tokens : info(v, s)'.amount <= info(v, s).amount
    BY <1>1, <1>4 DEF info
  <2> QED BY <1>2, <2>1, NoMoreWorth
<1>5. CASE Next
  <2>1. ASSUME NEW u \in Users, NEW t \in Tokens, NEW d \in Int, Booking(u, t, d), d > 0 => held' # held
        PROVE  getCollateralValue(v)' <= getCollateralValue(v)
    BY <1>3, <2>1 DEF Booking
  <2>2. ASSUME NEW c \in CreditIds, NEW p, Opening(c, p) PROVE getCollateralValue(v)' <= getCollateralValue(v)
    BY <1>3, <2>2 DEF Opening
  <2>3. ASSUME NEW c \in CreditIds, NEW status \in {"Repaid", "Liquidated"}, NEW d \in Int, Closing(c, status, d)
        PROVE  getCollateralValue(v)' <= getCollateralValue(v)
    BY <1>3, <2>3 DEF Closing
  <2>4. Quiet => userCollateral' = userCollateral
    BY DEF Quiet
  <2> QED BY <1>4, <1>5, <2>1, <2>2, <2>3, <2>4, NextKinds
<1>6. CASE OwnerStep
  <2>1. ASSUME NEW u \in Users, NEW from \in Tokens, NEW to \in Tokens, NEW a \in Deposits,
               swapCollateral(u, from, to, a)
        PROVE  getCollateralValue(v)' <= getCollateralValue(v)
    <3>1. CASE v = u
      BY <2>1, <3>1, SwapWorth
    <3>2. CASE v # u
      <4>1. \A s \in Tokens : userCollateral'[v][s] = userCollateral[v][s]
        BY <2>1, <3>2, SwapShifts DEF EntrySet
      <4>2. \A s \in Tokens : info(v, s)'.amount <= info(v, s).amount
        BY <1>1, <4>1 DEF info
      <4> QED BY <1>2, <4>2, NoMoreWorth
    <3> QED BY <3>1, <3>2
  <2>2. Quiet => userCollateral' = userCollateral
    BY DEF Quiet
  <2> QED BY <1>4, <1>6, <2>1, <2>2, OwnerKinds
<1> QED BY <1>4, <1>5, <1>6 DEF vars

\* For any tokens, prices and amounts, a token swapped for itself included: no step that moves
\* neither the contract's tokens nor the prices leaves a user with more collateral value than before,
\* so that what _executeSwap computes, rounded down twice and less its fee, is never a gain.
THEOREM SwapsNeverGain == (Spec => SwapsGainNothing) /\ (OwnerSpec => SwapsGainNothing)
<1>1. [Next]_vars => [Next \/ OwnerStep]_vars
  OBVIOUS
<1>2. CreditInv /\ CreditInv' /\ [Next \/ OwnerStep]_vars => [GainsNothing]_vars
  BY GainSteps
<1> QED BY <1>1, <1>2, CreditInvariant, PTL DEF Spec, OwnerSpec, SwapsGainNothing, GainsNothing

-----------------------------------------------------------------------------
\* What the oracle is told.

\* A history is a record whose counters are numbers; its other fields decide nothing here.
IsHistory(h) ==
    /\ h = [score |-> h.score, totalBorrowed |-> h.totalBorrowed, totalRepaid |-> h.totalRepaid,
            defaultCount |-> h.defaultCount, onTimePayments |-> h.onTimePayments,
            utilizationRate |-> h.utilizationRate, known |-> h.known]
    /\ h.onTimePayments \in Nat /\ h.defaultCount \in Nat

IsPosition(p) ==
    /\ p = [borrower |-> p.borrower, principal |-> p.principal, interestRate |-> p.interestRate,
            collateralAmount |-> p.collateralAmount, collateralToken |-> p.collateralToken,
            startTime |-> p.startTime, duration |-> p.duration, status |-> p.status]
    /\ p.borrower \in Users /\ p.status \in {"Active", "Repaid", "Liquidated"}

Settled(u, status) == {c \in CreditIds : creditPositions[c].status = status /\ creditPositions[c].borrower = u}

SettledInv ==
    /\ creditHistory = [u \in Users |-> creditHistory[u]] /\ \A u \in Users : IsHistory(creditHistory[u])
    /\ creditPositions = [c \in CreditIds |-> creditPositions[c]]
    /\ \A c \in CreditIds : creditPositions[c] = NoPosition \/ IsPosition(creditPositions[c])
    /\ HistoryMatchesCredits

LEMMA SettledInitially == Init => SettledInv
<1> SUFFICES ASSUME Init PROVE SettledInv
  OBVIOUS
<1>1. creditHistory = [u \in Users |-> NewHistory] /\ creditPositions = [c \in CreditIds |-> NoPosition]
  BY DEF Init, OracleInit
<1>2. IsHistory(NewHistory)
  BY DEF IsHistory, NewHistory
<1>3. ASSUME NEW u \in Users, NEW status \in {"Repaid", "Liquidated"} PROVE Settled(u, status) = {}
  BY <1>1 DEF Settled, NoPosition
<1>4. Cardinality({}) = 0
  BY FS_EmptySet
<1>5. HistoryMatchesCredits
  BY <1>1, <1>3, <1>4 DEF HistoryMatchesCredits, Settled, NewHistory
<1> QED BY <1>1, <1>2, <1>5 DEF SettledInv

LEMMA SettledUnchanged == SettledInv /\ UNCHANGED <<creditHistory, creditPositions>> => SettledInv'
BY DEF SettledInv, HistoryMatchesCredits

\* A new credit is settled in no way.
LEMMA RequestKeeps ==
    ASSUME SettledInv, NEW c \in CreditIds, NEW u \in Users, NEW principal, NEW t, NEW collateral, NEW duration,
           requestCredit(c, u, principal, t, collateral, duration)
    PROVE  SettledInv'
<1> DEFINE p == [borrower |-> u, principal |-> principal, interestRate |-> InterestRate(calculateCreditScore(u)),
                 collateralAmount |-> collateral, collateralToken |-> t, startTime |-> now,
                 duration |-> duration, status |-> "Active"]
<1>1. creditHistory' = creditHistory /\ creditPositions' = [creditPositions EXCEPT ![c] = p]
      /\ creditPositions[c] = NoPosition
  BY DEF requestCredit, oracleVars
<1>2. IsPosition(p) /\ p.status = "Active" /\ NoPosition.status = "none"
  BY DEF IsPosition, NoPosition
<1> HIDE DEF p
<1>3. creditPositions'[c] = p /\ (\A d \in CreditIds \ {c} : creditPositions'[d] = creditPositions[d])
      /\ creditPositions' = [d \in CreditIds |-> creditPositions'[d]]
  BY <1>1 DEF SettledInv
<1>4. ASSUME NEW v \in Users, NEW status \in {"Repaid", "Liquidated"} PROVE Settled(v, status)' = Settled(v, status)
  <2>1. creditPositions[c].status = "none" /\ creditPositions'[c].status = "Active"
    BY <1>1, <1>2, <1>3, Zenon
  <2>2. c \notin Settled(v, status) /\ c \notin Settled(v, status)'
    BY <2>1 DEF Settled
  <2>3. \A d \in CreditIds \ {c} : d \in Settled(v, status)' <=> d \in Settled(v, status)
    BY <1>3 DEF Settled
  <2> QED BY <2>2, <2>3 DEF Settled
<1>5. HistoryMatchesCredits'
  <2>1. ASSUME NEW v \in Users
        PROVE  /\ creditHistory[v].onTimePayments = Cardinality(Settled(v, "Repaid"))
               /\ creditHistory[v].defaultCount = Cardinality(Settled(v, "Liquidated"))
    BY DEF SettledInv, HistoryMatchesCredits, Settled
  <2>2. ASSUME NEW v \in Users
        PROVE  /\ creditHistory'[v].onTimePayments = Cardinality(Settled(v, "Repaid")')
               /\ creditHistory'[v].defaultCount = Cardinality(Settled(v, "Liquidated")')
    BY <1>1, <1>4, <2>1
  <2> QED BY <2>2 DEF HistoryMatchesCredits, Settled
<1>6. \A d \in CreditIds : creditPositions'[d] = NoPosition \/ IsPosition(creditPositions'[d])
  BY <1>2, <1>3 DEF SettledInv
<1> QED BY <1>1, <1>3, <1>5, <1>6 DEF SettledInv

HistoryOf(s, b, r, d, o, x, k) ==
    [score |-> s, totalBorrowed |-> b, totalRepaid |-> r, defaultCount |-> d, onTimePayments |-> o,
     utilizationRate |-> x, known |-> k]

\* n is the history h after an update; `yes` stands for TRUE, which the prover needs a name for.
Told(h, type, value, yes, score, n) == n = [[Recorded(h, type, value) EXCEPT !.known = yes] EXCEPT !.score = score]

\* What becomes of a history that is told of a payment on time, or of a default.
LEMMA PaymentRecorded ==
    ASSUME NEW h, IsHistory(h), NEW value, NEW yes, NEW score, NEW n, Told(h, "OnTimePayment", value, yes, score, n)
    PROVE  IsHistory(n) /\ n.onTimePayments = h.onTimePayments + 1 /\ n.defaultCount = h.defaultCount
<1>1. PICK s, b, r, d, o, x, k : h = HistoryOf(s, b, r, d, o, x, k)
  BY DEF IsHistory, HistoryOf
<1>2. h.onTimePayments = o /\ h.defaultCount = d /\ o \in Nat /\ d \in Nat
  BY <1>1 DEF IsHistory, HistoryOf
<1>3. PICK g, m : /\ g = [h EXCEPT !.onTimePayments = @ + 1, !.totalRepaid = @ + value]
                  /\ m = [g EXCEPT !.known = yes] /\ n = [m EXCEPT !.score = score]
  BY DEF Recorded, Told
<1>4. PICK repaid, paid, missed : repaid = r + value /\ paid = o + 1 /\ missed = d
  OBVIOUS
<1>5. g = HistoryOf(s, b, repaid, missed, paid, x, k)
  BY <1>1, <1>3, <1>4 DEF HistoryOf
<1>6. n = HistoryOf(score, b, repaid, missed, paid, x, yes)
  <2>1. m = [g EXCEPT !.known = yes]
    BY <1>3
  <2>2. m = HistoryOf(s, b, repaid, missed, paid, x, yes)
    BY <1>5, <2>1 DEF HistoryOf
  <2>3. n = [m EXCEPT !.score = score]
    BY <1>3
  <2> QED BY <2>2, <2>3 DEF HistoryOf
<1>7. paid \in Nat /\ missed \in Nat
  BY <1>2, <1>4
<1>8. IsHistory(n) /\ n.onTimePayments = paid /\ n.defaultCount = missed
  BY <1>6, <1>7 DEF IsHistory, HistoryOf
<1> QED BY <1>2, <1>4, <1>8

LEMMA DefaultRecorded ==
    ASSUME NEW h, IsHistory(h), NEW value, NEW yes, NEW score, NEW n, Told(h, "Default", value, yes, score, n)
    PROVE  IsHistory(n) /\ n.onTimePayments = h.onTimePayments /\ n.defaultCount = h.defaultCount + 1
<1>1. PICK s, b, r, d, o, x, k : h = HistoryOf(s, b, r, d, o, x, k)
  BY DEF IsHistory, HistoryOf
<1>2. h.onTimePayments = o /\ h.defaultCount = d /\ o \in Nat /\ d \in Nat
  BY <1>1 DEF IsHistory, HistoryOf
<1>3. PICK g, m : /\ g = [h EXCEPT !.defaultCount = @ + 1]
                  /\ m = [g EXCEPT !.known = yes] /\ n = [m EXCEPT !.score = score]
  BY DEF Recorded, Told
<1>4. PICK repaid, paid, missed : repaid = r /\ paid = o /\ missed = d + 1
  OBVIOUS
<1>5. g = HistoryOf(s, b, repaid, missed, paid, x, k)
  BY <1>1, <1>3, <1>4 DEF HistoryOf
<1>6. n = HistoryOf(score, b, repaid, missed, paid, x, yes)
  <2>1. m = [g EXCEPT !.known = yes]
    BY <1>3
  <2>2. m = HistoryOf(s, b, repaid, missed, paid, x, yes)
    BY <1>5, <2>1 DEF HistoryOf
  <2>3. n = [m EXCEPT !.score = score]
    BY <1>3
  <2> QED BY <2>2, <2>3 DEF HistoryOf
<1>7. paid \in Nat /\ missed \in Nat
  BY <1>2, <1>4
<1>8. IsHistory(n) /\ n.onTimePayments = paid /\ n.defaultCount = missed
  BY <1>6, <1>7 DEF IsHistory, HistoryOf
<1> QED BY <1>2, <1>4, <1>8

\* An active credit is settled as `status` and the oracle is told as `type`.
LEMMA SettlingKeeps ==
    ASSUME SettledInv, NEW c \in CreditIds, creditPositions[c].status = "Active",
           NEW status \in {"Repaid", "Liquidated"}, NEW type, NEW value,
           type = IF status = "Repaid" THEN "OnTimePayment" ELSE "Default",
           creditPositions' = [creditPositions EXCEPT ![c].status = status],
           updateCreditMetrics(creditPositions[c].borrower, type, value)
    PROVE  SettledInv'
<1> DEFINE p == creditPositions[c]
           u == p.borrower
           h == creditHistory[u]
           onTime == IF status = "Repaid" THEN h.onTimePayments + 1 ELSE h.onTimePayments
           defaults == IF status = "Liquidated" THEN h.defaultCount + 1 ELSE h.defaultCount
<1>1. IsPosition(p) /\ u \in Users
  BY DEF SettledInv, NoPosition, IsPosition
<1>2. IsHistory(h)
  BY <1>1 DEF SettledInv
<1>3. PICK n : /\ creditHistory' = [creditHistory EXCEPT ![u] = n]
               /\ n.onTimePayments = onTime /\ n.defaultCount = defaults /\ IsHistory(n)
  <2> DEFINE recorded == [Recorded(h, type, value) EXCEPT !.known = TRUE]
  <2>1. PICK yes : yes = TRUE
    BY Zenon
  <2>2. PICK score : creditHistory' = [creditHistory EXCEPT ![u] = [recorded EXCEPT !.score = score]]
    BY DEF updateCreditMetrics
  <2>3. PICK hh, n : hh = h /\ n = [[Recorded(hh, type, value) EXCEPT !.known = yes] EXCEPT !.score = score]
    OBVIOUS
  <2>4. creditHistory' = [creditHistory EXCEPT ![u] = n]
    BY <2>1, <2>2, <2>3, Zenon
  <2>5. IsHistory(hh) /\ Told(hh, type, value, yes, score, n)
    BY <1>2, <2>3, Zenon DEF Told
  <2>6. IsHistory(n) /\ n.onTimePayments = onTime /\ n.defaultCount = defaults
    <3>1. CASE status = "Repaid"
      <4>1. type = "OnTimePayment"
        BY <3>1
      <4>2. IsHistory(n) /\ n.onTimePayments = hh.onTimePayments + 1 /\ n.defaultCount = hh.defaultCount
        BY <2>5, <4>1, PaymentRecorded
      <4> QED BY <2>3, <3>1, <4>2
    <3>2. CASE status = "Liquidated"
      <4>1. type = "Default"
        BY <3>2
      <4>2. IsHistory(n) /\ n.onTimePayments = hh.onTimePayments /\ n.defaultCount = hh.defaultCount + 1
        BY <2>5, <4>1, DefaultRecorded
      <4> QED BY <2>3, <3>2, <4>2
    <3> QED BY <3>1, <3>2
  <2> QED BY <2>4, <2>6
<1>4. creditHistory'[u] = n /\ (\A v \in Users \ {u} : creditHistory'[v] = creditHistory[v])
      /\ creditHistory' = [v \in Users |-> creditHistory'[v]]
  BY <1>1, <1>3 DEF SettledInv
<1> DEFINE q == [p EXCEPT !.status = status]
<1>5. creditPositions'[c] = q /\ (\A d \in CreditIds \ {c} : creditPositions'[d] = creditPositions[d])
      /\ creditPositions' = [d \in CreditIds |-> creditPositions'[d]]
  BY DEF SettledInv
<1>6. IsPosition(q) /\ q.status = status /\ q.borrower = u
  BY <1>1 DEF IsPosition
<1> HIDE DEF q
<1>7. Settled(u, status)' = Settled(u, status) \union {c} /\ c \notin Settled(u, status)
  BY <1>5, <1>6 DEF Settled
<1>8. ASSUME NEW v \in Users, NEW s \in {"Repaid", "Liquidated"}, ~(v = u /\ s = status)
      PROVE Settled(v, s)' = Settled(v, s)
  BY <1>5, <1>6, <1>8 DEF Settled
<1>9. IsFiniteSet(Settled(u, status))
  BY ProtocolAssumption, FS_Subset DEF Settled
<1>10. Cardinality(Settled(u, status)') = Cardinality(Settled(u, status)) + 1
  BY <1>7, <1>9, FS_AddElement
<1>11. ASSUME NEW v \in Users
       PROVE /\ Cardinality(Settled(v, "Repaid")) = creditHistory[v].onTimePayments
             /\ Cardinality(Settled(v, "Liquidated")) = creditHistory[v].defaultCount
  BY DEF SettledInv, HistoryMatchesCredits, Settled
<1>12. ASSUME NEW v \in Users
       PROVE /\ Cardinality(Settled(v, "Repaid")') = creditHistory'[v].onTimePayments
             /\ Cardinality(Settled(v, "Liquidated")') = creditHistory'[v].defaultCount
  <2>1. CASE v # u
    BY <1>4, <1>8, <1>11, <2>1
  <2>2. CASE v = u /\ status = "Repaid"
    <3>1. onTime = h.onTimePayments + 1 /\ defaults = h.defaultCount
      BY <2>2
    <3>2. Cardinality(Settled(u, "Repaid")') = h.onTimePayments + 1
      BY <1>1, <1>10, <1>11, <2>2
    <3>3. Cardinality(Settled(u, "Liquidated")') = h.defaultCount
      BY <1>1, <1>8, <1>11, <2>2
    <3> QED BY <1>3, <1>4, <2>2, <3>1, <3>2, <3>3
  <2>3. CASE v = u /\ status = "Liquidated"
    <3>1. onTime = h.onTimePayments /\ defaults = h.defaultCount + 1
      BY <2>3
    <3>2. Cardinality(Settled(u, "Liquidated")') = h.defaultCount + 1
      BY <1>1, <1>10, <1>11, <2>3
    <3>3. Cardinality(Settled(u, "Repaid")') = h.onTimePayments
      BY <1>1, <1>8, <1>11, <2>3
    <3> QED BY <1>3, <1>4, <2>3, <3>1, <3>2, <3>3
  <2> QED BY <2>1, <2>2, <2>3
<1>13. HistoryMatchesCredits'
  BY <1>12 DEF HistoryMatchesCredits, Settled
<1>14. \A v \in Users : IsHistory(creditHistory'[v])
  BY <1>3, <1>4 DEF SettledInv
<1>15. \A d \in CreditIds : creditPositions'[d] = NoPosition \/ IsPosition(creditPositions'[d])
  BY <1>5, <1>6 DEF SettledInv
<1> QED BY <1>4, <1>5, <1>13, <1>14, <1>15 DEF SettledInv

LEMMA SettledStep == SettledInv /\ (Next \/ OwnerStep) => SettledInv'
<1> SUFFICES ASSUME SettledInv, Next \/ OwnerStep PROVE SettledInv'
  OBVIOUS
<1>1. CASE ManagerStep
  BY <1>1, SettledUnchanged DEF ManagerStep, oracleVars
<1>2. CASE PassTime
  BY <1>2, SettledUnchanged DEF PassTime, oracleVars
<1>3. CASE OwnerStep
  BY <1>3, SettledUnchanged DEF OwnerStep, oracleVars
<1>4. CASE CreditStep
  <2>1. ASSUME NEW c \in CreditIds, NEW u \in Users, NEW principal \in Principals, NEW t \in Tokens,
               NEW collateral \in Locks, NEW duration \in Durations,
               requestCredit(c, u, principal, t, collateral, duration)
        PROVE SettledInv'
    BY <2>1, RequestKeeps
  <2>2. ASSUME NEW c \in CreditIds, repayCredit(c, TotalOwed(c)) PROVE SettledInv'
    BY <2>2, SettlingKeeps DEF repayCredit
  <2>3. ASSUME NEW c \in CreditIds, liquidate(c) PROVE SettledInv'
    BY <2>3, SettlingKeeps DEF liquidate
  <2> QED BY <1>4, <2>1, <2>2, <2>3 DEF CreditStep
<1> QED BY <1>1, <1>2, <1>3, <1>4 DEF Next

\* For any users, credits, prices and terms, with and without the owner's interventions: the
\* oracle's history counts one payment on time for each credit repaid, one default for each liquidated.
THEOREM HistoriesMatchCredits == (Spec => []HistoryMatchesCredits) /\ (OwnerSpec => []HistoryMatchesCredits)
<1>1. SettledInv /\ [Next]_vars => SettledInv'
  BY SettledStep, SettledUnchanged DEF vars
<1>2. SettledInv /\ [Next \/ OwnerStep]_vars => SettledInv'
  BY SettledStep, SettledUnchanged DEF vars
<1>3. SettledInv => HistoryMatchesCredits
  BY DEF SettledInv
<1> QED BY SettledInitially, <1>1, <1>2, <1>3, PTL DEF Spec, OwnerSpec
================================================================================
