------------------------------ MODULE Assessments ------------------------------
(***************************************************************************)
(* The engines that judge an application and keep nothing: underwriting    *)
(* and the offers made on its assessment, the risk engine, the compliance  *)
(* engine and the rate the loan route estimates.  Each is an operator on   *)
(* what it is asked; a behaviour is one question after the other.  Rates   *)
(* are in basis points, shares in thousandths, account ages in months.     *)
(***************************************************************************)
EXTENDS Integers, Sequences, FiniteSets

CONSTANTS Incomes, AccountAges, Amounts, Terms,         \* what underwriting and offers are asked with
          CreditScores, JobDurations, DebtShares, Ages,  \* what the risk engine and the loan route are
          Businesses                                    \* [years, revenue, employees]

\* What the engines are told is not negative.
ASSUME AssessmentsAssumption ==
    /\ Incomes \union AccountAges \union Amounts \union Terms \subseteq Nat
    /\ CreditScores \union JobDurations \union DebtShares \union Ages \subseteq Nat
    /\ Businesses \subseteq [years : Nat, revenue : Nat, employees : Nat]

VARIABLE question     \* the last one asked

\* The value of the first of the <<threshold, value>> pairs, thresholds descending, that x reaches.
Band(x, bands, otherwise) ==
    LET n == Len(bands)
        i == CHOOSE k \in 1 .. (n + 1) : (k > n \/ x >= bands[k][1]) /\ (k = 1 \/ x < bands[k - 1][1]) IN
    IF i > n THEN otherwise ELSE bands[i][2]
AtMost(a, b) == IF a < b THEN a ELSE b
AtLeast(a, b) == IF a > b THEN a ELSE b
Round(a, b) == (2 * a + b) \div (2 * b)

-----------------------------------------------------------------------------
\* Underwriting.  Debts are not known yet: without an income the ratio is 1, with one 0.
debtToIncome(applicant) == IF applicant.income > 0 THEN 0 ELSE 1000
calculateRiskFactors(applicant) ==
    [debtToIncomeRatio |-> debtToIncome(applicant), creditUtilization |-> 0, paymentHistory |-> 800,
     months |-> applicant.months]

\* Of the rules listed only three are applied.
applyBusinessRules(applicant, factors) ==
    LET violations == Cardinality({v \in {"debt", "kyc"} :
                          IF v = "debt" THEN factors.debtToIncomeRatio > 400 ELSE ~applicant.verified})
        warnings == IF factors.months < 3 THEN 1 ELSE 0 IN
    [score |-> AtLeast(0, 1000 - 300 * violations - 100 * warnings), passed |-> violations = 0]

\* Faulty variant: an account gains by being new.
HeuristicOfNewcomers(factors) ==
    LET byDebt == Band(-factors.debtToIncomeRatio, <<<<-199, 200>>, <<-299, 100>>, <<-500, 0>>>>, -300)
        byAge == Band(factors.months, <<<<25, -200>>, <<6, 0>>>>, 100)
        byUse == Band(-factors.creditUtilization, <<<<-299, 100>>, <<-800, 0>>>>, -200)
        byHistory == ((factors.paymentHistory - 500) * 4) \div 10 IN
    AtLeast(0, AtMost(1000, 500 + byDebt + byHistory + byAge + byUse))

\* No model is ever loaded.
calculateHeuristicScore(factors) ==
    LET byDebt == Band(-factors.debtToIncomeRatio, <<<<-199, 200>>, <<-299, 100>>, <<-500, 0>>>>, -300)
        byAge == Band(factors.months, <<<<25, 100>>, <<6, 0>>>>, -200)
        byUse == Band(-factors.creditUtilization, <<<<-299, 100>>, <<-800, 0>>>>, -200)
        byHistory == ((factors.paymentHistory - 500) * 4) \div 10 IN
    AtLeast(0, AtMost(1000, 500 + byDebt + byHistory + byAge + byUse))

calculateRiskGrade(score) == Band(score, <<<<800, "A">>, <<700, "B">>, <<600, "C">>, <<500, "D">>>>, "E")
makeRecommendation(score, passed) ==
    IF ~passed THEN "reject"
    ELSE Band(score, <<<<700, "approve">>, <<600, "approve_with_conditions">>,
                       <<400, "refer_for_manual_review">>>>, "reject")
calculateRecommendedTerms(amount, score) ==
    LET recommended == Round(amount * Band(score, <<<<700, 10>>, <<600, 7>>>>, 5), 10) IN
    [amount |-> recommended,
     rate |-> Band(score, <<<<800, 800>>, <<700, 1200>>, <<600, 1800>>, <<500, 2500>>>>, 3500),
     months |-> Band(recommended, <<<<5000001, 36>>, <<1000001, 24>>>>, 12)]
calculateConfidenceLevel(factors) == 500 + (IF factors.months > 12 THEN 200 ELSE 0) + (IF factors.paymentHistory > 0 THEN 200 ELSE 0)

assessCreditApplication(applicant) ==
    LET factors == calculateRiskFactors(applicant)
        rules == applyBusinessRules(applicant, factors)
        score == (6 * rules.score + 4 * calculateHeuristicScore(factors)) \div 10 IN
    [score |-> score, grade |-> calculateRiskGrade(score),
     recommendation |-> makeRecommendation(score, rules.passed),
     terms |-> calculateRecommendedTerms(applicant.amount, score),
     confidence |-> calculateConfidenceLevel(factors)]

-----------------------------------------------------------------------------
\* Offers.
Lenders ==
    {[id |-> "bank", minAmount |-> 100000, maxAmount |-> 10000000, minMonths |-> 6, maxMonths |-> 36,
      least |-> 800, most |-> 2500, grades |-> {"A", "B", "C"}, available |-> 100000000, hours |-> 48],
     [id |-> "fintech", minAmount |-> 50000, maxAmount |-> 5000000, minMonths |-> 3, maxMonths |-> 24,
      least |-> 1200, most |-> 3500, grades |-> {"B", "C", "D", "E"}, available |-> 50000000, hours |-> 4]}
BaseRate == 1200
riskPremiums == [A |-> 200, B |-> 500, C |-> 800, D |-> 1200, E |-> 1800]

filterCompatibleProviders(ask, assessment) ==
    {p \in Lenders : /\ ask.amount >= p.minAmount /\ ask.amount <= p.maxAmount
                     /\ ask.months >= p.minMonths /\ ask.months <= p.maxMonths
                     /\ assessment.grade \in p.grades /\ p.available >= ask.amount}

\* risk .25, amount .15, rate .25, speed .10 and reliability .10 of 0.8, of .85 in all.
calculateMatchingScore(p, ask, rate, amount) ==
    LET amountScore == (1000 * amount) \div ask.amount
        rateScore == AtLeast(0, 1000 - (1000 * (rate - p.least)) \div (p.most - p.least))
        speedScore == AtLeast(0, 1000 - (1000 * (p.hours - 1)) \div 168) IN
    Round(25 * 1000 + 15 * amountScore + 25 * rateScore + 10 * speedScore + 10 * 800, 850)
\* The provider's least amount is not looked at again once the assessment reduced the amount.
generateSingleOffer(p, ask, assessment) ==
    LET rate == AtLeast(p.least, AtMost(p.most, BaseRate + riskPremiums[assessment.grade]))
        amount == AtMost(ask.amount, assessment.terms.amount) IN
    [lender |-> p.id, rate |-> rate, amount |-> amount, score |-> calculateMatchingScore(p, ask, rate, amount)]
\* An assessment that says reject is offered to like any other.
generateOffers(ask, assessment) ==
    {generateSingleOffer(p, ask, assessment) : p \in filterCompatibleProviders(ask, assessment)}

-----------------------------------------------------------------------------
\* The risk engine; a score in 340ths, the least common unit of its weights.
calculateIncomeStability(a) ==
    AtMost(100, (CASE a.employment = "employed" -> 80 [] a.employment = "self_employed" -> 60
                   [] a.employment = "retired" -> 70 [] OTHER -> 20)
                + Band(a.duration, <<<<24, 20>>, <<12, 10>>, <<6, 5>>>>, 0)
                + Band(a.income, <<<<10000, 10>>, <<5000, 5>>>>, 0))
calculateDTIScore(debt) ==
    Band(-debt, <<<<-200, 100>>, <<-300, 80>>, <<-400, 60>>, <<-500, 40>>, <<-600, 20>>>>, 0)
calculateEmploymentStability(a) ==
    CASE a.employment = "unemployed" -> 0 [] a.employment = "retired" -> 70
      [] OTHER -> Band(a.duration, <<<<36, 100>>, <<24, 80>>, <<12, 60>>, <<6, 40>>>>, 20)
calculateAgeScore(age) == IF age \in 25 .. 55 THEN 10 ELSE IF age \in 22 .. 65 THEN 5 ELSE 0

\* At least 30 points: nobody gains by having no business.
calculateBusinessScore(b) ==
    Band(b.years, <<<<5, 40>>, <<3, 30>>, <<1, 20>>>>, 10)
    + Band(b.revenue, <<<<1000000, 30>>, <<500000, 25>>, <<100000, 20>>, <<50000, 15>>>>, 10)
    + Band(b.employees, <<<<50, 30>>, <<10, 25>>, <<5, 20>>, <<1, 15>>>>, 10)
BusinessPoints(a) == IF a.business.years < 0 THEN 0 ELSE calculateBusinessScore(a.business)

\* The factors are worth at most 110 points beside the base of 500, and a score of 300 is enough.
calculateRiskScore(a) ==
    AtMost(1000, Round(340 * 500 + 16 * AtMost(a.history, 850) + 85 * calculateIncomeStability(a)
                       + 68 * calculateDTIScore(a.debt) + 34 * calculateEmploymentStability(a)
                       + 17 * BusinessPoints(a) + 340 * calculateAgeScore(a.age), 340))
determineRiskLevel(score) == Band(score, <<<<700, "low">>, <<500, "medium">>, <<300, "high">>>>, "very_high")
calculateMaxApprovedAmount(a, score) ==
    AtMost(Round(a.amount * Band(score, <<<<700, 10>>, <<600, 8>>, <<500, 6>>, <<400, 4>>, <<300, 2>>>>, 0), 10),
           5 * a.income)
calculateInterestRate(score, months) ==
    Band(score, <<<<700, 800>>, <<600, 1200>>, <<500, 1600>>, <<400, 2000>>, <<300, 2400>>>>, 3000)
    + Band(months, <<<<37, 200>>, <<25, 100>>>>, 0)
assessCreditRisk(a) ==
    LET score == calculateRiskScore(a) IN
    [score |-> score, level |-> determineRiskLevel(score), approved |-> score >= 300,
     amount |-> calculateMaxApprovedAmount(a, score), rate |-> calculateInterestRate(score, a.months)]

-----------------------------------------------------------------------------
\* The compliance engine: documents are [type, inDate].
verifyDocuments(docs) ==
    LET points(d) == IF d.type \in {"utility_bill", "bank_statement"} \/ d.inDate THEN 80 ELSE 60
        of(n) == Cardinality({d \in docs : points(d) = n}) IN
    AtMost(100, 80 * of(80) + 60 * of(60))

\* Faulty variant: any of the documents will do.
verifyKYCOfAny(docs) ==
    IF \A t \in {"passport", "utility_bill"} : \A d \in docs : d.type # t THEN "pending"
    ELSE Band(verifyDocuments(docs), <<<<80, "approved">>, <<60, "in_progress">>>>, "rejected")

verifyKYC(docs) ==
    IF \E t \in {"passport", "utility_bill"} : \A d \in docs : d.type # t THEN "pending"
    ELSE Band(verifyDocuments(docs), <<<<80, "approved">>, <<60, "in_progress">>>>, "rejected")
performAMLCheck(person) ==
    [status |-> IF person.listed THEN "hit" ELSE "clean",
     risk |-> IF person.listed THEN "high" ELSE IF person.exposed THEN "medium" ELSE "low"]
calculateOverallStatus(kyc, aml) ==
    CASE kyc = "approved" /\ aml = "clean" -> "compliant"
      [] kyc = "rejected" \/ aml = "hit" -> "non_compliant"
      [] OTHER -> "pending"
processKYCApplication(person, docs) ==
    LET kyc == verifyKYC(docs)
        aml == performAMLCheck(person) IN
    [kyc |-> kyc, aml |-> aml.status, overall |-> calculateOverallStatus(kyc, aml.status)]

\* The loan route's rate.
EstimatedRate(creditScore, debt, cover) ==
    LET base == Band(creditScore, <<<<750, 650>>, <<700, 850>>, <<650, 1200>>, <<600, 1800>>>>, 2500)
                + Band(debt, <<<<401, 300>>, <<301, 150>>>>, 0)
                - Band(cover, <<<<1200, 200>>, <<1000, 100>>>>, 0) IN
    AtLeast(300, AtMost(5000, base))

-----------------------------------------------------------------------------
Applicant == [income : Incomes, verified : BOOLEAN, months : AccountAges, amount : Amounts]
NoBusiness == [years |-> -1, revenue |-> 0, employees |-> 0]
RiskApplication ==
    [history : CreditScores, employment : {"employed", "self_employed", "unemployed", "retired"}, duration : JobDurations,
     income : {3000, 5000, 10000}, debt : DebtShares,
     business : Businesses \union {NoBusiness}, age : Ages, amount : {20000}, months : Terms]
Documents == [type : {"passport", "utility_bill", "national_id"}, inDate : BOOLEAN]
Person == [listed : BOOLEAN, exposed : BOOLEAN]

Nobody == [of |-> "nobody"]
AssessmentsInit == question = Nobody
AskUnderwriting == \E a \in Applicant, months \in Terms : question' = [of |-> "underwriting", applicant |-> a, term |-> months]
AskRisk == \E a \in RiskApplication : question' = [of |-> "risk", applicant |-> a]
AskCompliance == \E p \in Person, docs \in SUBSET Documents : question' = [of |-> "compliance", person |-> p, docs |-> docs]
AskRate == \E score \in CreditScores, debt \in DebtShares, cover \in {0, 1000, 1200} :
               question' = [of |-> "rate", score |-> score, debt |-> debt, cover |-> cover]
AssessmentsNext ==
    \/ question = Nobody /\ (AskCompliance \/ AskRate \/ AskUnderwriting \/ AskRisk)
    \/ question # Nobody /\ question' = Nobody
AssessmentsSpec == AssessmentsInit /\ [][AssessmentsNext]_question

-----------------------------------------------------------------------------
\* A better applicant is never worse off: another who is as good or better in everything is
\* assessed with no lower a score and no dearer terms, is offered no dearer credit by the same
\* lender, and so it is with the risk engine and the estimated rate.
BetterIsNeverWorse ==
    /\ question.of = "underwriting" => LET a == question.applicant worse == assessCreditApplication(a) IN
         \A b \in Applicant :
            LET better == assessCreditApplication(b)
                offers(x, assessment) == generateOffers([amount |-> x.amount, months |-> question.term], assessment) IN
            (b.income >= a.income /\ (a.verified => b.verified) /\ b.months >= a.months /\ b.amount = a.amount)
              => /\ better.score >= worse.score
                 /\ better.terms.rate <= worse.terms.rate /\ better.terms.amount >= worse.terms.amount
                 /\ \A o \in offers(b, better), w \in offers(a, worse) :
                       o.lender = w.lender => o.rate <= w.rate /\ o.score >= w.score
    /\ question.of = "risk" => LET a == question.applicant worse == assessCreditRisk(a) IN
         \A history \in CreditScores, duration \in JobDurations, debt \in DebtShares, business \in Businesses :
            LET better == assessCreditRisk([a EXCEPT !.history = history, !.duration = duration,
                                                     !.debt = debt, !.business = business]) IN
            (/\ history >= a.history /\ duration >= a.duration /\ debt <= a.debt
             /\ \A f \in DOMAIN business : business[f] >= a.business[f])
              => better.score >= worse.score /\ better.rate <= worse.rate /\ better.amount >= worse.amount
    /\ question.of = "rate" =>
         \A score \in CreditScores : score >= question.score
             => EstimatedRate(score, question.debt, question.cover)
                  <= EstimatedRate(question.score, question.debt, question.cover)

\* Whoever is compliant has shown a passport and a utility bill and is on no list; whoever has
\* and is not, is, even with a passport out of date.
CompliantIsDocumented ==
    question.of = "compliance" =>
        (processKYCApplication(question.person, question.docs).overall = "compliant"
         <=> /\ {"passport", "utility_bill"} \subseteq {d.type : d \in question.docs}
             /\ ~question.person.listed)
=============================================================================
