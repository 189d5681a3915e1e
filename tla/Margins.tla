-------------------------------- MODULE Margins --------------------------------
(***************************************************************************)
(* services/admin-provider-management: what a provider is charged for a    *)
(* lead, from the structure, the adjustment rules and the bounds of its    *)
(* margin.  Percentages are in thousandths of a percent, rounded down;     *)
(* conditions of rules are thresholds, not text.                           *)
(***************************************************************************)
EXTENDS Integers, Sequences, FiniteSets

Percent(n) == n * 1000
Lesser(m, n) == IF m <= n THEN m ELSE n
Greater(m, n) == IF m >= n THEN m ELSE n

\* A performance is the score of a ranking; multipliers are in tenths, NoMultipliers is undefined.
NoScore == -1
NoMultipliers == [high |-> 0]
MarginKinds == {"fixed_percentage", "tiered", "performance_based", "custom"}
AdjustmentKinds == {"add", "multiply", "set"}
MarginConfig == [type : MarginKinds, base : Nat, tiers : Seq([from : Nat, to : Nat, percentage : Nat]),
                 multipliers : {NoMultipliers} \union [high : Nat, standard : Nat, low : Nat],
                 minimum : Nat, maximum : Nat, active : BOOLEAN,
                 rules : Seq([on : {"amount", "performance"}, threshold : Nat, adjustment : Nat,
                              type : AdjustmentKinds])]

-----------------------------------------------------------------------------
\* The tier that comes first, if tiers overlap.
findApplicableTier(amount, tiers) == {i \in DOMAIN tiers : tiers[i].from <= amount /\ amount <= tiers[i].to}
TieredMargin(config, amount) ==
    LET applicable == findApplicableTier(amount, config.tiers)
    IN IF applicable = {} THEN config.base
       ELSE config.tiers[CHOOSE i \in applicable : \A j \in applicable : i <= j].percentage

\* Zero counts as not given.
OrElse(given, default) == IF given = 0 THEN default ELSE given
PerformanceMultiplier(multipliers, score) ==
    IF score >= 80 THEN OrElse(multipliers.high, 12)
    ELSE IF score >= 60 THEN OrElse(multipliers.standard, 10)
    ELSE OrElse(multipliers.low, 8)
PerformanceMargin(config, score) ==
    IF score = NoScore \/ config.multipliers = NoMultipliers THEN config.base
    ELSE (config.base * PerformanceMultiplier(config.multipliers, score)) \div 10

\* getProviderTier goes by the recorded score, whatever score was given.
CustomMargin(config, recorded) ==
    LET hundredths == IF recorded >= 90 THEN 90 ELSE IF recorded >= 80 THEN 95
                      ELSE IF recorded >= 70 THEN 100 ELSE 105
    IN (config.base * hundredths) \div 100

StructureMargin(config, amount, score, recorded) ==
    CASE config.type = "fixed_percentage" -> config.base
      [] config.type = "tiered" -> TieredMargin(config, amount)
      [] config.type = "performance_based" -> PerformanceMargin(config, score)
      [] config.type = "custom" -> CustomMargin(config, recorded)

\* An adjustment adds thousandths of a percent, multiplies by tenths or replaces; rules that
\* look at the performance do not apply without one.
Applies(rule, amount, score) ==
    \/ rule.on = "amount" /\ amount > rule.threshold
    \/ rule.on = "performance" /\ score # NoScore /\ score < rule.threshold
Adjust(margin, rule) ==
    CASE rule.type = "add" -> margin + rule.adjustment
      [] rule.type = "multiply" -> (margin * rule.adjustment) \div 10
      [] rule.type = "set" -> rule.adjustment
applyAdjustmentRules(margin, amount, rules, score) ==
    LET after[n \in 0..Len(rules)] ==
            IF n = 0 THEN margin
            ELSE IF Applies(rules[n], amount, score) THEN Adjust(after[n - 1], rules[n]) ELSE after[n - 1]
    IN after[Len(rules)]

\* Faulty variant: the bounds in the other order.
WithinMaximum(config, margin) == Lesser(config.maximum, Greater(config.minimum, margin))

\* If the bounds cross, the minimum wins.
WithinBounds(config, margin) == Greater(config.minimum, Lesser(config.maximum, margin))

\* Reading a multiplier of a structure that has none throws.
CanCharge(config, score) ==
    ~(config.type = "performance_based" /\ config.multipliers = NoMultipliers /\ score # NoScore)
calculateMargin(config, amount, score, recorded) ==
    WithinBounds(config, applyAdjustmentRules(StructureMargin(config, amount, score, recorded),
                                              amount, config.rules, score))

-----------------------------------------------------------------------------
validateMarginConfiguration(config) ==
    config.minimum < config.maximum /\ 0 <= config.base /\ config.base <= Percent(100)

\* Leads grow by 5 % a month while the trend is up and shrink by 3 % while it is down.
applyGrowthFactor(leads, month, trend) ==
    LET rate == CASE trend = "up" -> 105 [] trend = "down" -> 97 [] OTHER -> 100
        grown[m \in 1..month] == IF m = 1 THEN leads * 1000 ELSE (grown[m - 1] * rate) \div 100
    IN (grown[month] + 500) \div 1000
\* What getMarginProjections expects of each month, in cents.
getMarginProjections(config, leads, amount, months, score, trend) ==
    [m \in 1..months |->
        LET expected == applyGrowthFactor(leads, m, trend)
        IN [leads |-> expected, revenue |-> expected * amount,
            margin |-> (expected * amount * calculateMargin(config, amount, score, score)) \div 1000]]

\* The base percentage that is recommended: a tenth more, up to the goal, or else to the maximum.
OptimizedBase(config, goal) == Lesser((config.base * 11) \div 10, IF goal = 0 THEN config.maximum ELSE goal)
=============================================================================
