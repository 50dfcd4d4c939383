\* Evaluations, portal requests, rule edits, failing statements and a killed service.
SPECIFICATION FairSpec
CONSTANTS
    low = low
    high = high
    Invalid = Invalid
    RuleIds <- MCRuleIds
    PointOf <- MCPointOf
    OpOf <- MCOpOf
    ThresholdOf <- MCThresholdOf
    Points = {"p"}
    Values = {1, 2}
    Capacity = 1
    ReloadEvery = 2
    MaxFaults = 1
INVARIANT AgreesBetweenCycles
PROPERTY BoardIsOneEvaluation
PROPERTY AlarmsFollowConditions
