CONSTANTS
    t1 = t1  t2 = t2  t3 = t3
    f1 = f1  f2 = f2
    taint = taint  s1 = s1  s2 = s2
    d1 = d1  d2 = d2
    Targets <- MCTargets
    Files = {f1, f2}
    Unstable = {f1}
    Rules = {taint, s1, s2}
    Domains = {d1, d2}
    FileOf <- MCFileOf
    TaintRules = {taint}
    Compatible <- MCCompatible
    Applies <- MCApplies
    Relevant <- MCRelevant
    NMatches <- MCNMatches
    Footprint <- MCFootprint
    TimeoutThreshold = 0
    MaxMemory = 2
    MaxMatchPerFile = 2
    NoTarget = NoTarget
    NoRule = NoRule
    NoResult = NoResult
SPECIFICATION Spec
INVARIANT
    BlamedRuleWasInUse
CHECK_DEADLOCK FALSE
