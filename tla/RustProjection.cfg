\* A schema one of whose properties has the name of a conditional keyword.
SPECIFICATION SyncSpec
CONSTANTS
    Shared = "common"
    NoRef = NoRef
    Schema = {"common", "brief"}
    Document <- RuleDocument
    Torn = Torn
    MaxRewrites = 0
    MaxCrashes = 0
INVARIANT OnlyConditionalsRemoved
