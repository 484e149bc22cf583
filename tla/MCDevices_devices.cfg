SPECIFICATION Spec
INVARIANTS SettledOutputs DerivedCurrent ExecutionsKnown ZonesFollow NeverStalled
INVARIANTS AnswersMatched Enforced ReplayExact LogsAccounted SavedIsLoaded ModelCurrent ViewSound
CHECK_DEADLOCK FALSE
