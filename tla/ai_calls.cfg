\* The default of two retries; every task, with and without a key and a fallback.
SPECIFICATION FairSpec
CONSTANTS MaxRetries = 2
INVARIANTS RetryDiscipline GivesUpOnlyWhenAllFailed LogNamesTheAnswer
PROPERTIES ImplementsContract AlwaysReturns
CHECK_DEADLOCK FALSE
