SPECIFICATION FairSpec
CONSTANTS
  Script <- MCScript
  RetryAttempts = {0, 2}
INVARIANTS OrchJobAtMostOnce OkMeansDone GivesUpOnlyAfterAll
PROPERTY ScriptFinishes
CHECK_DEADLOCK FALSE
