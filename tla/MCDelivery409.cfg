SPECIFICATION Spec
CONSTANTS
  Script <- MCOrch
  RetryAttempts = {0, 2}
INVARIANT DuplicateIsNoFailure
CHECK_DEADLOCK FALSE
