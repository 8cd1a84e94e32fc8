SPECIFICATION FairSpec
CONSTANTS
  Most = 3
  Name = {"ann", "bob"}
  Asked = {"admin", "viewer"}
  Scope = {"invoke", "manage"}
  MaxKeys = 1
  MaxStops = 1
  Span = 4
  Callers = {"k", "l"}
  Limits = {1, 2}
  Histories <- MCHistories
CHECK_DEADLOCK FALSE
INVARIANTS Accountable RateKept
PROPERTY RegistrationsAnswered
