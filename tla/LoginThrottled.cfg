CONSTANTS
  Browsers = {}
  Terminals = {t1}
  Names = {}
  Emails = {}
  Capacity = 50
  Cost = 5
  TTL = 600
  Interval = 2
  SessionTTL = 604800
  Horizon = 600
  MaxTokens = 0
  MaxCodes = 1
SPECIFICATION Spec
INVARIANT NeverThrottled
\* The clock is bounded.
CHECK_DEADLOCK FALSE
