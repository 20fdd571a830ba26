CONSTANTS
  MAX_IDENTIFIER = 2
  MAX_KIND = 3
  MAX_REFERENCE = 3
  MAX_REASON = 3
  MAX_INSTANCE = 3
  MAX_SECRET = 4
  MAX_CALLERS = 3
  Longest = 4
  Names <- MCNames
  LongestList = 4
SPECIFICATION TextSpec
CHECK_DEADLOCK FALSE
INVARIANT
  ReasonsAsPublished
