SPECIFICATION BucketSpec
CONSTANTS
  Requesters = {a, b}
  Needs = {1, 2}
  Start <- MCStart
  Configs <- MCConfigs
  Modulus = 1024
  MaxTime = 5
  MaxUpdates = 1
INVARIANTS RateLimited NothingLost
PROPERTY RefusedOnlyWhenShort
