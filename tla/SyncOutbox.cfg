SPECIFICATION MCFairSpec
CONSTANTS
  v1 = v1
  progress = progress
  d1 = d1
  d2 = d2
  w1 = w1
  w2 = w2
  Nobody = nobody
  Progress <- progress
  Verdicts <- OneVerdict
  Refs <- TwoDocs
  Writers <- TwoWriters
  MaxAttempts = 2
  Trouble = 3
  Edits = 1
  Retries = 1
PROPERTIES
  ConfirmedStays
  EverySummarySettles
