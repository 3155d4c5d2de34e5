SPECIFICATION FairSpec
CONSTANTS
  RepeatCount = 2
  Timeout = 1
  RefreshPeriod = 1
  MaxEvents = 2
  MaxAnswers = 1
  Recorded = FALSE
PROPERTIES ReportStaysAccurate RequestsEnd
