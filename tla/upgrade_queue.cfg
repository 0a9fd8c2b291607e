SPECIFICATION FairSpec
CONSTANTS
  Posts <- TwoPosts
  MaxJobs = 2
  MaxRelease = 2
  MaxAgentStops = 2
  MaxAppStops = 1
INVARIANTS TypeOK NeverReplayed ReportIsTrue MarkGuardsJob
PROPERTIES LeavesAReport JobsSettle
CHECK_DEADLOCK FALSE
