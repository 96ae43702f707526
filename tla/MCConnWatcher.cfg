SPECIFICATION FairSpec
CONSTANT MaxDrops = 4
PROPERTIES
  EveryReportAnswered
  WatcherRests
CHECK_DEADLOCK FALSE
