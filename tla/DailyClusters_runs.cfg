SPECIFICATION DCSpec
CONSTANTS
  Raws = {1, 2, 3, 4}
  Story <- Stories
  AlikeStories <- SharedWords
  Late = {1, 3}
  WindowEnds = {1, 4}
  CloseGraphs <- Graphs
  Jobs = {1, 2}
  MaxArticlesPerCluster = 3
  MaxClusters = 2
  ProcessedLimit = 3
  MaxReplays = 1
INVARIANTS
  OnlyOvertakenAreRefused
  GroupsAreTight
PROPERTIES
  PageIsTheClustering
CHECK_DEADLOCK FALSE
