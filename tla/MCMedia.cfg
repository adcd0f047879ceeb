SPECIFICATION FairSpec
CONSTANTS
  Chunks <- MCChunks
  Sec <- MCSec
  Numbers <- MCNumbers
  Tasks <- MCTasks
  NoFile = NoFile
  MaxReports = 3
  MaxUpsets = 1
INVARIANTS TypeOK TasksKeepApart FootageKept ReadyRowPlays TimelineKeeps
PROPERTIES EpisodeSettles
CHECK_DEADLOCK FALSE
