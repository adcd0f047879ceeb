SPECIFICATION Spec
CONSTANTS
  Chunks <- MCChunks
  Sec <- MCSec
  Numbers <- MCNumbers
  Tasks <- MCTasks
  NoFile = NoFile
  MaxReports = 3
  MaxUpsets = 0
PROPERTY SurvivingRowsKeepFiles
CHECK_DEADLOCK FALSE
