SPECIFICATION TimelineSpec
CONSTANTS
  Devices <- MCDevices
  DeviceType <- MCDeviceType
  Uids <- MCUids
  Report <- MCReport
  Pictured <- MCPictured
  Stories <- MCMeal
  Gaps <- MCGaps
  SUB_EVENT_WINDOW_SEC = 600
  CYCLE_TAIL_WINDOW_SEC = 120
  MaxResends = 1
  MaxRestarts = 1
INVARIANT SummaryHeadsCard
CHECK_DEADLOCK FALSE
