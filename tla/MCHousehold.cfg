SPECIFICATION HouseholdSpec
CONSTANTS
  Pets <- MCPets
  Foreign <- MCForeign
  Offered <- MCOffered
  Reports <- MCOneReport
  RefOf <- MCCloudRef
  FaceIds <- MCFaceIds
  MAX_FACES_PER_PET = 1
  Requests = {r1, r2}
  MaxRequests = 3
  MaxKills = 1
  Devices <- MCDevices
  DeviceType <- MCDeviceType
  Uids <- MCUids
  Report <- MCReport
  Pictured <- MCPictured
  Stories <- MCStories
  Gaps <- MCGaps
  SUB_EVENT_WINDOW_SEC = 600
  CYCLE_TAIL_WINDOW_SEC = 120
  MaxResends = 1
  MaxRestarts = 1
  Day = 4
  Minute = 2
  Week = 2
  EmptyTick = 3
  Horizon = 8
  MaxEdits = 2
  MaxWrites = 2
  MaxChanges = 1
  MaxPulls = 1
  Shipped <- MCShipped
INVARIANTS TypesOK HistoryAgrees PhotosInOrder CardsComplete VisitsCountedOnce LastSeenAgrees FeedTotals PlanComplete MealsOnTime SettingsAgree
SYMMETRY RequestsAlike
CHECK_DEADLOCK FALSE
