SPECIFICATION ServicesSpec
CONSTANTS
  a = a
  b = b
  Ids <- MCIds
  MaxCred = 2
  MaxVer = 1
  MaxFail = 1
  AccIds = {1, 2}
  Macs = {"m1", "m2"}
  Parents = {11, 12}
  BlockFields = {"f", "g"}
  Commands = {"c1", "c2"}
  MaxOps = 4
  Requests = {1, 2}
  Paths = {"heartbeat", "dev_ble_device"}
  Replies <- MCReplies
  Settings <- MCSettings
  Looping = {""}
  Slots = {1, 2}
  MaxEdits = 1
  Redaction <- MCRedaction
  Foreign <- MCForeign
  Refusal <- MCRefusal
  OwnBody <- MCOwnBody
  Identity <- MCIdentity
  CloudBodies <- MCCloudBodies
  DeviceBody <- MCDeviceBody
  Policy <- Strict
  CleanBody <- MCCleanBody
  ForeignBody <- MCForeign
  MaxToggles = 3
  MaxCreds = 2
  Pages = {1, 2}
  Devices = {"d", "e"}
  Outcomes = {"sent", "refused"}
  RingLength = 3
  Replay = 2
  QueueLength = 2
  MaxTracked = 1
  MaxEvents = 4
  Patches = {"mqtt", "talk", "camera"}
  Kind <- MCKind
  Ops = {1, 2}
  QueueBound = 3
  Models = {"t4", "t5", "d4sh", "w7h"}
  MaxNow = 2
  MaxDrops = 1
  MaxStarts = 1
INVARIANTS CleanMeansDurable TypesOK AnswersAreOurs SessionsKept DeadCloudIsCheap NoEcho BlocksKept K3Forgotten WrapperFilesPresent ActiveMatchesDevice HeldIsReported
PROPERTIES BookSpec EventFeedSpec EventuallyWritten AlwaysAnswered LinkFollowsSetting SidecarSettles HaCatchesUp
CHECK_DEADLOCK FALSE
