SPECIFICATION LinkSpec
CONSTANTS
  CloudBodies <- MCCloudBodies
  Policy <- MCPolicy
  DeviceBody <- MCDeviceBody
  CleanBody <- MCCleanBody
  ForeignBody <- MCForeignBody
  MaxToggles = 1
  MaxCreds = 1
PROPERTY ShutdownEnds
CHECK_DEADLOCK FALSE
