SPECIFICATION FairSpec
CONSTANTS
  Device = {"till", "office"}
  Terminal = {"till"}
  Page = {"till", "office"}
  DeviceOf <- MCDeviceOf
  Worker = {w1, w2}
  Sale = {1, 2, 3, 4}
  Product = {"tea", "rice"}
  Home <- MCHome
  Lines <- MCLines
  Tendered = {1, 2}
  Earlier = 1
  Nobody = "nobody"
  MaxFaults = 1
INVARIANTS
  RecordedOnce
  NothingLost
PROPERTIES
  EverySaleArrives
CHECK_DEADLOCK FALSE
