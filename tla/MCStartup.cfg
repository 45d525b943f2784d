SPECIFICATION StartSpec
CONSTANTS
  MaxInt64 = 1048575
  MinResolution = 10000
  DefBuckets <- MCDefBuckets
  Resolutions = {9998, 10000, 10002, 60000, 116508, 116510, 240000}
  Timeouts = {0, 1000, 9000, 9001, 54000, 216001}
  BucketTimes = {3, 5, 8, 12, 1000, 1003, 1006, 7000, 9990, 9996, 10000, 10002, 60000}
INVARIANTS
  TimesAreSound
  ConnectionAsConfigured
  SchemaBuilds
  BucketsPinpointResolution
CHECK_DEADLOCK FALSE
