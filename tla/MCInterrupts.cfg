SPECIFICATION MCSpec
CONSTANTS
  MemSize <- MCMemSize
  RequestOps <- MCRequestOps
  DeviceBytes <- MCDeviceBytes
  Entry <- MCEntry
  Image <- MCImage
INVARIANTS TypeOK DelayEnds NestingBounded CriticalSectionKept
PROPERTIES HaltedIsFrozen RequestNotDropped Transparent LineSpec HaltWakes RequestsServed
