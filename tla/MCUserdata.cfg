SPECIFICATION MCSpec
CONSTANTS
  MemSize <- MCMemSize
  RequestOps <- MCRequestOps
  DeviceBytes <- MCDeviceBytes
  Entry <- MCEntry
  Image <- MCImage
INVARIANTS HandlersGetUserdata
