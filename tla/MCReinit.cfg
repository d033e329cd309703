SPECIFICATION ClearSpec
CONSTANTS
  MemSize <- MCMemSize
  RequestOps <- MCRequestOps
  DeviceBytes <- MCDeviceBytes
  Entry <- MCEntry
  Image <- MCImage
PROPERTIES ReinitClearsInte
