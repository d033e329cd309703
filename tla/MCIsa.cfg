SPECIFICATION SweepSpec
CONSTANTS
  MemSize <- MCMemSize
  RequestOps <- MCRequestOps
  DeviceBytes = {0, 201}
  Entry = 0
  Image <- MCImage
  Samples <- IsaSamples
  Operands <- AluSamples
INVARIANTS TypeOK CallsReturn PswRoundTrip ArithmeticIsExact LogicIsBitwise DecimalAdjusts
PROPERTIES LengthsAgree CondbitsAgree CyclesFollowTheBranch
