SPECIFICATION Spec
CONSTANTS
  None = None
  TheIp = ip
  Conns = {a}
  Acceptors = {}
  Ips = {ip}
  IpOf <- OneIp
  ConnConfig <- TwoMessagesThreeBytes
  IpConfig = None
  BanDuration = 2
  FrameSizes = {1, 2}
  MaxTime = 7
  MaxFrames = 6
INVARIANTS
  TypeOK
  ConnBurstBound
PROPERTIES
  ConnBanHolds
  BanNotExtended
  SweepForgetsOnlyStale
CHECK_DEADLOCK FALSE
