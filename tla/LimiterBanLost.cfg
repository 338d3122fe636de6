SPECIFICATION Spec
CONSTANTS
  None = None
  TheIp = ip
  Conns = {a, b}
  Acceptors = {s}
  Ips = {ip}
  IpOf <- OneIp
  ConnConfig = None
  IpConfig <- OneMessage
  BanDuration = 1
  FrameSizes = {1}
  MaxTime = 3
  MaxFrames = 3
PROPERTIES BannedIpRejected
CHECK_DEADLOCK FALSE
