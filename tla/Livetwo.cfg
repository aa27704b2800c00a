SPECIFICATION FairSpec
CONSTANTS
  ChannelMod = 256
  MaxRead = 4
  MaxBuffer = 8
  OutWrap = 8
  Mtu = 2
  Configs <- MCConfigs
  Ports = {101, 102}
  MaxConn = 2
INVARIANTS FramesExact RoutedRight HandshakeSound RePayloadExact KeyFramesDecodable
PROPERTY SessionEnds
CHECK_DEADLOCK FALSE
