SPECIFICATION Spec
CONSTANTS
  ControlLists <- MCControlLists
  ServoChannels = 2
  MaxMotors = 3
  PwmValues <- MCPwmValues
  Rates <- MCRates
  Frames <- MCFrames
  NoFrame = NoFrame
  NoPacket = NoPacket
  NoValue = NoValue
  MaxTime = 4
INVARIANTS
  TypeOK
  OnePacket
  CommandInRange
  SilentUnlessReady
PROPERTIES
  FollowsServoLink
