SPECIFICATION Spec
CONSTANTS
  Spawn = Spawn
  p1 = p1
  p2 = p2
  Poses <- MCPoses
  NoPose = NoPose
  NoJoint = NoJoint
  Outcomes <- MCOutcomes
INVARIANTS
  TypeOK
  OnlyIfReleased
  JoinedAtVehicle
PROPERTIES
  ReleaseHonoured
