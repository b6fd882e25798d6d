\* Three requests that suspend, resume and read one subscriber.
SPECIFICATION Spec
CONSTANTS
  i1 = i1
  i2 = i2
  r1 = r1
  r2 = r2
  r3 = r3
  plan1 = plan1
  plan2 = plan2
  ip1 = ip1
  IMSI = {i1}
  Seeded = {i1}
  Request = {r1, r2, r3}
  Op = {"suspend", "resume", "get", "list"}
  Ambr = {plan1, plan2}
  DefaultAmbr = plan1
  Ip = {ip1}
  NoIp = NoIp
SYMMETRY Requests
INVARIANTS
  TypeOK
  NothingLost
  BothOnlyMidMove
  SuspendIsEnforced
  ResumeIsEnforced
  NotFoundOnlyBesideMove
  ListMissesNobody
  HalfMoveBlocks
PROPERTY
  ImplementsFakeStore
CHECK_DEADLOCK FALSE
