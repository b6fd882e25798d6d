\* A plan change lands between the read and the insert of a suspend.
SPECIFICATION Spec
CONSTANTS
  i1 = i1
  i2 = i2
  r1 = r1
  r2 = r2
  r3 = r3
  plan1 = plan1
  plan2 = plan2
  ip1 = ip1
  IMSI = {i1}
  Seeded = {i1}
  Request = {r1, r2}
  Op = {"suspend", "plan"}
  Ambr = {plan1, plan2}
  DefaultAmbr = plan1
  Ip = {ip1}
  NoIp = NoIp
SYMMETRY Requests
INVARIANT
  AcknowledgedPlanKept
CHECK_DEADLOCK FALSE
