\* One suspend of one subscriber, with the HSS polling in time: the UE attaches again between its two legs.
SPECIFICATION AttachedSpec
CONSTANTS
  i1 = i1
  r1 = r1
  r2 = r2
  plan1 = plan1
  plan2 = plan2
  IMSI = {i1}
  Seeded = {i1}
  Request = {r1}
  Op = {"suspend"}
  Ambr = {plan1, plan2}
  DefaultAmbr = plan1
  Ip = {}
  NoIp = NoIp
  Timely = TRUE
INVARIANT
  SuspendedStaysDetached
CHECK_DEADLOCK FALSE
