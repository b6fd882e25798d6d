\* Liveness: two requests that suspend, resume, remove or add one subscriber, and his UE's container.
SPECIFICATION ContainerSpec
CONSTANTS
  i1 = i1
  r1 = r1
  r2 = r2
  plan1 = plan1
  IMSI = {i1}
  Seeded = {i1}
  Request = {r1, r2}
  Op = {"suspend", "resume", "remove", "add"}
  Ambr = {plan1}
  DefaultAmbr = plan1
  Ip = {}
  NoIp = NoIp
  Timely = FALSE

  
PROPERTIES
  LiveIsServed
  LiveIsOnline
  RemovedStaysOut
CHECK_DEADLOCK FALSE
