\* A plan typed with a unit that is not its largest is set and looked at.
SPECIFICATION AttachedSpec
CONSTANTS
  i1 = i1
  r1 = r1
  r2 = r2
  r3 = r3
  IMSI = {i1}
  Seeded = {i1}
  Request = {r1, r2}
  Op = {"plan", "get"}
  Ambr <- PaddedPlans
  DefaultAmbr <- Odd
  Kilo = 10
  Ip = {}
  NoIp = NoIp
  Timely = TRUE
INVARIANT
  EqualRatesLookEqual
CHECK_DEADLOCK FALSE
