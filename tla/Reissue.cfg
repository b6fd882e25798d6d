\* One SIM issued beside the resume of the subscriber with the highest MSIN.
SPECIFICATION IssueSpec
CONSTANTS
  r1 = r1
  s1 = s1
  s2 = s2
  plan1 = plan1
  IMSI = {0, 1, 2, 3}
  Seeded = {1, 2}
  Request = {r1, s1}
  Batch <- OneSim
  Op = {"add", "resume"}
  OtherOp = {"resume"}
  Ambr = {plan1}
  DefaultAmbr = plan1
  Ip = {}
  NoIp = NoIp
INVARIANT
  MovedKeysKept
CHECK_DEADLOCK FALSE
