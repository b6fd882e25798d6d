\* A batch of two SIMs beside one request that suspends, resumes, adds, removes or issues a SIM too.
SPECIFICATION BatchSpec
CONSTANTS
  r1 = r1
  s1 = s1
  s2 = s2
  plan1 = plan1
  IMSI = {0, 1, 2, 3, 4}
  Seeded = {1}
  Request = {r1, s1, s2}
  Batch <- Batches
  Op = {"suspend", "resume", "remove", "add"}
  OtherOp = {"suspend", "resume", "remove", "add"}
  Ambr = {plan1}
  DefaultAmbr = plan1
  Ip = {}
  NoIp = NoIp
INVARIANTS
  IssueTypeOK
  IssueTakesFreshImsi
  BatchAscends
  ContiguousAlone
  StoredSimIsSeen
  IssuedKeysKept
CHECK_DEADLOCK FALSE
