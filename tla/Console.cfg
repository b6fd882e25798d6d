\* Two commands of every kind, one after the other, from any suspension of two subscribers.
SPECIFICATION ConsoleSpec
CONSTANTS
  r1 = r1
  r2 = r2
  IMSI <- MC_IMSI
  MsinOf <- MC_MsinOf
  Base = 2
  Width = 2
  Word = 8
  Seeded = {"h01", "foreign"}
  Request = {r1, r2}
  Op = {"suspend", "resume", "plan", "ip", "add", "remove", "get", "list"}
  Ambr <- Plans
  DefaultAmbr <- Slow
  Reason = {"NEW_ACTIVATION", "OTHER"}
  Address = {"10.45.0.9"}
  Ip <- MC_Ip
  NoIp = ""
SYMMETRY Requests
VIEW Untyped
INVARIANTS
  SameAnswer
  SameRecords
  FlagsAtRest
  SameMaxMSIN
PROPERTIES
  TypedIsSent
  IssuedIsFresh
CHECK_DEADLOCK FALSE
