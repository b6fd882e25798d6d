\* Three requests that suspend, resume, change the plan of or look at an attached subscriber.
SPECIFICATION AttachedSpec
CONSTANTS
  i1 = i1
  r1 = r1
  r2 = r2
  r3 = r3
  IMSI = {i1}
  Seeded = {i1}
  Request = {r1, r2, r3}
  Op = {"suspend", "resume", "plan", "get"}
  Ambr <- Plans
  DefaultAmbr <- Even
  Kilo = 10
  Ip = {}
  NoIp = NoIp
  Timely = TRUE
SYMMETRY Requests
VIEW Signalling
INVARIANTS
  DetachTypeOK
  PlanTypeOK
  SuspendCutsSession
  PlanReachesMme
  PlanTakesHold
  NoNoteNoGap
PROPERTIES
  ResumeSignalsNothing
  NoteClears
CHECK_DEADLOCK FALSE
