SPECIFICATION Spec
CONSTANTS
  RemoteState = {"New", "Active", "Closed", "Removed"}
  StatusMap <- MCStatusMap
  Terminal = {"Closed", "Removed"}
  None = "none"
  Backend = {"azdo", "github"}
  Verdict = {"review"}
  Command = {"done"}
  Report = {"failed"}
  Gate = {"failed"}
  MaxEdits = 1
  MaxEvents <- MCMaxEvents
INVARIANTS
  TypeOK
  BookkeepingTrue
PROPERTIES
  HumanStands
  PushKeepsStatus
  PushedOrRefused
CHECK_DEADLOCK FALSE
