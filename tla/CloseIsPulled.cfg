SPECIFICATION Spec
CONSTANTS
  RemoteState = {"New", "Active", "Closed", "Removed"}
  StatusMap <- MCStatusMap
  Terminal = {"Closed", "Removed"}
  None = "none"
  Backend = {"azdo", "github"}
  Verdict = {"review"}
  Command = {"done"}
  Report = {}
  Gate = {"failed"}
  MaxEdits = 1
  MaxEvents <- MCMaxEvents
PROPERTIES
  CloseIsPulled
CHECK_DEADLOCK FALSE
