CONSTANTS
  e1 = e1
  e2 = e2
  Files = {"f", "g"}
  Sent <- Texts
  OtherEdits = {e1, e2}
  MaxCalls = 2
SPECIFICATION PatchesSpec
INVARIANTS
  EditsSurvive
  
  
CHECK_DEADLOCK FALSE
