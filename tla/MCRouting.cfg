SPECIFICATION Spec
CONSTANTS
  Users = {"ann", "_admin_fallback"}
  Groups = {"g1", "g2"}
  Channels = {"c1", "c2", "c3"}
  Models = {"m", "n"}
  Fallback = "_admin_fallback"
  NoOne = "nobody"
  NoGroup = "none"
  NoModel = "-"
  Priority <- MCPriority
  Weight <- MCWeight
  InitialModels <- MCModels
  InitialMapping <- MCMapping
  InitialLinks <- MCLinks
  MaxEdits = 2
INVARIANTS
  AnswerWasGranted
  ReachableIsServed
  
CHECK_DEADLOCK FALSE
