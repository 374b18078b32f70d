SPECIFICATION LiveSpec
CONSTANTS
  Order <- MyOrder
  Directory <- MyDirectory
  Text <- MyText
  MaxVersion = 2
  Runtime = "pell_runtime"
  None = None
  MaxEdits = 2
  MaxFaults = 1
INVARIANT ZeroWorks
PROPERTIES BuildsFirst RedeployIsSafe Converges
