CONSTANTS
  MaxId = 3
  MaxRetries = 1
  Faults = {"crash"}
  MaxCrashes = 1
  MaxBox = 1
SPECIFICATION Spec
PROPERTY StoresAssignedId
