CONSTANTS
  Slots = {s1}
  Requests <- MCRequests
  FaultSets <- MCFaultSets
  Faults <- MCFaults
SPECIFICATION FairMeshSpec
INVARIANTS
  MeshIndInv
  OnlyEssentialServicesFailAPage
  PatienceSuffices
PROPERTIES
  MeshSettles
CHECK_DEADLOCK FALSE
