SPECIFICATION Spec
CONSTANTS
  Pets <- MCPets
  Foreign <- MCForeign
  Offered <- MCOfferedAll
  Reports <- MCReports
  RefOf <- MCRefOf
  FaceIds <- MCFaceIds
  MAX_FACES_PER_PET = 1
  Requests = {r1, r2}
  MaxRequests = 3
  MaxKills = 1
INVARIANT HistoryAgrees
SYMMETRY RequestsAlike
CHECK_DEADLOCK FALSE
