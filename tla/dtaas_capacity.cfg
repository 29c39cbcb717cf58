\* The README's capacity guarantee with DELETE among the requests.
SPECIFICATION Spec
CONSTANTS
  Id = {i1, i2}
  Handler = {h1, h2}
  Requests = {"POST", "DELETE"}
  MaxActive = 1
  MaxRegistry = 2
INVARIANTS
  CapacityHolds
