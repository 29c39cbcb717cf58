\* POST, GET and DELETE from two handlers over two instances, one slot.
SPECIFICATION FairSpec
CONSTANTS
  Id = {i1, i2}
  Handler = {h1, h2}
  Requests = {"POST", "GET", "DELETE"}
  MaxActive = 1
  MaxRegistry = 2
INVARIANTS
  WorkerKeepsDirectory
  NoOrphanDirectory
  ResultIsComplete
PROPERTIES
  InstanceEnds
  PoppedIsSettled
