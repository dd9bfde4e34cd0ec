\* Three items in the cache, as CACHE_SIZE in network_server.hpp, and a fourth
\* file to evict for.
CONSTANTS
  Nodes = {n1, n2, n3}
  Files = {f1, f2, f3, f4}
  Buffers = {b1, b2, b3, b4, b5}
  Watches = {w1}
  Clients = {c1, c2}
  MaxItems = 3
  NoWatch = NoWatch
  NULL = NULL
SPECIFICATION Spec
SYMMETRY Symmetry
INVARIANTS
  TypeOK
  ListIntact
  CountAccurate
  UniqueNames
  LocksMatchUsers
  UsedBuffersKept
  OneOwnerEach
PROPERTIES
  OutdatedNeverLent
  ImplementsFileCache
CHECK_DEADLOCK FALSE
