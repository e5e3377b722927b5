CONSTANTS
  Plugins = {p1, p2}
  AsksForTracking = {p1}
  Ids = {c1, c2, c3, c4}
  MaxSlots = 2
  Threads = {t1, t2}
  Nobody = Nobody
  Ptrs = {x1, x2}
  Sizes = {1, 2}
  MaxRequests = 2
SPECIFICATION Spec
SYMMETRY Symmetry
INVARIANT TypeOK
INVARIANT OneOwner
INVARIANT MapIsLive
