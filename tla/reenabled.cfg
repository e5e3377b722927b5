CONSTANTS
  f1 = f1
  f2 = f2
  b1 = b1
  NoData = NoData
  Name <- MCName
  Files = {f1}
  Buffers = {b1}
  BaseFiles = {}
  Buggy = {f1}
  Unparsable = {}
  Storing = {}
  MetaTracked = {}
  IoFaults = {}
  LoadFaults = {}
  Slots = {s1, s2, s3}
  Handles = {h1, h2, h3}
  MaxRequests = 1
  MaxEntries = 3
  MaxOpened = 2
SPECIFICATION Spec
SYMMETRY Symmetry
INVARIANT BuggyOnlyWhenReenabled
