CONSTANTS
  f1 = f1
  f2 = f2
  b1 = b1
  NoData = NoData
  Name <- MCName
  Files = {f1, f2}
  Buffers = {}
  BaseFiles = {f1}
  Buggy = {f1}
  Unparsable = {f2}
  Storing = {f1}
  MetaTracked = {f1}
  IoFaults = {"unread"}
  LoadFaults = {"unreadable", "nolink", "nostorage", "fatal"}
  Slots = {s1, s2}
  Handles = {h1, h2}
  MaxRequests = 1
  MaxEntries = 2
  MaxOpened = 2
SPECIFICATION Spec
INVARIANT SavedBeforeRead
INVARIANT RunningMeansReady
