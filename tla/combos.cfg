CONSTANTS
  Plugins = {p1, p2}
  Old = {}
  Managers = {m1, m2}
  Combos = {h1}
  Threads = {t1, input}
  Input = input
  Nobody = Nobody
  Versions = {1, 2}
  Masks <- SmallMasks
SPECIFICATION FairSpec
INVARIANT TypeOK
INVARIANT ModuleKnowsCombos
INVARIANT CallbackIsOwn
PROPERTY OwnCombosOnly
PROPERTY CallsReturn
