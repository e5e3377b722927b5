CONSTANTS
  Configs = {r1, r2}
  Categories = {c1, c2}
  Items = {i1}
  Threads = {menu, t1}
  Menu = menu
  Nobody = Nobody
SPECIFICATION Spec
SYMMETRY Symmetry
CHECK_DEADLOCK FALSE
INVARIANT TypeOK
INVARIANT OwnedOnce
INVARIANT OnlyGetNameBlocks
PROPERTY MenuTakesOver
